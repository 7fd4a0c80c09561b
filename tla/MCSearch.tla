---------------------------------- MODULE MCSearch ----------------------------------
(***************************************************************************)
(* Package search: a behaviour of this module is one of a search that runs, *)
(* of a request that is validated and compiled, of a client that pages      *)
(* through a result, or of a term that is translated to a pattern, while    *)
(* the other parts rest.                                                    *)
(***************************************************************************)
EXTENDS Searcher, SearchPages, SearchCompile, Wildcards, TLC

VARIABLE part

-----------------------------------------------------------------------------
(* A search: pages of at most two rows                                     *)

Request(n, adaptive, slice, tx) ==
    [size |-> 2, number |-> n, adaptive |-> adaptive, slice |-> slice, tx |-> tx]

MCSearchRequests ==
    {Request(0, TRUE, TRUE, FALSE), Request(0, TRUE, FALSE, FALSE), Request(2, TRUE, TRUE, FALSE),
     Request(1, FALSE, TRUE, FALSE), Request(1, TRUE, TRUE, TRUE)}

RunRests ==
    /\ table = 0 /\ caller = "idle" /\ page = Request(0, TRUE, TRUE, FALSE) /\ gerr = "" /\ cerr = ""
    /\ count = Idle /\ sel = Idle /\ first = "" /\ result = [err |-> ""]
    /\ causes = {} /\ seen = {} /\ searches = 0

-----------------------------------------------------------------------------
(* A request: fields of several types, and values that fit and do not      *)

Str(parts) == [t |-> "string", parts |-> parts]
Float(n, frac) == [t |-> "float", n |-> n, frac |-> frac]
List(elems) == [t |-> "list", elems |-> elems]

Field(col, type, ops, searchable, sortable, resolver) ==
    [col |-> col, type |-> type, ops |-> ops, searchable |-> searchable,
     sortable |-> sortable, resolver |-> resolver]

Name == Field("name", "string", {}, TRUE, TRUE, "direct")
Size == Field("size", "int", {"eq", "between"}, FALSE, TRUE, "direct")
Tag  == Field("", "array", {}, TRUE, FALSE, "subquery")

Config(fields, tenant, maxPage, maxTerms, sort) ==
    [fields |-> fields, tenantColumn |-> tenant, maxPageSize |-> maxPage,
     maxBulkTerms |-> maxTerms, defaultSort |-> sort, defaultDesc |-> TRUE]

MCConfigs ==
    {Config([name |-> Name, size |-> Size, tag |-> Tag], "tenant_id", 4, 1, "size"),
     Config([name |-> Name, size |-> [Size EXCEPT !.searchable = TRUE],
             tag |-> [Tag EXCEPT !.resolver = "template"]], "", 0, 0, "none")}

Filter(field, ops, values) == {[field |-> field, op |-> o, value |-> v] : o \in ops, v \in values}

MCFilters ==
    Filter("name", {"EQ", "in"}, {Str(<<"a", "b">>), [t |-> "null"]})
    \cup Filter("name", {"is_null"}, {[t |-> "null"]})
    \cup Filter("name", {"near"}, {Str(<<"a">>)})
    \cup Filter("size", {"eq"}, {Float(63, FALSE), Float(64, FALSE), Float(7, TRUE), Str(<<"5">>), Str(<<"a">>)})
    \cup Filter("size", {"between"}, {List(<<Float(63, FALSE), Float(-64, FALSE)>>), List(<<Float(1, FALSE), Float(64, FALSE)>>)})
    \cup Filter("size", {"is_null"}, {[t |-> "null"]})
    \cup Filter("tag", {"eq"}, {Str(<<"a">>)})
    \cup Filter("tag", {"in"}, {Str(<<"a", " ">>)})
    \cup Filter("other", {"eq"}, {[t |-> "bool", v |-> TRUE]})

MCSorts == {[field |-> f, desc |-> TRUE] : f \in {"name", "tag", "other"}}
MCPages == {[size |-> 0, number |-> 1], [size |-> 5, number |-> 2]}
MCLower == [o \in {"EQ", "eq", "in", "between", "is_null", "near"} |-> IF o = "EQ" THEN "eq" ELSE o]
MCParse == [int |-> "5" :> 5, bool |-> "true" :> TRUE, date |-> "today" :> "today"]

AskRests ==
    /\ cfg = Config([name |-> Name, size |-> Size, tag |-> Tag], "tenant_id", 4, 1, "size")
    /\ req = [filters |-> <<>>, terms |-> <<>>, sorts |-> <<>>, tenant |-> <<>>,
              page |-> [size |-> 0, number |-> 1]]

-----------------------------------------------------------------------------
(* A client that pages, on integers of seven bits                          *)

ClientRests == PagesInit /\ max = 4 /\ total = 0 /\ asked.size = 2

-----------------------------------------------------------------------------
(* One part at a time                                                      *)

Init ==
    \/ part = "run" /\ SearchInit /\ AskRests /\ ClientRests /\ PatternInit
    \/ part = "ask" /\ RunRests /\ AskInit /\ ClientRests /\ PatternInit
    \/ part = "client" /\ RunRests /\ AskRests /\ PagesInit /\ PatternInit
    \/ part = "pattern" /\ RunRests /\ AskRests /\ ClientRests /\ PatternInit

Next ==
    \/ part = "run" /\ SearchNext /\ UNCHANGED <<part, askVars, pagesVars, patternVars>>
    \/ part = "ask" /\ AskNext /\ UNCHANGED <<part, searchVars, pagesVars, patternVars>>
    \/ part = "client" /\ PagesNext /\ UNCHANGED <<part, searchVars, askVars, patternVars>>
    \/ part = "pattern" /\ PatternNext /\ UNCHANGED <<part, searchVars, askVars, pagesVars>>

Spec == Init /\ [][Next]_<<part, searchVars, askVars, pagesVars, patternVars>> /\ Fairness

=============================================================================
