-------------------------------- MODULE SearchCompile --------------------------------
(***************************************************************************)
(* The validation and the compilation of a search request. A condition of  *)
(* the compiled WHERE is [of, col, op, ph]: what it came from, its columns, *)
(* its operator and the numbers of its placeholders.                        *)
(***************************************************************************)
EXTENDS Pagination, Lists

CONSTANTS
    Configs,   \* resources: [fields, tenantColumn, maxPageSize, maxBulkTerms, defaultSort, defaultDesc];
               \* a field is [col, type, ops, searchable, sortable, resolver], and type is the
               \* one that its resolver coerces to
    Filters,   \* [field, op, value]; a value is [t |-> "null" | "string" | "float" | ...], and
               \* a float is its integral part n and whether there is a fraction
    Terms, Sorts, Tenants, PageRequests,
    Blank,     \* the terms and the parts of strings that are empty once trimmed
    AllWild,   \* the terms that consist of wildcards
    LowerOp,   \* strings.ToLower on operators
    Parse,     \* Parse[type]: the strings without a comma that parse, and what they parse to
    MaxFilters, MaxTerms, MaxSorts

Types == {"string", "uuid", "array", "int", "bool", "date"}

\* The field types of types.go, the resolvers of resolver.go ("template": a subquery
\* without its one %s), and values that JSON can hold.
ASSUME AskAssumption ==
    /\ \A c \in Configs : \A f \in DOMAIN c.fields :
           c.fields[f].type \in Types /\ c.fields[f].resolver \in {"direct", "subquery", "template"}
    /\ \A f \in Filters :
           /\ f.value.t = "list" =>
                  /\ IsList(f.value.elems)
                  /\ \A i \in DOMAIN f.value.elems : f.value.elems[i].t = "float" => f.value.elems[i].n \in Int
           /\ f.value.t = "string" => IsList(f.value.parts)
           /\ f.value.t = "float" => f.value.n \in Int

VARIABLES cfg, req

askVars == <<cfg, req>>

\* No error, no column: the empty string.
None == ""

-----------------------------------------------------------------------------
(* coerce.go: an error is the empty set, a value a set of one               *)

\* A string is the sequence of its comma-separated parts.
ParseString(type, parts) ==
    IF Len(parts) = 1 /\ parts[1] \in DOMAIN Parse[type] THEN {Parse[type][parts[1]]} ELSE {}

\* Mutant: the comparison with float64(MaxInt64) lets 2^63 through.
FloatToIntEdge(v) ==
    IF v.frac \/ v.n < -(2^(IntBits - 1)) \/ v.n > 2^(IntBits - 1) THEN {} ELSE {v.n}

\* float64(MaxInt64) rounds up to 2^63, and so does its image here.
FloatToInt(v) ==
    IF v.frac \/ v.n < -(2^(IntBits - 1)) \/ v.n >= 2^(IntBits - 1) THEN {} ELSE {v.n}

coerceScalar(type, v) ==
    IF v.t = "null" THEN {}
    ELSE IF type \in {"string", "uuid", "array"} THEN IF v.t = "string" THEN {v.parts} ELSE {}
    ELSE IF v.t = "string" THEN ParseString(type, v.parts)
    ELSE IF type # "int" THEN IF v.t = type THEN {v.v} ELSE {}
    ELSE IF v.t = "float" THEN FloatToInt(v)
    ELSE IF v.t = "int" THEN {v.n} ELSE {}

\* All of the values or an error.
CoerceAll(type, vs) ==
    IF \E i \in DOMAIN vs : coerceScalar(type, vs[i]) = {} THEN {}
    ELSE {[i \in DOMAIN vs |-> CHOOSE x \in coerceScalar(type, vs[i]) : TRUE]}

coerceList(type, v) ==
    CASE v.t = "list" -> CoerceAll(type, v.elems)
      [] v.t = "string" ->
           LET parts == Without(v.parts, Blank)
           IN  CoerceAll(type, [i \in DOMAIN parts |-> [t |-> "string", parts |-> <<parts[i]>>]])
      [] OTHER -> CoerceAll(type, <<v>>)

-----------------------------------------------------------------------------
(* Validate                                                                *)

\* The terms that a search uses: neither blank nor all wildcards.
Effective(terms) == Without(terms, Blank \cup AllWild)

validateFilter(c, f) ==
    IF f.field \notin DOMAIN c.fields THEN "field"
    ELSE IF c.fields[f.field].ops = {} \/ LowerOp[f.op] \in c.fields[f.field].ops THEN None
    ELSE "operator"

SortError(c, s) ==
    IF s.field \notin DOMAIN c.fields THEN "field" ELSE IF c.fields[s.field].sortable THEN None ELSE "sort"

FirstError(errs) == IF Without(errs, {None}) = <<>> THEN None ELSE Without(errs, {None})[1]

\* Mutant: sorts are not validated.
ValidateNoSorts(c, r) ==
    IF c.maxBulkTerms > 0 /\ Len(Effective(r.terms)) > c.maxBulkTerms THEN "terms"
    ELSE FirstError([i \in DOMAIN r.filters |-> validateFilter(c, r.filters[i])])

Validate(c, r) ==
    IF c.maxBulkTerms > 0 /\ Len(Effective(r.terms)) > c.maxBulkTerms THEN "terms"
    ELSE FirstError([i \in DOMAIN r.filters |-> validateFilter(c, r.filters[i])]
                    \o [i \in DOMAIN r.sorts |-> SortError(c, r.sorts[i])])

-----------------------------------------------------------------------------
(* Compile                                                                 *)

comparisonSQL == {"eq", "ne", "gt", "gte", "lt", "lte", "like", "ilike", "not_like", "not_ilike"}

\* The values that an operator binds: a set of one sequence, or an error.
DirectColumnResolve(fc, op, value) ==
    CASE op \in comparisonSQL -> {<<x>> : x \in coerceScalar(fc.type, value)}
      [] op \in {"in", "not_in"} -> {s \in coerceList(fc.type, value) : s # <<>>}
      [] op = "between" -> {s \in coerceList(fc.type, value) : Len(s) = 2}
      [] op \in {"is_null", "is_not_null"} -> {<<>>}

SubqueryResolve(fc, value) == {<<x>> : x \in coerceScalar(fc.type, value)}

\* The error of a resolver, or None and the values it binds.
Resolve(fc, op, value) ==
    CASE fc.resolver = "template" -> [err |-> "template", vals |-> {}]
      [] fc.resolver = "subquery" /\ op # "eq" -> [err |-> "operator", vals |-> {}]
      [] fc.resolver = "direct" /\ op \notin comparisonSQL \cup
             {"in", "not_in", "between", "is_null", "is_not_null"} -> [err |-> "operator", vals |-> {}]
      [] OTHER ->
           LET vals == IF fc.resolver = "subquery" THEN SubqueryResolve(fc, value)
                       ELSE DirectColumnResolve(fc, op, value)
           IN  [err |-> IF vals = {} THEN "value" ELSE None, vals |-> vals]

\* The compilation so far, [err, args, conds], with one more condition that binds vals.
Bind(st, of, col, op, vals) ==
    [st EXCEPT !.args = @ \o vals,
               !.conds = Append(@, [of |-> of, col |-> col, op |-> op,
                                    ph |-> [i \in DOMAIN vals |-> Len(st.args) + i]])]

searchColumns(c) ==
    {c.fields[f].col : f \in {g \in DOMAIN c.fields : c.fields[g].searchable /\ c.fields[g].col # None}}

\* All terms share one parenthesised condition, (t1 OR t2 ...), each over all columns.
buildSearchTerms(c, st, terms) ==
    LET cols == searchColumns(c) eff == Effective(terms)
    IN  IF cols = {} \/ eff = <<>> THEN st ELSE Bind(st, "terms", cols, "ilike", eff)

\* Mutant: Compile relies on Validate.
CompileFilterUnchecked(c, st, f) ==
    IF st.err # None \/ f.field \notin DOMAIN c.fields THEN st
    ELSE LET fc == c.fields[f.field] r == Resolve(fc, LowerOp[f.op], f.value)
         IN  IF r.err # None THEN [st EXCEPT !.err = r.err]
             ELSE Bind(st, "filter", {fc.col}, LowerOp[f.op], CHOOSE v \in r.vals : TRUE)

\* Mutant: the placeholders of a filter are numbered from its own values.
CompileFilterFromOne(c, st, f) ==
    IF st.err # None THEN st
    ELSE IF validateFilter(c, f) # None THEN [st EXCEPT !.err = validateFilter(c, f)]
    ELSE LET fc == c.fields[f.field] r == Resolve(fc, LowerOp[f.op], f.value)
         IN  IF r.err # None THEN [st EXCEPT !.err = r.err]
             ELSE LET b == Bind([st EXCEPT !.args = <<>>], "filter", {fc.col}, LowerOp[f.op], CHOOSE v \in r.vals : TRUE)
                  IN  [b EXCEPT !.args = st.args \o @]

CompileFilter(c, st, f) ==
    IF st.err # None THEN st
    ELSE IF validateFilter(c, f) # None THEN [st EXCEPT !.err = validateFilter(c, f)]
    ELSE LET fc == c.fields[f.field] r == Resolve(fc, LowerOp[f.op], f.value)
         IN  IF r.err # None THEN [st EXCEPT !.err = r.err]
             ELSE Bind(st, "filter", {fc.col}, LowerOp[f.op], CHOOSE v \in r.vals : TRUE)

\* Sorts that are unknown or not sortable are passed over; without a sort, the default.
buildOrderBy(c, sorts) ==
    LET known == Without(sorts, {s \in Sorts : SortError(c, s) # None})
    IN  IF known # <<>> THEN [i \in DOMAIN known |-> <<c.fields[known[i].field].col, known[i].desc>>]
        ELSE IF c.defaultSort \in DOMAIN c.fields THEN <<<<c.fields[c.defaultSort].col, c.defaultDesc>>>>
        ELSE <<>>

maxPageSize(c) == IF c.maxPageSize > 0 THEN c.maxPageSize ELSE DefaultMaxPageSize

\* The condition of the tenant; r.tenant is <<>> in a call without WithTenant.
TenantCondition(c, r) ==
    LET start == [err |-> None, args |-> <<>>, conds |-> <<>>]
    IN  IF c.tenantColumn # None /\ r.tenant # <<>>
        THEN Bind(start, "tenant", {c.tenantColumn}, "eq", r.tenant) ELSE start

\* The state of the compilation after each filter.
CompileFilters(c, r) ==
    LET after[n \in 0..Len(r.filters)] ==
            IF n = 0 THEN buildSearchTerms(c, TenantCondition(c, r), r.terms)
            ELSE CompileFilter(c, after[n - 1], r.filters[n])
    IN  after

Compile(c, r) ==
    LET all == CompileFilters(c, r)[Len(r.filters)]
    IN  [err |-> all.err, args |-> all.args, conds |-> all.conds,
         orderBy |-> buildOrderBy(c, r.sorts),
         limit |-> SizeWithMax(r.page, maxPageSize(c)), offset |-> OffsetWithMax(r.page, maxPageSize(c))]

-----------------------------------------------------------------------------
(* A client that puts a request together                                   *)

AskInit ==
    /\ cfg \in Configs
    /\ req \in [filters : {<<>>}, terms : {<<>>}, sorts : {<<>>}, tenant : {<<>>} \cup {<<t>> : t \in Tenants}, page : PageRequests]

AddFilter(f) == Len(req.filters) < MaxFilters /\ req' = [req EXCEPT !.filters = Append(@, f)]

AddTerm(t) == Len(req.terms) < MaxTerms /\ req' = [req EXCEPT !.terms = Append(@, t)]

AddSort(s) == Len(req.sorts) < MaxSorts /\ req' = [req EXCEPT !.sorts = Append(@, s)]

AskNext ==
    /\ UNCHANGED cfg
    /\ \/ \E f \in Filters : AddFilter(f)
       \/ \E t \in Terms : AddTerm(t)
       \/ \E s \in Sorts : AddSort(s)

AskSpec == AskInit /\ [][AskNext]_askVars

-----------------------------------------------------------------------------
(* Properties                                                              *)

\* The placeholders of a compiled query number its arguments: over the tenant, the terms
\* and the filters together, they ascend from condition to condition and within each, and
\* every argument has one.
PlaceholdersNumberArgs ==
    LET q == Compile(cfg, req)
    IN  q.err = None =>
          /\ \A k, l \in DOMAIN q.conds : \A i \in DOMAIN q.conds[k].ph, j \in DOMAIN q.conds[l].ph :
               k < l \/ (k = l /\ i < j) => q.conds[k].ph[i] < q.conds[l].ph[j]
          /\ UNION {{q.conds[k].ph[i] : i \in DOMAIN q.conds[k].ph} : k \in DOMAIN q.conds} = DOMAIN q.args

\* A JSON number v is bound as the number that it is, and only when it is an integer of IntBits bits.
Keeps(v, x) == v.t = "float" => ~v.frac /\ x = v.n /\ -Half <= x /\ x <= Half - 1

\* q is what r asks for: within the tenant if one was given, and its last conditions are
\* those of the filters in their order, none missing, each with an operator its field
\* allows, bound to a value of the field's type and to nothing of another filter.
Answers(c, r, q) ==
    LET Args(cond) == [i \in DOMAIN cond.ph |-> q.args[cond.ph[i]]]
        others == Len(q.conds) - Len(r.filters)
    IN  /\ c.tenantColumn # None /\ r.tenant # <<>> =>
             others > 0 /\ q.conds[1].col = {c.tenantColumn} /\ Args(q.conds[1]) = r.tenant
        /\ others >= 0 /\ \A k \in 1..others : q.conds[k].of # "filter"
        /\ \A i \in DOMAIN r.filters :
             LET f == r.filters[i] fc == c.fields[f.field] last == q.conds[others + i]
             IN  /\ f.field \in DOMAIN c.fields /\ last.of = "filter" /\ last.col = {fc.col}
                 /\ fc.ops # {} => last.op \in fc.ops
                 /\ Args(last) \in Resolve(fc, last.op, f.value).vals
                 /\ \A k \in DOMAIN Args(last) :
                        Keeps(IF f.value.t = "list" THEN f.value.elems[k] ELSE f.value, Args(last)[k])

\* A query that Compile returns without an error is the one that was asked for, in its
\* tenant, its filters, their operators and their values.
QueryAsRequested == \A q \in {Compile(cfg, req)} : q.err = None => Answers(cfg, req, q)

\* Validate and Compile agree: a request that Validate lets through fails in Compile only
\* for a value, an operator that the resolver does not know or a broken template, and no
\* sort of it is dropped; and Compile refuses every filter that Validate refuses.
ValidateAgrees ==
    LET v == Validate(cfg, req) q == Compile(cfg, req)
    IN  /\ v = None => /\ q.err \in {None, "value", "operator", "template"}
                       /\ req.sorts # <<>> => Len(q.orderBy) = Len(req.sorts)
        /\ (\E i \in DOMAIN req.filters : validateFilter(cfg, req.filters[i]) # None) => q.err # None

=============================================================================
