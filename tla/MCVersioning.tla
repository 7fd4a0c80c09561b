------------------------------ MODULE MCVersioning ------------------------------
(***************************************************************************)
(* Services that version by header against their registry, reporting the   *)
(* supported versions or not, and one that versions by query, path or      *)
(* header with a default version and without a registry.                   *)
(***************************************************************************)
EXTENDS Versioning, TLC

MCPatterns == {<< >>, <<"items">>, <<"items", ":id">>, <<"items", "search">>,
               <<":kind", "search">>, <<"vendors", "items">>, <<"*rest">>}
MCAfterAPI == ("api" :> "") @@ ("apis" :> "s")

In(method, path, header, query) ==
    [method |-> method, path |-> path, header |-> header, query |-> query]

Paths == {<< >>, <<"health">>, <<"api">>, <<"api", "v1">>, <<"apis", "items">>, <<"api", "items">>,
          <<"api", "items", "search">>, <<"api", "v1", "items">>, <<"api", "v2", "items", "7">>,
          <<"api", "vendors", "items">>, <<"api", "other", "search">>}

MCRequests ==
    {In("GET", p, h, "") : p \in Paths, h \in {NoVersion, "", "v2"}}
    \cup {In("GET", p, "v2", "v1") : p \in {<<"apis", "items">>, <<"api", "items">>,
                                             <<"api", "v1", "items">>}}
    \cup {In("GET", <<"api", "items">>, "beta", "")}
    \cup {In(m, <<"api", "items">>, "v1", "") : m \in {"POST", "OPTIONS"}}

Strict == [reader |-> <<"header">>, default |-> "v1", assume |-> FALSE,
           report |-> TRUE, registry |-> TRUE]
Lenient == [reader |-> <<"query", "url", "header">>, default |-> "v1", assume |-> TRUE,
            report |-> TRUE, registry |-> FALSE]

MCConfigs == {Strict, [Strict EXCEPT !.report = FALSE], Lenient}

=============================================================================
