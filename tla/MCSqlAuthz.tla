----------------------------- MODULE MCSqlAuthz -----------------------------
(***************************************************************************)
(* Texts for TLC: every kind of table reference, put in every position of   *)
(* every kind of query, and that in every position of every kind of         *)
(* statement; then texts of two statements.                                 *)
(***************************************************************************)
EXTENDS SqlAuthz, TLC

MCLowerCase == "C" :> "c" @@ "T" :> "t"

Bare(name) == <<NoName, NoName, name>>
NoTarget == Bare(NoName)
t == <<"t">>
c == <<"c">>

Expr(kind, name, children) == Node("expression", kind, name, {}, [children |-> children])
Col(name) == Expr("COLUMN_REF", name, <<>>)
Const(value) == Expr("CONSTANT", value, <<>>)
Query(kind, name, kids) == Node("query", kind, name, {}, kids)
Ref(kind, target, kids) == Node("ref", kind, target, {}, kids)
Base(target) == Ref("BASE_TABLE", target, [x \in {} |-> <<>>])
Call(name) == Ref("TABLE_FUNCTION", NoTarget, [function |-> <<Expr("FUNCTION", name, <<Col(<<"a">>)>>)>>])
Of(sort, kind, kids) == Node(sort, kind, NoName, {}, kids)
Cte(alias, q) == Node("cte", "CTE", alias, {}, [query |-> <<q>>])
Select(ref) == Query("SELECT_NODE", NoName, [from_table |-> <<ref>>, select_list |-> <<Col(<<"b">>)>>])
Sub(q) == Node("expression", "SUBQUERY", NoName, {}, [subquery |-> <<q>>, children |-> <<Col(<<"a">>)>>])
One == Select(Base(Bare(t)))

\* The kinds of table references.
Refs ==
  { Base(Bare(t)), Base(Bare(<<"T">>)), Base(Bare(c)), Base(Bare(<<"C">>)), Base(<<NoName, <<"main">>, c>>),
    Base(<<<<"x">>, NoName, t>>), Base(Bare(<<"tables">>)), Base(<<NoName, <<"information_schema">>, <<"tables">>>>),
    Base(<<NoName, <<"pg_catalog">>, <<"pg_class">>>>), Base(<<NoName, <<"main">>, <<"csv">>>>), Base(Bare(<<"f", ".", "csv">>)),
    Call(<<"read_csv">>), Call(<<"duckdb_tables">>), Call(<<"query">>), Ref("UNKNOWN", NoTarget, [x \in {} |-> <<>>]),
    Ref("TABLE_FUNCTION", NoTarget, [function |-> <<Col(<<"a">>)>>]), Ref("EMPTY_FROM", NoTarget, [x \in {} |-> <<>>]),
    Ref("SHOW_REF", Bare(c), [x \in {} |-> <<>>]), Ref("SHOW_REF", Bare(<<"\"tables\"">>), [x \in {} |-> <<>>]),
    Ref("SHOW_REF", Bare(<<"\"variables\"">>), [x \in {} |-> <<>>]), Ref("SHOW_REF", NoTarget, [query |-> <<One>>]) }

\* A query in each position of a table reference ...
RefsWith(q) ==
  { Ref("SUBQUERY", NoTarget, [subquery |-> <<q>>]),
    Ref("JOIN", NoTarget, [left |-> <<Ref("SUBQUERY", NoTarget, [subquery |-> <<q>>])>>, right |-> <<Base(Bare(t))>>, condition |-> <<Null>>]),
    Ref("JOIN", NoTarget, [left |-> <<Base(Bare(t))>>, right |-> <<Ref("SUBQUERY", NoTarget, [subquery |-> <<q>>])>>]),
    Ref("JOIN", NoTarget, [left |-> <<Base(Bare(t))>>, right |-> <<Base(Bare(c))>>, condition |-> <<Sub(q)>>]),
    Ref("BASE_TABLE", Bare(t), [at_clause |-> <<Sub(q)>>]),
    Ref("TABLE_FUNCTION", NoTarget, [function |-> <<Expr("FUNCTION", <<"read_csv">>, <<Sub(q)>>)>>]),
    Ref("TABLE_FUNCTION", NoTarget, [function |-> <<Expr("FUNCTION", <<"duckdb_columns">>, <<>>)>>, subquery |-> <<q>>]),
    Ref("PIVOT", NoTarget, [source |-> <<Ref("SUBQUERY", NoTarget, [subquery |-> <<q>>])>>]),
    Ref("PIVOT", NoTarget, [source |-> <<Base(Bare(t))>>, aggregates |-> <<Sub(q)>>]),
    Ref("PIVOT", NoTarget, [source |-> <<Base(Bare(t))>>, pivots |-> <<Of("pivot", "PIVOT_COLUMN", [subquery |-> <<q>>])>>]),
    Ref("PIVOT", NoTarget, [source |-> <<Base(Bare(t))>>, pivots |-> <<Of("pivot", "PIVOT_COLUMN", [pivot_expressions |-> <<Sub(q)>>])>>]),
    Ref("PIVOT", NoTarget, [source |-> <<Base(Bare(t))>>, pivots |-> <<Of("pivot", "PIVOT_COLUMN", [entries |-> <<Sub(q), Null>>])>>]),
    Ref("EXPRESSION_LIST", NoTarget, [values |-> <<Const(<<"1">>), Sub(q)>>]),
    Ref("SHOW_REF", NoTarget, [query |-> <<q>>]) }

\* ... and of a query.
With(q, field) == Query("SELECT_NODE", NoName, field @@ [from_table |-> <<Base(Bare(t))>>])
Modified(m) == [modifiers |-> <<m>>]
QueriesWith(q) ==
  {Select(r) : r \in RefsWith(q)} \cup
  { With(q, [select_list |-> <<Sub(q)>>]), With(q, [where_clause |-> <<Sub(q)>>]), With(q, [having |-> <<Sub(q)>>]),
    With(q, [qualify |-> <<Sub(q)>>]), With(q, [group_expressions |-> <<Sub(q)>>]),
    With(q, [select_list |-> <<Expr("STAR", NoName, <<Sub(q)>>)>>]),
    With(q, [select_list |-> <<Expr("FUNCTION", <<"f">>, <<Sub(q)>>)>>]),
    With(q, Modified(Of("modifier", "ORDER_MODIFIER", [orders |-> <<Sub(q)>>]))),
    With(q, Modified(Of("modifier", "LIMIT_MODIFIER", [limit |-> <<Sub(q)>>, offset |-> <<Null>>]))),
    With(q, Modified(Of("modifier", "LIMIT_PERCENT_MODIFIER", [limit |-> <<Null>>, offset |-> <<Sub(q)>>]))),
    With(q, Modified(Of("modifier", "DISTINCT_MODIFIER", [distinct_on_targets |-> <<Sub(q)>>]))),
    Query("SET_OPERATION_NODE", NoName, [children |-> <<One, q>>]),
    Query("SELECT_NODE", NoName, [cte_map |-> <<Cte(c, q)>>, from_table |-> <<Base(Bare(c))>>]),
    Query("SELECT_NODE", NoName, [cte_map |-> <<Cte(c, One)>>, from_table |-> <<Ref("SUBQUERY", NoTarget, [subquery |-> <<q>>])>>]),
    Query("SELECT_NODE", NoName, [cte_map |-> <<Cte(<<"C">>, q), Cte(t, Select(Base(Bare(c))))>>, from_table |-> <<Base(Bare(t))>>]),
    Query("SELECT_NODE", NoName, [cte_map |-> <<Cte(t, One), Cte(c, q)>>, from_table |-> <<Base(Bare(c))>>]),
    Query("SELECT_NODE", NoName, [cte_map |-> <<Cte(c, Query("RECURSIVE_CTE_NODE", c, [left |-> <<q>>, right |-> <<Select(Base(Bare(c)))>>]))>>,
                                  from_table |-> <<Base(Bare(c))>>]),
    Query("RECURSIVE_CTE_NODE", c, [left |-> <<One>>, right |-> <<q>>]),
    Query("CTE_NODE", c, [query |-> <<q>>, child |-> <<Select(Base(Bare(c)))>>]),
    Query("CTE_NODE", c, [query |-> <<One>>, child |-> <<q>>]) }

\* Queries that hold a statement, or nothing that can be read.
Update(target, kids) == Query("UPDATE", NoName, [table |-> <<Base(target)>>] @@ kids)
Insert(target, kids) == Query("INSERT", target, kids)
Delete(target, kids) == Query("DELETE", NoName, [table |-> <<Base(target)>>] @@ kids)
Merge(actions) == Query("MERGE", NoName, [target |-> <<Base(Bare(t))>>, source |-> <<Base(Bare(c))>>, actions |-> actions])
MergeTo(kind) == Of("merge_action", kind, [expressions |-> <<Col(<<"a">>)>>])
Copy(target, opts, kids) == Node("copy", "COPY_INFO", target, opts, kids)
OddQueries ==
  { Null, Query("UNKNOWN", NoName, [x \in {} |-> <<>>]), Query("BOUND_SUBQUERY_NODE", NoName, [x \in {} |-> <<>>]),
    Update(Bare(t), [set_info |-> <<Null>>]), Insert(Bare(t), [select_statement |-> <<One>>]), Delete(Bare(t), [condition |-> <<Null>>]),
    Merge(<<MergeTo("MERGE_UPDATE")>>), Merge(<<MergeTo("MERGE_UPDATE"), MergeTo("MERGE_DELETE")>>), Merge(<<>>),
    Query("COPY", NoName, [info |-> <<Copy(Bare(t), {}, [parsed_options |-> <<>>])>>]), Query("COPY", NoName, [info |-> <<Null>>]),
    With(One, Modified(Null)), With(One, Modified(Of("modifier", "UNKNOWN", [x \in {} |-> <<>>]))),
    With(One, Modified(Of("modifier", "ORDER_MODIFIER", [orders |-> <<Null>>]))),
    With(One, [select_list |-> <<Expr("FUNCTION", <<"nextval">>, <<>>)>>]),
    With(One, [from_table |-> <<Ref("BASE_TABLE", Bare(t), [at_clause |-> <<Null>>])>>]) }

Leaves == {Select(r) : r \in Refs} \cup OddQueries
NonNull(qs) == qs \ {Null}

(***************************************************************************)
(* Statements.                                                              *)
(***************************************************************************)
Stmt(kind, kids) == Node("statement", kind, NoName, {}, kids)
Dml(kind, node) == Stmt(kind, [node |-> <<[node EXCEPT !.sort = "body"]>>])
Info(kind, sort, entry, target, kids) == Stmt(kind, [info |-> <<Node(sort, entry, target, {}, kids)>>])
Set(name, opts, value) == Node("statement", "SET", name, opts, [value |-> <<value>>])
Pragma(name, kids) == Info("PRAGMA", "pragma", "PRAGMA_INFO", name, kids)
Explain(stmt, opts) == Node("statement", "EXPLAIN", NoName, opts, [stmt |-> <<stmt>>])
SetTo(e) == Of("set_info", "SET", [expressions |-> <<e>>])

\* A query in each position of a statement that is not a SELECT.
StatementsWith(q) ==
  { Dml("INSERT", Insert(Bare(t), [select_statement |-> <<q>>, table_ref |-> <<Null>>])),
    Dml("INSERT", Insert(Bare(c), [cte_map |-> <<Cte(c, q)>>, select_statement |-> <<Select(Base(Bare(c)))>>])),
    Dml("INSERT", Insert(Bare(t), [returning_list |-> <<Sub(q)>>])), Dml("INSERT", Insert(Bare(t), [on_conflict_set |-> <<SetTo(Sub(q))>>])),
    Dml("INSERT", Insert(Bare(t), [on_conflict_condition |-> <<Sub(q)>>])),
    Dml("UPDATE", Update(Bare(t), [set_info |-> <<SetTo(Sub(q))>>])), Dml("UPDATE", Update(Bare(t), [set_info |-> <<Of("set_info", "SET", [condition |-> <<Sub(q)>>])>>])),
    Dml("UPDATE", Update(Bare(t), [from_table |-> <<Ref("SUBQUERY", NoTarget, [subquery |-> <<q>>])>>])),
    Dml("UPDATE", Update(Bare(t), [returning_list |-> <<Sub(q)>>])), Dml("UPDATE", Update(Bare(c), [cte_map |-> <<Cte(t, q)>>])),
    Dml("DELETE", Delete(Bare(t), [using_clauses |-> <<Ref("SUBQUERY", NoTarget, [subquery |-> <<q>>]), Null>>])),
    Dml("DELETE", Delete(Bare(t), [condition |-> <<Sub(q)>>])), Dml("DELETE", Delete(Bare(t), [cte_map |-> <<Cte(c, q)>>, returning_list |-> <<Sub(One)>>])),
    Dml("DELETE", Delete(Bare(t), [returning_list |-> <<Sub(q)>>])),
    Dml("MERGE_INTO", Merge(<<Of("merge_action", "MERGE_UPDATE", [condition |-> <<Sub(q)>>])>>)),
    Dml("MERGE_INTO", Merge(<<Of("merge_action", "MERGE_UPDATE", [update_info |-> <<SetTo(Sub(q))>>])>>)),
    Dml("MERGE_INTO", Query("MERGE", NoName, [target |-> <<Base(Bare(t))>>, source |-> <<Base(Bare(c))>>, join_condition |-> <<Sub(q)>>,
                                              actions |-> <<MergeTo("MERGE_UPDATE")>>, cte_map |-> <<Cte(c, q)>>])),
    Stmt("COPY", [info |-> <<Copy(NoTarget, {}, [select_statement |-> <<q>>])>>]),
    Stmt("COPY", [info |-> <<Copy(Bare(t), {"is_from"}, [file_path_expression |-> <<Sub(q)>>])>>]),
    Stmt("COPY", [info |-> <<Copy(Bare(t), {}, [parsed_options |-> <<Sub(q)>>])>>]),
    Info("CREATE", "create", "TABLE_ENTRY", Bare(c), [query |-> <<q>>]), Info("CREATE", "create", "TABLE_ENTRY", Bare(c), [columns |-> <<Sub(q)>>]),
    Info("CREATE", "create", "TABLE_ENTRY", Bare(c), [constraints |-> <<Of("constraint", "CHECK", [expression |-> <<Sub(q)>>])>>]),
    Info("CREATE", "create", "TABLE_ENTRY", Bare(c), [partition_keys |-> <<Sub(q)>>]), Info("CREATE", "create", "TABLE_ENTRY", Bare(c), [sort_keys |-> <<Sub(q)>>]),
    Info("CREATE", "create", "TABLE_ENTRY", Bare(c), [options |-> <<Sub(q)>>]),
    Info("CREATE", "create", "VIEW_ENTRY", Bare(c), [query |-> <<q>>]),
    Info("CREATE", "create", "TYPE_ENTRY", Bare(c), [query |-> <<Stmt("SELECT", [node |-> <<q>>])>>]),
    Info("CREATE", "create", "SCHEMA_ENTRY", <<NoName, <<"s">>, NoName>>, [options |-> <<Sub(q)>>]),
    Info("ALTER", "alter", "ALTER_COLUMN_TYPE", Bare(t), [expression |-> <<Sub(q)>>]), Info("ALTER", "alter", "ADD_COLUMN", Bare(t), [expression |-> <<Sub(q)>>]),
    Info("ALTER", "alter", "SET_DEFAULT", Bare(t), [expression |-> <<Sub(q)>>]),
    Pragma(<<"version">>, [parameters |-> <<Sub(q)>>]), Pragma(<<"version">>, [named_parameters |-> <<Sub(q)>>]),
    Info("ATTACH", "attach", "ATTACH_INFO", NoName, [parsed_options |-> <<Sub(q)>>]),
    Set(<<"threads">>, {}, Sub(q)),
    Explain(Stmt("SELECT", [node |-> <<q>>]), {}), Explain(Stmt("SELECT", [node |-> <<q>>]), {"ANALYZE"}),
    Explain(Dml("UPDATE", Update(Bare(t), [set_info |-> <<SetTo(Sub(q))>>])), {}) }

NoKids == [x \in {} |-> <<>>]
\* Statements without a query.
PlainStatements ==
  { Stmt("TRANSACTION", NoKids), Stmt("LOAD", NoKids), Stmt("CREATE_FUNC", NoKids), Stmt("RELATION", NoKids), Stmt("UNKNOWN", NoKids),
    Info("DROP", "drop", "TABLE_ENTRY", Bare(t), NoKids), Info("DROP", "drop", "UNKNOWN", Bare(t), NoKids),
    Info("ALTER", "alter", "RENAME_TABLE", Bare(t), NoKids), Info("ALTER", "alter", "UNKNOWN", Bare(t), NoKids),
    Info("ALTER", "alter", "ALTER_COLUMN_TYPE", Bare(t), [expression |-> <<Null>>]),
    Info("CREATE", "create", "MACRO_ENTRY", Bare(c), NoKids), Info("CREATE", "create", "UNKNOWN", Bare(c), NoKids),
    Info("CREATE", "create", "VIEW_ENTRY", Bare(c), [query |-> <<Null>>]),
    Info("CREATE", "create", "TABLE_ENTRY", Bare(c), [constraints |-> <<Of("constraint", "UNKNOWN", NoKids)>>]),
    Info("CREATE", "create", "TABLE_ENTRY", Bare(c), [constraints |-> <<Of("constraint", "UNIQUE", NoKids)>>]),
    Info("CREATE", "create", "SCHEMA_ENTRY", <<<<"x">>, <<"s">>, NoName>>, NoKids),
    Info("DETACH", "detach", "DETACH_INFO", <<"x">>, NoKids), Info("DETACH", "detach", "DETACH_INFO", NoName, NoKids),
    Pragma(<<"version">>, NoKids), Pragma(<<"quack_serve">>, NoKids), Pragma(<<"quack_oauth_", "x">>, NoKids), Pragma(<<"other">>, NoKids),
    Set(<<"threads">>, {}, Const(<<"4">>)), Set(<<"T">>, {}, Const(<<"4">>)), Set(<<"threads">>, {}, Const(<<"8">>)),
    Set(<<"threads">>, {"GLOBAL"}, Const(<<"4">>)), Set(<<"threads">>, {"RESET"}, Null), Set(<<"threads">>, {}, Null),
    Dml("MERGE_INTO", Merge(<<MergeTo("MERGE_UPDATE"), MergeTo("MERGE_DELETE")>>)), Dml("MERGE_INTO", Merge(<<>>)),
    Dml("MERGE_INTO", Merge(<<Null>>)), Dml("MERGE_INTO", Merge(<<MergeTo("MERGE_INSERT")>>)),
    Info("ATTACH", "attach", "ATTACH_INFO", NoName, [parsed_options |-> <<Null>>]) }
  \cup {Stmt(kind, [info |-> <<Null>>]) : kind \in {"COPY", "CREATE", "DROP", "ALTER", "PRAGMA", "ATTACH", "DETACH"}}

Explained == {Explain(s, opts) : s \in PlainStatements, opts \in {{}, {"ANALYZE"}}} \cup {Explain(Null, {})}

SelectOf(q) == Stmt("SELECT", [node |-> <<q>>])
Nested(qs) == UNION {QueriesWith(q) : q \in qs}
Singles ==
  {SelectOf(q) : q \in Leaves} \cup {SelectOf(q) : q \in Nested(Leaves)} \cup
  {SelectOf(q) : q \in UNION {QueriesWith(p) : p \in Nested({Select(r) : r \in {Base(Bare(c)), Call(<<"read_csv">>)}})}} \cup
  UNION {StatementsWith(q) : q \in Leaves} \cup PlainStatements \cup Explained

\* One of each kind, to follow one another.
Samples ==
  { SelectOf(One), SelectOf(Select(Base(Bare(c)))), SelectOf(Query("SELECT_NODE", NoName, [cte_map |-> <<Cte(c, One)>>, from_table |-> <<Base(Bare(c))>>])),
    Dml("INSERT", Insert(Bare(t), [select_statement |-> <<One>>])), Dml("UPDATE", Update(Bare(t), NoKids)), Dml("DELETE", Delete(Bare(t), NoKids)),
    Dml("MERGE_INTO", Merge(<<MergeTo("MERGE_UPDATE")>>)), Explain(Dml("DELETE", Delete(Bare(t), NoKids)), {}),
    Info("DROP", "drop", "TABLE_ENTRY", Bare(t), NoKids), Stmt("TRANSACTION", NoKids), Pragma(<<"version">>, NoKids), Null }

MCQueries ==
  {[parses |-> FALSE, script |-> <<>>], [parses |-> TRUE, script |-> <<>>]} \cup
  {[parses |-> TRUE, script |-> <<s>>] : s \in Singles} \cup
  {[parses |-> TRUE, script |-> <<s1, s2>>] : s1 \in Samples, s2 \in Samples} \cup
  {[parses |-> TRUE, script |-> <<s1, SelectOf(One), s2>>] : s1 \in {Null, SelectOf(One)}, s2 \in Samples}

Row(priority, actions, object, column, allow) ==
  [priority |-> priority, subject |-> {}, anyScope |-> {}, actions |-> actions,
   objectPattern |-> object, columnPattern |-> column, allow |-> {allow}]
AllColumns == RequiredColumns \cup {"object_pattern", "column_pattern"}
Table(rows) == [named |-> TRUE, columns |-> AllColumns, rows |-> rows, defaultAllow |-> FALSE]

\* Reading main.t, except column a, and updating it; or everything but DDL; or
\* no table at all.
MCSources ==
  { Table({ Row(1, {}, NoName, <<"a">>, FALSE), Row(2, {"Scan", "Update"}, <<"main", ".", "T">>, NoName, TRUE),
            Row(2, {"Pragma"}, NoName, NoName, TRUE) }),
    Table({ Row(1, {"Ddl"}, NoName, NoName, FALSE), Row(1, {}, <<"fn:", "*">>, NoName, FALSE), Row(2, {}, NoName, NoName, TRUE) }),
    [named |-> FALSE, columns |-> {}, rows |-> {}, defaultAllow |-> FALSE] }
MCPrincipals == {[sub |-> "alice", scopes |-> {"quack:read"}]}
=============================================================================
