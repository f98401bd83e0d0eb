----------------------------- MODULE SqlInspect -----------------------------
(***************************************************************************)
(* The walk of sql_inspect.cpp over the parse tree of a statement: which    *)
(* tables, functions and columns a request names, what it does, and whether *)
(* there is anything in it that the walk cannot vouch for.                  *)
(*                                                                          *)
(* A node of the tree is a record.  Its kids are a function from the names  *)
(* of DuckDB's members to sequences of nodes: a member that holds one       *)
(* pointer is a sequence of one node, a null pointer is Null, a member that *)
(* is left out is empty.  Members that the walk does not tell apart (the    *)
(* arguments, filter and window of a call) are one member `children', which *)
(* is what DuckDB's iterator enumerates.  The sort of a node is its type; a *)
(* `body' is the node of a statement that writes, which is walked otherwise *)
(* than such a node inside a query.                                         *)
(*                                                                          *)
(* A name is a sequence of pieces (Policy.tla), a target the triple of      *)
(* catalog, schema and table.  The walk only ever adds to the request, so   *)
(* what it finds is built by union and its order does not matter; only the  *)
(* wording of the error, which is left out, depends on it.  The code goes   *)
(* down depth first; here each function says which calls it makes on the    *)
(* nodes below, with the aliases in scope, and the calls are made level by  *)
(* level.                                                                   *)
(***************************************************************************)
EXTENDS Policy, FiniteSets

CONSTANT MaxDepth    \* the depth of the deepest tree

ASSUME DepthAssumption == MaxDepth \in Nat

Null == [sort |-> "null"]
Node(sort, kind, name, opts, kids) ==
  [sort |-> sort, kind |-> kind, name |-> name, opts |-> opts, kids |-> kids]
At(n, member) == IF member \in DOMAIN n.kids THEN n.kids[member] ELSE <<>>

\* A trail is a node of a tree with the steps that lead to it from the root.
Step(n, m, i) == [node |-> n, member |-> m, index |-> i]
Longer(t) ==
  UNION {{[up |-> Append(t.up, Step(t.end, m, i)), end |-> t.end.kids[m][i]] :
            i \in {j \in DOMAIN t.end.kids[m] : t.end.kids[m][j] # Null}} : m \in DOMAIN t.end.kids}

Trails(s) ==
  LET level[d \in Nat] ==
        IF d = 0 THEN [seen |-> {}, last |-> {[up |-> <<>>, end |-> s]}]
        ELSE LET above == level[d - 1] IN
             [seen |-> above.seen \cup above.last, last |-> UNION {Longer(t) : t \in above.last}]
  IN level[MaxDepth + 1].seen

(***************************************************************************)
(* What the parser builds: under which members a node has parts, and of     *)
(* which sort they are.                                                     *)
(***************************************************************************)
Under(members, sort) == members \X {sort}

WritingParts(kind) ==
  CASE kind = "INSERT" -> Under({"select_statement"}, "query") \cup Under({"table_ref"}, "ref")
         \cup Under({"on_conflict_set"}, "set_info") \cup Under({"returning_list", "on_conflict_condition"}, "expression")
    [] kind = "UPDATE" -> Under({"table", "from_table"}, "ref") \cup Under({"set_info"}, "set_info")
         \cup Under({"returning_list"}, "expression")
    [] kind = "DELETE" -> Under({"table", "using_clauses"}, "ref") \cup Under({"condition", "returning_list"}, "expression")
    [] kind = "MERGE"  -> Under({"target", "source"}, "ref") \cup Under({"actions"}, "merge_action")
         \cup Under({"join_condition", "returning_list"}, "expression")
    [] OTHER -> {}

QueryParts(kind) ==
  CASE kind = "SELECT_NODE" -> Under({"from_table"}, "ref") \cup
         Under({"select_list", "where_clause", "having", "qualify", "group_expressions"}, "expression")
    [] kind = "SET_OPERATION_NODE" -> Under({"children"}, "query")
    [] kind = "CTE_NODE" -> Under({"query", "child"}, "query")
    [] kind = "RECURSIVE_CTE_NODE" -> Under({"left", "right"}, "query")
    [] kind = "COPY" -> Under({"info"}, "copy")
    [] OTHER -> WritingParts(kind)

RefParts(kind) ==
  CASE kind = "BASE_TABLE" -> Under({"at_clause"}, "expression")
    [] kind = "JOIN" -> Under({"left", "right"}, "ref") \cup Under({"condition"}, "expression")
    [] kind = "SUBQUERY" -> Under({"subquery"}, "query")
    [] kind = "TABLE_FUNCTION" -> Under({"function"}, "expression") \cup Under({"subquery"}, "query")
    [] kind = "PIVOT" -> Under({"source"}, "ref") \cup Under({"aggregates"}, "expression") \cup Under({"pivots"}, "pivot")
    [] kind = "EXPRESSION_LIST" -> Under({"values"}, "expression")
    [] kind = "SHOW_REF" -> Under({"query"}, "query")
    [] OTHER -> {}

CreateParts(kind) ==
  CASE kind = "TABLE_ENTRY" -> Under({"query"}, "query") \cup Under({"constraints"}, "constraint")
         \cup Under({"columns", "partition_keys", "sort_keys", "options"}, "expression")
    [] kind = "VIEW_ENTRY"   -> Under({"query"}, "query")
    [] kind = "TYPE_ENTRY"   -> Under({"query"}, "statement")
    [] kind = "SCHEMA_ENTRY" -> Under({"options"}, "expression")
    [] OTHER -> {}

AlterParts(kind) ==
  Under(IF kind \in {"ALTER_COLUMN_TYPE", "SET_DEFAULT", "ADD_COLUMN"} THEN {"expression"} ELSE {}, "expression")

StatementParts(kind) ==
  CASE kind = "SELECT" -> Under({"node"}, "query")
    [] kind \in {"INSERT", "UPDATE", "DELETE", "MERGE_INTO"} -> Under({"node"}, "body")
    [] kind = "EXPLAIN" -> Under({"stmt"}, "statement")
    [] kind = "SET"    -> Under({"value"}, "expression")
    [] kind = "COPY"   -> Under({"info"}, "copy")
    [] kind = "CREATE" -> Under({"info"}, "create")
    [] kind = "DROP"   -> Under({"info"}, "drop")
    [] kind = "ALTER"  -> Under({"info"}, "alter")
    [] kind = "PRAGMA" -> Under({"info"}, "pragma")
    [] kind = "ATTACH" -> Under({"info"}, "attach")
    [] kind = "DETACH" -> Under({"info"}, "detach")
    [] OTHER -> {}

Parts(n) ==
  CASE n.sort = "expression" -> Under({"children"}, "expression") \cup
                                Under(IF n.kind = "SUBQUERY" THEN {"subquery"} ELSE {}, "query")
    [] n.sort = "query"      -> Under({"cte_map"}, "cte") \cup Under({"modifiers"}, "modifier") \cup QueryParts(n.kind)
    [] n.sort = "body"       -> Under({"cte_map"}, "cte") \cup WritingParts(n.kind)
    [] n.sort = "cte"        -> Under({"query"}, "query")
    [] n.sort = "ref"        -> RefParts(n.kind)
    [] n.sort = "modifier"   -> Under(CASE n.kind = "ORDER_MODIFIER" -> {"orders"}
                                        [] n.kind = "DISTINCT_MODIFIER" -> {"distinct_on_targets"}
                                        [] OTHER -> {"limit", "offset"}, "expression")
    [] n.sort = "set_info"   -> Under({"expressions", "condition"}, "expression")
    [] n.sort = "pivot"      -> Under({"pivot_expressions", "entries"}, "expression") \cup Under({"subquery"}, "query")
    [] n.sort = "constraint" -> Under(IF n.kind = "CHECK" THEN {"expression"} ELSE {}, "expression")
    [] n.sort = "merge_action" -> Under({"condition", "expressions"}, "expression") \cup Under({"update_info"}, "set_info")
    [] n.sort = "statement"  -> StatementParts(n.kind)
    [] n.sort = "copy"       -> Under({"select_statement"}, "query") \cup
                                Under({"file_path_expression", "parsed_options"}, "expression")
    [] n.sort = "create"     -> CreateParts(n.kind)
    [] n.sort = "alter"      -> AlterParts(n.kind)
    [] n.sort = "pragma"     -> Under({"parameters", "named_parameters"}, "expression")
    [] n.sort = "attach"     -> Under({"parsed_options"}, "expression")
    [] OTHER -> {}

\* Only these types have values that the inspector may not know.
OpenSorts == {"statement", "query", "ref", "modifier", "constraint", "create", "drop", "alter"}

Targets == Seq(STRING) \X Seq(STRING) \X Seq(STRING)
HasTarget(n) ==
  n.sort \in {"ref", "create", "drop", "alter", "copy"} \/ (n.sort \in {"query", "body"} /\ n.kind = "INSERT")

\* A statement holds its parts by one pointer each.
ParsedStatement(s) ==
  /\ \A p \in Parts(s) : p[1] \in DOMAIN s.kids /\ Len(s.kids[p[1]]) = 1
  /\ s.kind \in {"INSERT", "UPDATE", "DELETE", "MERGE_INTO"} =>
       s.kids.node[1] # Null /\ s.kids.node[1].kind = IF s.kind = "MERGE_INTO" THEN "MERGE" ELSE s.kind
  /\ s.kind = "SET" => s.opts \subseteq {"GLOBAL", "RESET"}

ParsedNode(n) ==
  /\ n.name \in IF HasTarget(n) THEN Targets ELSE Seq(STRING)
  /\ n.kind \in {"UNKNOWN", "MACRO_ENTRY", "TABLE_MACRO_ENTRY"} => n.sort \in OpenSorts
  /\ \A m \in DOMAIN n.kids :
       /\ Len(n.kids[m]) \in Nat /\ DOMAIN n.kids[m] = 1..Len(n.kids[m])
       /\ n.kind # "UNKNOWN" => \E p \in Parts(n) :
            m = p[1] /\ \A i \in DOMAIN n.kids[m] : n.kids[m][i] # Null => n.kids[m][i].sort = p[2]
  /\ n.sort = "body" => n.kind \in {"INSERT", "UPDATE", "DELETE", "MERGE"}
  /\ n.sort = "statement" => ParsedStatement(n)
  /\ n.sort = "expression" /\ n.kind = "COLUMN_REF" => n.name # NoName
  /\ n.sort = "ref" /\ n.kind = "TABLE_FUNCTION" => "function" \in DOMAIN n.kids /\ Len(n.kids.function) = 1
  /\ n.sort = "ref" /\ n.kind = "SHOW_REF" /\ "query" \in DOMAIN n.kids => n.kids.query # <<>>
  /\ n.sort = "query" /\ n.kind = "COPY" => \A i \in DOMAIN At(n, "info") :
       At(n, "info")[i] # Null => "is_from" \notin At(n, "info")[i].opts
  /\ n.sort = "create" /\ n.kind = "TYPE_ENTRY" => \A i \in DOMAIN At(n, "query") :
       At(n, "query")[i] # Null => At(n, "query")[i].kind = "SELECT"
  /\ n.sort \in {"query", "body"} => \A i \in DOMAIN At(n, "cte_map") : At(n, "cte_map")[i] # Null

\* No tree is deeper than MaxDepth.
Parsed(s) ==
  s.sort = "statement" /\ \A t \in Trails(s) : ParsedNode(t.end) /\ (Len(t.up) = MaxDepth => Longer(t) = {})

(***************************************************************************)
(* What a walk finds, and the calls it still has to make.                   *)
(***************************************************************************)
Nothing == [objects |-> {}, columns |-> {}, unsafe |-> FALSE, todo |-> {}]
Visit(node, ctes) == [node |-> node, ctes |-> ctes]
UnsafeIf(condition) == [Nothing EXCEPT !.unsafe = condition]
Unsafe == UnsafeIf(TRUE)
Both(f, g) == [ objects |-> f.objects \cup g.objects, columns |-> f.columns \cup g.columns,
                unsafe  |-> f.unsafe \/ g.unsafe, todo |-> f.todo \cup g.todo ]
All(found) == [ objects |-> UNION {f.objects : f \in found}, columns |-> UNION {f.columns : f \in found},
                unsafe  |-> \E f \in found : f.unsafe, todo |-> UNION {f.todo : f \in found} ]

LowerAscii(name) == [i \in DOMAIN name |-> Lower(name[i])]
Words(strings) == {<<s>> : s \in strings}

IsAllowedSystemView(schema, table) == schema = <<"information_schema">> /\ table = <<"tables">>

LooksLikeUnqualifiedSystemView(table) == table \in Words({
  "pragma_database_list", "sqlite_master", "sqlite_schema", "sqlite_temp_master", "sqlite_temp_schema",
  "duckdb_constraints", "duckdb_columns", "duckdb_databases", "duckdb_indexes", "duckdb_schemas",
  "duckdb_tables", "duckdb_types", "duckdb_views", "duckdb_logs", "pg_am", "pg_prepared_statements",
  "pg_attribute", "pg_attrdef", "pg_class", "pg_constraint", "pg_collation", "pg_database", "pg_depend",
  "pg_description", "pg_enum", "pg_index", "pg_indexes", "pg_namespace", "pg_proc", "pg_sequence",
  "pg_sequences", "pg_settings", "pg_tables", "pg_tablespace", "pg_type", "pg_views", "columns",
  "schemata", "tables", "character_sets", "referential_constraints", "key_column_usage",
  "table_constraints", "constraint_column_usage", "constraint_table_usage", "check_constraints", "views"})

IsExemptFunction(name) == name \in Words({"duckdb_tables", "duckdb_columns"})
AllowedPragma(name) == name = <<"version">>
AllowedSetting(name) == name = <<"threads">>
IsOwn(name) == name # <<>> /\ Head(name) = "quack_oauth_"

AddNamedObject(name) == [Nothing EXCEPT !.objects = {name}]

AddObject(target) ==
  LET schema   == IF target[2] = NoName THEN <<"main">> ELSE LowerAscii(target[2])
      table    == LowerAscii(target[3])
      system   == schema \in Words({"information_schema", "pg_catalog"})
      reserved == schema = <<"main">> /\ LooksLikeUnqualifiedSystemView(table)
  IN IF target[3] = NoName THEN Nothing
     ELSE [ objects |-> IF system \/ reserved THEN {} ELSE {schema \o <<".">> \o table},
            columns |-> {}, todo |-> {},
            unsafe  |-> target[1] # NoName \/ reserved \/ (system /\ ~IsAllowedSystemView(schema, table)) ]

AddFunctionObject(name) ==
  IF IsExemptFunction(LowerAscii(name)) THEN Nothing ELSE AddNamedObject(<<"fn:">> \o LowerAscii(name))

AddColumn(name) == IF name = NoName THEN Nothing ELSE [Nothing EXCEPT !.columns = {LowerAscii(name)}]

\* DuckDB would read a file of this name if there is no such table.
IsReplacementScanName(target) ==
  \/ \E part \in {1, 2, 3} : \E i \in DOMAIN target[part] : target[part][i] \in {"/", "\\", ":"}
  \/ \E i \in DOMAIN target[3] : target[3][i] = "."
  \/ /\ target[1] # NoName \/ target[2] # NoName
     /\ LowerAscii(target[3]) \in Words({"csv", "tsv", "txt", "parquet", "json", "jsonl", "ndjson", "geojson",
                                         "geojsonl", "shp", "gpkg", "fgb", "xlsx", "avro", "arrow", "db",
                                         "ddb", "duckdb", "sqlite", "gz", "zst"})

IsCte(target, ctes) == target[1] = NoName /\ target[2] = NoName /\ LowerAscii(target[3]) \in ctes

(***************************************************************************)
(* The walk.  ctes are the aliases in scope, action that of the request.    *)
(***************************************************************************)
\* The nodes under some members; null pointers are passed over ...
WalkEach(n, members, ctes) ==
  [Nothing EXCEPT !.todo =
     UNION {{Visit(At(n, m)[i], ctes) : i \in {j \in DOMAIN At(n, m) : At(n, m)[j] # Null}} : m \in members}]

\* ... or not tolerated.
WalkRequired(n, members, ctes) ==
  Both(WalkEach(n, members, ctes),
       UnsafeIf(\E m \in members : \E i \in DOMAIN At(n, m) : At(n, m)[i] = Null))

\* Mutant: an alias is in scope in its own definition and before it.
AliasesEverywhere(n, k) == {LowerAscii(At(n, "cte_map")[i].name) : i \in DOMAIN At(n, "cte_map")}

\* The aliases of the first k common table expressions of a node.
Aliases(n, k) == {LowerAscii(At(n, "cte_map")[i].name) : i \in 1..k}

\* Each body sees the aliases before its own; the rest of the node sees all.
CteBodies(n, ctes) ==
  [Nothing EXCEPT !.todo = {Visit(At(n, "cte_map")[i], ctes \cup Aliases(n, i - 1)) : i \in DOMAIN At(n, "cte_map")}]
WalkCte(c, ctes) == WalkRequired(c, {"query"}, ctes)
CteScope(n, ctes) == ctes \cup Aliases(n, Len(At(n, "cte_map")))

WalkExpression(e, ctes) ==
  Both(CASE e.kind = "COLUMN_REF" -> AddColumn(e.name)
         [] e.kind = "STAR"       -> AddColumn(<<"*">>)
         [] e.kind = "SUBQUERY"   -> WalkRequired(e, {"subquery"}, ctes)
         [] e.kind = "FUNCTION"   -> UnsafeIf(LowerAscii(e.name) \in
                                       Words({"current_setting", "getvariable", "nextval", "currval"}))
         [] OTHER                 -> Nothing,
       WalkEach(e, {"children"}, ctes))

WalkCopyInfo(info, ctes) ==
  All({ AddObject(info.name), WalkEach(info, {"select_statement", "file_path_expression"}, ctes),
        WalkRequired(info, {"parsed_options"}, ctes) })

WalkModifier(m, ctes) ==
  CASE m.kind = "ORDER_MODIFIER"    -> WalkRequired(m, {"orders"}, ctes)
    [] m.kind \in {"LIMIT_MODIFIER", "LIMIT_PERCENT_MODIFIER"} -> WalkEach(m, {"limit", "offset"}, ctes)
    [] m.kind = "DISTINCT_MODIFIER" -> WalkEach(m, {"distinct_on_targets"}, ctes)
    [] OTHER                        -> Unsafe

MergeOnlyUpdates(node) ==
  /\ At(node, "actions") # <<>>
  /\ \A i \in DOMAIN At(node, "actions") :
       At(node, "actions")[i] # Null /\ At(node, "actions")[i].kind = "MERGE_UPDATE"

WalkSetInfo(info, ctes) == WalkEach(info, {"expressions", "condition"}, ctes)
WalkInsert(n, ctes) ==
  Both(AddObject(n.name), WalkEach(n, {"select_statement", "table_ref", "returning_list",
                                       "on_conflict_set", "on_conflict_condition"}, ctes))
WalkUpdate(n, ctes) == WalkEach(n, {"table", "from_table", "set_info", "returning_list"}, ctes)
WalkDelete(n, ctes) == WalkEach(n, {"table", "using_clauses", "condition", "returning_list"}, ctes)
WalkMerge(n, ctes) ==
  Both(WalkEach(n, {"target", "source", "join_condition", "returning_list"}, ctes),
       WalkRequired(n, {"actions"}, ctes))
WalkMergeAction(m, ctes) == WalkEach(m, {"condition", "update_info", "expressions"}, ctes)

WalkDml(n, ctes) ==
  CASE n.kind = "INSERT" -> WalkInsert(n, ctes)
    [] n.kind = "UPDATE" -> WalkUpdate(n, ctes)
    [] n.kind = "DELETE" -> WalkDelete(n, ctes)
    [] n.kind = "MERGE"  -> WalkMerge(n, ctes)

\* Mutant: a statement inside a query does what it likes.
HiddenUnchecked(n, action) == TRUE

\* A statement inside a query has to do what the request is said to do.
HiddenFits(n, action) ==
  CASE n.kind = "INSERT" -> action = "Insert"
    [] n.kind = "UPDATE" -> action = "Update"
    [] n.kind = "DELETE" -> action = "Delete"
    [] n.kind = "MERGE"  -> action = "Update" /\ MergeOnlyUpdates(n)
    [] n.kind = "COPY"   -> action = "CopyTo"

SelectMembers == {"from_table", "select_list", "where_clause", "having", "qualify", "group_expressions"}

\* Mutant: an unknown query node holds nothing of interest.
IgnoreQueryNode == Nothing
UnsupportedQueryNode == Unsafe

WalkQueryNode(n, outer, action) ==
  LET ctes == CteScope(n, outer)
      within == IF n.name = NoName THEN ctes ELSE ctes \cup {LowerAscii(n.name)}
  IN All({ CteBodies(n, outer), WalkRequired(n, {"modifiers"}, ctes),
           CASE n.kind = "SELECT_NODE"         -> WalkEach(n, SelectMembers, ctes)
             [] n.kind = "SET_OPERATION_NODE"  -> WalkEach(n, {"children"}, ctes)
             [] n.kind = "CTE_NODE"            -> Both(WalkRequired(n, {"query"}, ctes),
                                                       WalkRequired(n, {"child"}, within))
             [] n.kind = "RECURSIVE_CTE_NODE"  -> Both(WalkRequired(n, {"left"}, ctes),
                                                       WalkRequired(n, {"right"}, within))
             [] n.kind = "BOUND_SUBQUERY_NODE" -> Nothing
             [] n.kind \in {"INSERT", "UPDATE", "DELETE", "MERGE"} ->
                  Both(UnsafeIf(~HiddenFits(n, action)), WalkDml(n, ctes))
             [] n.kind = "COPY" ->
                  Both(UnsafeIf(~HiddenFits(n, action)), WalkRequired(n, {"info"}, ctes))
             [] OTHER -> UnsupportedQueryNode })

\* The object that a SHOW without a query names.
WalkShowName(target, ctes) ==
  IF target[3] \in Words({"\"databases\"", "\"schemas\"", "\"tables\"", "__show_tables_expanded"}) THEN Nothing
  ELSE IF target[3] \in {<<"\"variables\"">>, NoName} \/ IsReplacementScanName(target) THEN Unsafe
  ELSE IF IsCte(target, ctes) THEN Nothing ELSE AddObject(target)

\* The name of a table function, if the reference holds a call.
FunctionName(r) ==
  LET calls == {i \in DOMAIN At(r, "function") : At(r, "function")[i] # Null /\ At(r, "function")[i].kind = "FUNCTION"} IN
  IF calls = {} THEN NoName ELSE At(r, "function")[1].name

WalkTableRef(r, ctes) ==
  CASE r.kind = "BASE_TABLE" ->
         Both(WalkRequired(r, {"at_clause"}, ctes),
              IF IsCte(r.name, ctes) THEN Nothing
              ELSE IF IsReplacementScanName(r.name) THEN Unsafe ELSE AddObject(r.name))
    [] r.kind = "JOIN"     -> WalkEach(r, {"left", "right", "condition"}, ctes)
    [] r.kind = "SUBQUERY" -> WalkRequired(r, {"subquery"}, ctes)
    [] r.kind = "TABLE_FUNCTION" ->
         All({ IF FunctionName(r) = NoName THEN Unsafe ELSE AddFunctionObject(FunctionName(r)),
               UnsafeIf(LowerAscii(FunctionName(r)) \in Words({"query", "query_table"})),
               WalkEach(r, {"function"}, ctes), WalkRequired(r, {"subquery"}, ctes) })
    [] r.kind = "PIVOT"    -> WalkEach(r, {"source", "aggregates", "pivots"}, ctes)
    [] r.kind = "EXPRESSION_LIST" -> WalkEach(r, {"values"}, ctes)
    [] r.kind = "SHOW_REF" -> IF At(r, "query") # <<>> THEN WalkEach(r, {"query"}, ctes)
                              ELSE WalkShowName(r.name, ctes)
    [] r.kind \in {"EMPTY_FROM", "CTE", "COLUMN_DATA", "DELIM_GET", "BOUND_TABLE_REF", "INVALID"} -> Nothing
    [] OTHER -> Unsafe

WalkPivot(p, ctes) == WalkEach(p, {"pivot_expressions", "subquery", "entries"}, ctes)

WalkConstraint(c, ctes) ==
  CASE c.kind = "CHECK" -> WalkRequired(c, {"expression"}, ctes)
    [] c.kind \in {"NOT_NULL", "UNIQUE", "FOREIGN_KEY"} -> Nothing
    [] OTHER -> Unsafe

WalkCreate(info, ctes) ==
  CASE info.kind = "TABLE_ENTRY" ->
         All({ AddObject(info.name), WalkEach(info, {"columns", "partition_keys", "sort_keys"}, ctes),
               WalkRequired(info, {"query", "constraints", "options"}, ctes) })
    [] info.kind = "VIEW_ENTRY" -> Both(AddObject(info.name), WalkRequired(info, {"query"}, ctes))
    [] info.kind = "TYPE_ENTRY" -> Both(AddObject(info.name), WalkEach(info, {"query"}, ctes))
    [] info.kind \in {"MACRO_ENTRY", "TABLE_MACRO_ENTRY"} -> Both(AddObject(info.name), Unsafe)
    [] info.kind = "SCHEMA_ENTRY" ->
         All({ UnsafeIf(info.name[1] # NoName \/ info.name[2] = NoName),
               IF info.name[2] = NoName THEN Nothing ELSE AddNamedObject(<<"schema:">> \o LowerAscii(info.name[2])),
               WalkRequired(info, {"options"}, ctes) })
    [] OTHER -> Unsafe

WalkDrop(info) ==
  All({ UnsafeIf(info.kind \notin {"TABLE_ENTRY", "VIEW_ENTRY"}), UnsafeIf(info.name[3] = NoName),
        AddObject(info.name) })

WalkAlter(info, ctes) ==
  All({ UnsafeIf(info.name[3] = NoName), AddObject(info.name),
        CASE info.kind \in {"RENAME_COLUMN", "RENAME_TABLE", "REMOVE_COLUMN", "SET_NOT_NULL", "DROP_NOT_NULL"} ->
               Nothing
          [] info.kind = "ALTER_COLUMN_TYPE"             -> WalkRequired(info, {"expression"}, ctes)
          [] info.kind \in {"SET_DEFAULT", "ADD_COLUMN"} -> WalkEach(info, {"expression"}, ctes)
          [] OTHER -> Unsafe })

\* What a statement does, and whether its kind alone rules it out.
ClassifyStatement(s) ==
  LET is(action, unsafe) == [action |-> action, unsafe |-> unsafe] IN
  CASE s.kind \in {"SELECT", "EXPLAIN", "RELATION"} -> is("Scan", FALSE)
    [] s.kind = "INSERT" -> is("Insert", FALSE)
    [] s.kind = "UPDATE" -> is("Update", FALSE)
    [] s.kind = "DELETE" -> is("Delete", FALSE)
    [] s.kind = "MERGE_INTO" -> is("Update", ~MergeOnlyUpdates(s.kids.node[1]))
    [] s.kind \in {"CREATE", "DROP", "ALTER", "TRANSACTION", "DETACH"} -> is("Ddl", FALSE)
    [] s.kind \in {"CREATE_FUNC", "LOAD"} -> is("Ddl", TRUE)
    [] s.kind = "COPY" -> is(IF s.kids.info[1] # Null /\ "is_from" \in s.kids.info[1].opts
                             THEN "CopyFrom" ELSE "CopyTo", FALSE)
    [] s.kind = "ATTACH" -> is("Attach", FALSE)
    [] s.kind = "PRAGMA" ->
         IF s.kids.info[1] = Null THEN is("Pragma", TRUE)
         ELSE LET name == LowerAscii(s.kids.info[1].name) IN
              IF name \in Words({"quack_serve", "quack_stop", "quack_restart"}) THEN is("ServeAdmin", FALSE)
              ELSE is("Pragma", IsOwn(name) \/ ~AllowedPragma(name))
    [] s.kind = "SET" -> is("Pragma", \/ IsOwn(LowerAscii(s.name)) \/ ~AllowedSetting(LowerAscii(s.name))
                                      \/ "GLOBAL" \in s.opts \/ "RESET" \in s.opts)
    [] OTHER -> is("Scan", TRUE)

WalkExplain(s, ctes) ==
  All({ UnsafeIf("ANALYZE" \in s.opts), WalkRequired(s, {"stmt"}, ctes),
        UnsafeIf(s.kids.stmt[1] # Null /\ ClassifyStatement(s.kids.stmt[1]).unsafe) })

\* The value that is set has to be a constant, and for threads it has to be 4.
WalkSet(s, ctes) ==
  IF "RESET" \in s.opts THEN Nothing
  ELSE LET value == s.kids.value[1] IN
       Both(WalkRequired(s, {"value"}, ctes),
            UnsafeIf(/\ value # Null
                     /\ \/ value.kind # "CONSTANT"
                        \/ LowerAscii(s.name) = <<"threads">> /\ value.name # <<"4">>))

\* What a DETACH, PRAGMA or ATTACH says.
WalkDetach(info) == IF info.name = NoName THEN Unsafe ELSE AddNamedObject(<<"catalog:">> \o LowerAscii(info.name))
WalkPragma(info, ctes) ==
  Both(WalkEach(info, {"parameters"}, ctes), WalkRequired(info, {"named_parameters"}, ctes))
WalkAttach(info, ctes) == WalkRequired(info, {"parsed_options"}, ctes)

WalkStatement(s, ctes) ==
  CASE s.kind \in {"SELECT", "INSERT", "UPDATE", "DELETE", "MERGE_INTO"} -> WalkEach(s, {"node"}, ctes)
    [] s.kind = "EXPLAIN" -> WalkExplain(s, ctes)
    [] s.kind \in {"COPY", "CREATE", "DROP", "ALTER", "PRAGMA", "ATTACH", "DETACH"} ->
         WalkRequired(s, {"info"}, ctes)
    [] s.kind = "SET" -> WalkSet(s, ctes)
    [] s.kind \in {"LOAD", "TRANSACTION", "RELATION"} -> Nothing
    [] OTHER -> Unsafe

\* The node of an INSERT, UPDATE, DELETE or MERGE statement.
WalkBody(n, ctes) == Both(CteBodies(n, ctes), WalkDml(n, CteScope(n, ctes)))

\* Each part of the tree is walked by the function for its type.
WalkPart(n, ctes, action) ==
  CASE n.sort = "expression"   -> WalkExpression(n, ctes)
    [] n.sort = "query"        -> WalkQueryNode(n, ctes, action)
    [] n.sort = "cte"          -> WalkCte(n, ctes)
    [] n.sort = "ref"          -> WalkTableRef(n, ctes)
    [] n.sort = "modifier"     -> WalkModifier(n, ctes)
    [] n.sort = "set_info"     -> WalkSetInfo(n, ctes)
    [] n.sort = "merge_action" -> WalkMergeAction(n, ctes)
    [] n.sort = "pivot"        -> WalkPivot(n, ctes)
    [] n.sort = "constraint"   -> WalkConstraint(n, ctes)
    [] n.sort = "copy"         -> WalkCopyInfo(n, ctes)
    [] n.sort = "create"       -> WalkCreate(n, ctes)
    [] n.sort = "drop"         -> WalkDrop(n)
    [] n.sort = "alter"        -> WalkAlter(n, ctes)
    [] n.sort = "pragma"       -> WalkPragma(n, ctes)
    [] n.sort = "attach"       -> WalkAttach(n, ctes)
    [] n.sort = "detach"       -> WalkDetach(n)
    [] n.sort = "body"         -> WalkBody(n, ctes)
    [] n.sort = "statement"    -> WalkStatement(n, ctes)

\* The walk over a statement: each round makes the calls of the last one.
Walk(s, action) ==
  LET round[d \in Nat] ==
        IF d = 0 THEN [Nothing EXCEPT !.todo = {Visit(s, {})}]
        ELSE LET last == round[d - 1] IN
             Both([last EXCEPT !.todo = {}], All({WalkPart(v.node, v.ctes, action) : v \in last.todo}))
  IN round[MaxDepth + 1]
=============================================================================
