------------------------------ MODULE SqlAuthz ------------------------------
(***************************************************************************)
(* A request from its text to its decision: InspectSql parses the query and *)
(* inspects its statements one after another, into one request; then        *)
(* check_authorization has the policy decide on that request, or            *)
(* quack_oauth_inspect_sql shows it.                                        *)
(*                                                                          *)
(* The properties compare the request with what the statements do when they *)
(* are run.  That reference knows nothing of the walk: it looks at every    *)
(* node under every member, and resolves a name by the definitions that     *)
(* enclose it.                                                              *)
(***************************************************************************)
EXTENDS SqlInspect

CONSTANTS
  Queries,      \* [parses, script]: a text, as the parser understands it
  Sources,      \* the policy tables an operator may have (Policy.tla)
  Principals    \* who asks

\* A text is parsed or it is not; the script is a list, in which there may be
\* null pointers.
ASSUME QueriesAssumption ==
  \A q \in Queries : /\ q.parses \in BOOLEAN /\ (~q.parses => q.script = <<>>)
                     /\ Len(q.script) \in Nat /\ q.script = [i \in 1..Len(q.script) |-> q.script[i]]
                     /\ \A i \in DOMAIN q.script : q.script[i] # Null => Parsed(q.script[i])

\* The policy tables and what they are asked about have their types.
ASSUME PoliciesAssumption ==
  /\ \A ch \in DOMAIN LowerCase : LowerCase[ch] \in STRING
  /\ \A s \in Sources : WellFormedSource(s)

VARIABLES
  query,        \* the text of the request
  source,       \* the policy table when it is decided
  principal,    \* who asks
  pc,           \* "parse", "inspect", "decide" or "done"
  next,         \* the statement to inspect next
  first,        \* no statement has been inspected yet
  req,          \* AuthzRequest
  outcome       \* "none", "allow", "deny" or "shown"

vars == <<query, source, principal, pc, next, first, req, outcome>>

EmptyRequest == [action |-> "Scan", objects |-> {}, columns |-> {}, unsafe |-> FALSE]

Init ==
  /\ query \in Queries /\ source \in Sources /\ principal \in Principals
  /\ pc = "parse" /\ next = 1 /\ first = TRUE
  /\ req = EmptyRequest /\ outcome = "none"

Add(r, found) ==
  [ action |-> r.action, objects |-> r.objects \cup found.objects,
    columns |-> r.columns \cup found.columns, unsafe |-> r.unsafe \/ found.unsafe ]

\* A text that does not parse is unsafe; one without statements is a Scan of
\* nothing.
Parse ==
  /\ pc = "parse"
  /\ req' = [req EXCEPT !.unsafe = ~query.parses]
  /\ pc' = IF query.parses /\ query.script # <<>> THEN "inspect" ELSE "decide"
  /\ UNCHANGED <<query, source, principal, next, first, outcome>>

\* Mutant: what the second statement does is not compared with the first.
FirstActionOnly(r, isFirst, statement) ==
  LET class == ClassifyStatement(statement)
      action == IF isFirst THEN class.action ELSE r.action
  IN Add([r EXCEPT !.action = action, !.unsafe = @ \/ class.unsafe], Walk(statement, action))

\* One round of the loop on a statement that is there.
Inspect(r, isFirst, statement) ==
  LET class == ClassifyStatement(statement)
      action == IF isFirst THEN class.action ELSE r.action
  IN Add([r EXCEPT !.action = action, !.unsafe = @ \/ class.unsafe \/ class.action # action],
         Walk(statement, action))

InspectStatement ==
  /\ pc = "inspect"
  /\ IF query.script[next] = Null
     THEN req' = [req EXCEPT !.unsafe = TRUE] /\ UNCHANGED first
     ELSE req' = Inspect(req, first, query.script[next]) /\ first' = FALSE
  /\ next' = next + 1
  /\ pc' = IF next = Len(query.script) THEN "decide" ELSE "inspect"
  /\ UNCHANGED <<query, source, principal, outcome>>

\* The walk throws: the request is unsafe, the other statements are not looked at.
InspectionThrows ==
  /\ pc = "inspect"
  /\ req' = [req EXCEPT !.unsafe = TRUE]
  /\ pc' = "decide"
  /\ UNCHANGED <<query, source, principal, next, first, outcome>>

CheckAuthorization ==
  /\ pc = "decide"
  /\ \E policy \in LoadPolicy(source) :
       LET allow == /\ ~req.unsafe /\ policy # LoadFailed
                    /\ IF policy.kind = "default" THEN EvaluateDefaultPolicy(principal, req.action)
                       ELSE EvaluatePolicy(policy, principal, req)
       IN outcome' = IF allow THEN "allow" ELSE "deny"
  /\ pc' = "done"
  /\ UNCHANGED <<query, source, principal, next, first, req>>

InspectSqlScan ==
  /\ pc = "decide"
  /\ outcome' = "shown" /\ pc' = "done"
  /\ UNCHANGED <<query, source, principal, next, first, req>>

Next == Parse \/ InspectStatement \/ InspectionThrows \/ CheckAuthorization \/ InspectSqlScan

Spec == Init /\ [][Next]_vars

(***************************************************************************)
(* The reference, by the trails of the statements.                          *)
(***************************************************************************)
\* The step goes into the scope of an alias of that name.
Binds(step, name) ==
  LET n == step.node IN
  \/ /\ n.sort \in {"query", "body"} /\ "cte_map" \in DOMAIN n.kids
     /\ \E i \in DOMAIN n.kids.cte_map :
          /\ LowerAscii(n.kids.cte_map[i].name) = LowerAscii(name)
          /\ step.member = "cte_map" => i < step.index
  \/ /\ n.sort = "query" /\ <<n.kind, step.member>> \in {<<"CTE_NODE", "child">>, <<"RECURSIVE_CTE_NODE", "right">>}
     /\ LowerAscii(n.name) = LowerAscii(name)

NamesTable(t) ==
  \/ t.end.sort = "ref" /\ t.end.kind = "BASE_TABLE"
  \/ t.end.sort = "ref" /\ t.end.kind = "SHOW_REF" /\ "query" \notin DOMAIN t.end.kids
                        /\ t.end.name[3] \notin Words({"\"databases\"", "\"schemas\"", "\"tables\"", "__show_tables_expanded"})

IsBound(t) ==
  t.end.name[1] = NoName /\ t.end.name[2] = NoName /\ \E i \in DOMAIN t.up : Binds(t.up[i], t.end.name[3])

\* The name a table goes by in a policy; the metadata view is open to all.
PolicyName(target) ==
  LET schema == IF target[2] = NoName THEN <<"main">> ELSE LowerAscii(target[2])
      object == schema \o <<".">> \o LowerAscii(target[3])
  IN IF target[3] = NoName \/ object = <<"information_schema", ".", "tables">> THEN {} ELSE {object}

\* The objects that the node at the end of a trail gets at.
ObjectsAt(t) ==
  LET n == t.end IN
  CASE NamesTable(t) -> IF IsBound(t) THEN {} ELSE PolicyName(n.name)
    [] n.sort = "ref" /\ n.kind = "TABLE_FUNCTION" ->
         {<<"fn:">> \o LowerAscii(n.kids.function[i].name) : i \in DOMAIN n.kids.function}
           \ {<<"fn:", "duckdb_tables">>, <<"fn:", "duckdb_columns">>}
    [] n.sort \in {"create", "drop", "alter", "copy"} ->
         IF n.sort = "create" /\ n.kind = "SCHEMA_ENTRY" THEN {<<"schema:">> \o LowerAscii(n.name[2])}
         ELSE PolicyName(n.name)
    [] n.sort \in {"query", "body"} /\ n.kind = "INSERT" -> PolicyName(n.name)
    [] n.sort = "detach" -> {<<"catalog:">> \o LowerAscii(n.name)}
    [] OTHER -> {}

ColumnsAt(t) ==
  CASE t.end.sort = "expression" /\ t.end.kind = "COLUMN_REF" -> {LowerAscii(t.end.name)}
    [] t.end.sort = "expression" /\ t.end.kind = "STAR"       -> {<<"*">>}
    [] OTHER -> {}

\* The node is planned and not run.
IsExplained(t) == \E i \in DOMAIN t.up : t.up[i].node.kind = "EXPLAIN" /\ "ANALYZE" \notin t.up[i].node.opts

\* What running the node changes, as the action that a policy has for it;
\* "State" stands for what no action covers.
EffectsAt(t) ==
  LET n == t.end IN
  IF IsExplained(t) THEN {} ELSE
  CASE n.sort \in {"query", "body"} /\ n.kind \in {"INSERT", "UPDATE", "DELETE"} ->
         {CASE n.kind = "INSERT" -> "Insert" [] n.kind = "UPDATE" -> "Update" [] n.kind = "DELETE" -> "Delete"}
    [] n.sort = "merge_action" ->
         {CASE n.kind = "MERGE_UPDATE" -> "Update" [] n.kind = "MERGE_DELETE" -> "Delete" [] n.kind = "MERGE_INSERT" -> "Insert"}
    [] n.sort = "copy" -> {IF "is_from" \in n.opts THEN "CopyFrom" ELSE "CopyTo"}
    [] n.sort \in {"create", "drop", "alter", "detach"} -> {"Ddl"}
    [] n.sort = "attach" -> {"Attach"}
    [] n.sort = "pragma" -> {CASE LowerAscii(n.name) = <<"version">> -> "Pragma"
                               [] LowerAscii(n.name) \in Words({"quack_serve", "quack_stop", "quack_restart"}) -> "ServeAdmin"
                               [] OTHER -> "State"}
    [] n.sort = "statement" /\ n.kind = "SET" ->
         {IF LowerAscii(n.name) = <<"threads">> /\ n.opts = {} /\ n.kids.value[1].name = <<"4">> THEN "Pragma" ELSE "State"}
    [] n.sort = "statement" /\ n.kind = "LOAD" -> {"State"}
    [] n.sort = "expression" /\ n.kind = "FUNCTION" /\ LowerAscii(n.name) = <<"nextval">> -> {"State"}
    [] OTHER -> {}

Statements == {query.script[i] : i \in {j \in DOMAIN query.script : query.script[j] # Null}}
EveryTrail == UNION {Trails(s) : s \in Statements}
Objects == UNION {ObjectsAt(t) : t \in EveryTrail}
Columns == UNION {ColumnsAt(t) : t \in EveryTrail}
Effects == UNION {EffectsAt(t) : t \in EveryTrail}

IsInspected == pc \in {"decide", "done"}

(***************************************************************************)
(* Properties.                                                              *)
(***************************************************************************)

\* A request that is not unsafe names exactly the tables, functions and columns
\* of its statements, wherever in them they are and whatever aliases are
\* defined around them (WalkQueryNode, WalkTableRef, CteScope).
NamesWhatItReaches ==
  IsInspected /\ ~req.unsafe => req.objects = Objects /\ req.columns = Columns

\* A request that is not unsafe does nothing but what its action says: a Scan
\* changes nothing, and no statement hides in another or behind the first
\* (ClassifyStatement, the hidden-statement checks of WalkQueryNode, EXPLAIN).
DoesWhatItSays ==
  IsInspected /\ ~req.unsafe => Effects \subseteq {req.action}

\* Nothing that the inspector cannot read is waved through: a request is unsafe
\* if a statement, a node of any kind or a type is unknown to it, or is to be
\* run as SQL that it has not seen (the default branches; query(), macros).
OpaqueIsUnsafe ==
  IsInspected /\ (\E t \in EveryTrail : \/ t.end.kind = "UNKNOWN" \/ t.end.kind \in {"MACRO_ENTRY", "TABLE_MACRO_ENTRY"}
                                        \/ \E i \in DOMAIN At(t.end, "function") :
                                             LowerAscii(t.end.kids.function[i].name) \in Words({"query", "query_table"}))
    => req.unsafe

\* What is allowed is allowed in every part: for each thing the statements do
\* and each object with each column they get at, the row of the policy table
\* that decides on it says so (InspectSql, then EvaluatePolicy).
AllowedInEveryPart ==
  outcome = "allow" /\ source.named =>
    \A action \in IF Effects = {} THEN {req.action} ELSE Effects :
      \A cell \in Cells([objects |-> Objects, columns |-> Columns]) :
        TRUE \in Verdicts(source, principal, action, cell[1], cell[2])
=============================================================================
