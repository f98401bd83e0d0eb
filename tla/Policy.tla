------------------------------- MODULE Policy -------------------------------
(***************************************************************************)
(* What check_authorization decides by: a policy table of the operator's,   *)
(* loaded anew for every chunk, or the default policy by scopes if the      *)
(* server SECRET names no table.                                            *)
(*                                                                          *)
(* Names and patterns are sequences of characters; the empty one is what    *)
(* the code has for an object or column that a request does not have, and   *)
(* for a pattern that is NULL or empty.  Sets stand for the lists of scopes *)
(* and actions (empty: no constraint), for a subject (empty: NULL) and for  *)
(* allow (empty: NULL).                                                     *)
(***************************************************************************)
EXTENDS Integers, Sequences, FiniteSets

CONSTANT LowerCase     \* tolower on the upper-case letters in use

ASSUME PolicyAssumption ==
  /\ "*" \notin DOMAIN LowerCase
  /\ \A ch \in DOMAIN LowerCase : LowerCase[ch] \notin DOMAIN LowerCase \cup {"*"}

Actions == { "Attach", "Scan", "CopyTo", "CopyFrom", "ServeAdmin",
             "Insert", "Update", "Delete", "Ddl", "Pragma" }
NoName == <<>>

(***************************************************************************)
(* Patterns.                                                                *)
(***************************************************************************)
Lower(ch) == IF ch \in DOMAIN LowerCase THEN LowerCase[ch] ELSE ch

\* One pass over the value with four cursors; a mismatch goes back to the last
\* star, which then takes one more character.  starP is 0 before the first star.
Cursors(p, v, starP, starV) == [p |-> p, v |-> v, starP |-> starP, starV |-> starV]

GlobMatch(pattern, value) ==
  LET walk[c \in [p : Nat, v : Nat, starP : Nat, starV : Nat]] ==
        IF c.v > Len(value) THEN \A i \in c.p..Len(pattern) : pattern[i] = "*"
        ELSE IF c.p <= Len(pattern) /\ pattern[c.p] = "*" THEN walk[Cursors(c.p + 1, c.v, c.p, c.v)]
        ELSE IF c.p <= Len(pattern) /\ Lower(pattern[c.p]) = Lower(value[c.v])
             THEN walk[Cursors(c.p + 1, c.v + 1, c.starP, c.starV)]
        ELSE c.starP # 0 /\ walk[Cursors(c.starP + 1, c.starV + 1, c.starP, c.starV + 1)]
  IN walk[Cursors(1, 1, 0, 1)]

NormalisePattern(s) == [i \in DOMAIN s |-> Lower(s[i])]

(***************************************************************************)
(* Loading.  A source is what the settings and the SECRET say: whether a    *)
(* table is named, the columns and rows found under that name, and          *)
(* quack_oauth_policy_default.                                              *)
(***************************************************************************)
DefaultPolicy == [kind |-> "default", rules |-> <<>>, defaultAllow |-> FALSE]
LoadFailed == [kind |-> "failed", rules |-> <<>>, defaultAllow |-> FALSE]

\* What a table with the columns' types may hold.
WellFormedRow(row) ==
  /\ row.priority \in Int /\ row.allow \in {{}, {TRUE}, {FALSE}}
  /\ \A s, t \in row.subject : s = t
  /\ row.objectPattern \in Seq(STRING) /\ row.columnPattern \in Seq(STRING)

WellFormedSource(source) ==
  /\ source.named \in BOOLEAN /\ source.defaultAllow \in BOOLEAN
  /\ IsFiniteSet(source.rows) /\ \A row \in source.rows : WellFormedRow(row)

\* DiscoverColumns asks for the first two of these, the SELECT for all.
RequiredColumns == {"priority", "allow", "subject", "any_scope", "actions"}

\* A row as a rule; a pattern whose column the table lacks is no constraint.
Rule(row, columns) ==
  [ priority  |-> row.priority, subject |-> row.subject, anyScope |-> row.anyScope, actions |-> row.actions,
    objectPattern |-> IF "object_pattern" \in columns THEN NormalisePattern(row.objectPattern) ELSE NoName,
    columnPattern |-> IF "column_pattern" \in columns THEN NormalisePattern(row.columnPattern) ELSE NoName,
    allow |-> TRUE \in row.allow ]

\* Mutant: the rows as the table happens to hold them.
InTableOrder(rules) == {s \in [1..Cardinality(rules) -> rules] : {s[i] : i \in DOMAIN s} = rules}

\* ORDER BY priority: rules of the same priority come in any order.
OrderedByPriority(rules) ==
  {s \in [1..Cardinality(rules) -> rules] :
     /\ {s[i] : i \in DOMAIN s} = rules
     /\ \A i, j \in DOMAIN s : i < j => s[i].priority <= s[j].priority}

\* The policies that loading may give.
LoadPolicyFromTable(columns, rows) ==
  IF /\ RequiredColumns \subseteq columns
     /\ \A row \in rows : row.allow # {} /\ row.actions \subseteq Actions
  THEN {[kind |-> "table", rules |-> rules, defaultAllow |-> FALSE] :
          rules \in OrderedByPriority({Rule(row, columns) : row \in rows})}
  ELSE {LoadFailed}

LoadPolicy(source) ==
  IF ~source.named THEN {DefaultPolicy}
  ELSE {IF p = LoadFailed THEN p ELSE [p EXCEPT !.defaultAllow = source.defaultAllow] :
          p \in LoadPolicyFromTable(source.columns, source.rows)}

(***************************************************************************)
(* Evaluation.                                                              *)
(***************************************************************************)
PrincipalHasAnyScope(p, anyOf) == anyOf = {} \/ anyOf \cap p.scopes # {}
ActionMatches(action, list) == list = {} \/ action \in list

RuleMatches(rule, p, action, object, column) ==
  /\ rule.subject = {} \/ p.sub \in rule.subject
  /\ PrincipalHasAnyScope(p, rule.anyScope)
  /\ ActionMatches(action, rule.actions)
  /\ rule.objectPattern # NoName => object # NoName /\ GlobMatch(rule.objectPattern, object)
  /\ rule.columnPattern # NoName => column # NoName /\ GlobMatch(rule.columnPattern, column)

EvaluateCell(policy, p, action, object, column) ==
  LET hits == {i \in DOMAIN policy.rules : RuleMatches(policy.rules[i], p, action, object, column)} IN
  IF hits = {} THEN policy.defaultAllow
  ELSE policy.rules[CHOOSE i \in hits : \A j \in hits : i <= j].allow

OrNone(names) == IF names = {} THEN {NoName} ELSE names

\* Every object with every column has to be allowed; without objects the
\* columns do not count.
EvaluatePolicy(policy, p, request) ==
  IF request.objects = {} THEN EvaluateCell(policy, p, request.action, NoName, NoName)
  ELSE \A object \in request.objects, column \in OrNone(request.columns) :
         EvaluateCell(policy, p, request.action, object, column)

EvaluateDefaultPolicy(p, action) ==
  \/ action \in {"Attach", "Scan"} /\ p.scopes \cap {"quack:read", "quack:write"} # {}
  \/ action \in {"CopyTo", "CopyFrom", "Insert", "Update", "Delete"} /\ "quack:write" \in p.scopes

(***************************************************************************)
(* The reference, on the table itself and with matching defined from the end:*)
(* fits[i] are the positions of the value from which on the pattern from i   *)
(* on fits it.                                                              *)
(***************************************************************************)
Matches(pattern, value) ==
  LET fits[i \in 1..(Len(pattern) + 1)] ==
        IF i > Len(pattern) THEN {Len(value) + 1}
        ELSE LET rest == fits[i + 1] IN
             IF pattern[i] = "*" THEN {j \in 1..(Len(value) + 1) : \E k \in rest : j <= k}
             ELSE {j \in 1..Len(value) : Lower(pattern[i]) = Lower(value[j]) /\ j + 1 \in rest}
  IN 1 \in fits[1]

Applies(row, columns, p, action, object, column) ==
  LET constraint(name, pattern, value) ==
        name \in columns /\ pattern # NoName => value # NoName /\ Matches(pattern, value)
  IN /\ row.subject \subseteq {p.sub}
     /\ row.anyScope # {} => \E s \in row.anyScope : s \in p.scopes
     /\ row.actions # {} => action \in row.actions
     /\ constraint("object_pattern", row.objectPattern, object)
     /\ constraint("column_pattern", row.columnPattern, column)

\* What the rows that decide on a cell say; several may share a priority.
Verdicts(source, p, action, object, column) ==
  LET rows == {r \in source.rows : Applies(r, source.columns, p, action, object, column)} IN
  IF rows = {} THEN {source.defaultAllow}
  ELSE UNION {r.allow : r \in {x \in rows : \A y \in rows : x.priority <= y.priority}}

Cells(request) ==
  IF request.objects = {} THEN {<<NoName, NoName>>} ELSE request.objects \X OrNone(request.columns)

Readable(source) ==
  RequiredColumns \subseteq source.columns /\ \A r \in source.rows : r.allow # {} /\ r.actions \subseteq Actions

\* The decision is one the source calls for: fail closed, and otherwise by the
\* first row that applies to each cell, or by the scopes.
Follows(allow, source, p, request) ==
  IF request.unsafe \/ (source.named /\ ~Readable(source)) THEN ~allow
  ELSE IF source.named
       THEN /\ allow => \A c \in Cells(request) : TRUE \in Verdicts(source, p, request.action, c[1], c[2])
            /\ ~allow => \E c \in Cells(request) : FALSE \in Verdicts(source, p, request.action, c[1], c[2])
       ELSE allow <=> \/ "quack:write" \in p.scopes /\ request.action \notin {"Ddl", "Pragma", "ServeAdmin"}
                      \/ "quack:read" \in p.scopes /\ request.action \in {"Attach", "Scan"}
==============================================================================
