---------------------------- MODULE MCSessionAuthz ----------------------------
(***************************************************************************)
(* Instances of SessionAuthz for TLC: principals, requests and policies.    *)
(***************************************************************************)
EXTENDS SessionAuthz, TLC

Principal(sub, scopes, exp) == [sub |-> sub, scopes |-> scopes, exp |-> exp]

\* alice's token expires, is renewed, or has no expiry.
AliceShort == Principal("alice", {"quack:read"}, 1)
AliceLong  == Principal("alice", {"quack:read"}, 3)
AliceOpen  == Principal("alice", {"quack:read"}, 0)

RenewalPrincipals == {AliceShort, AliceLong}
SessionPrincipals == {AliceShort, AliceLong, AliceOpen}

\* An analyst, and one with the scope for personal data.
Analysts == {Principal("bob", {"analyst", "quack:read"}, 1), Principal("carol", {"analyst", "pii:read"}, 1)}

MCLowerCase == [c \in {"M", "T"} |-> IF c = "M" THEN "m" ELSE "t"]

(***************************************************************************)
(* Requests: tables m.u and m.tt, the function fn:t, columns id and e.      *)
(***************************************************************************)
Users == <<"m", ".", "u">>
Trips == <<"m", ".", "t", "t">>
Reader == <<"f", "n", ":", "t">>
Id == <<"i", "d">>
Email == <<"e">>
Star == <<"*">>

Request(action, objects, columns) ==
  [unsafe |-> FALSE, action |-> action, objects |-> objects, columns |-> columns]

Garbled == [unsafe |-> TRUE, action |-> "Scan", objects |-> {}, columns |-> {}]
TwoQueries == {Request("Scan", {Trips}, {Id}), Garbled}

AllQueries ==
  TwoQueries \cup
  { Request("Scan", {Users}, columns) : columns \in {{Id}, {Id, Email}, {Star}} } \cup
  { Request("Scan", {Users, Trips}, {Id}), Request("Scan", {Trips, Reader}, {Star}),
    Request("Insert", {Trips}, {}), Request("Attach", {}, {}), Request("Ddl", {}, {}) }

(***************************************************************************)
(* Policies.                                                                *)
(***************************************************************************)
FiveColumns  == {"priority", "subject", "any_scope", "actions", "allow"}
SevenColumns == FiveColumns \cup {"object_pattern", "column_pattern"}

Row(priority, subject, anyScope, actions, object, column, allow) ==
  [ priority |-> priority, subject |-> subject, anyScope |-> anyScope, actions |-> actions,
    objectPattern |-> object, columnPattern |-> column, allow |-> {allow} ]
Table(columns, tableRows, defaultAllow) ==
  [named |-> TRUE, columns |-> columns, rows |-> tableRows, defaultAllow |-> defaultAllow]

\* README.md, level 5.
ColumnRows ==
  { Row(5, {}, {"pii:read"}, {"Scan"}, Users, Email, TRUE),
    Row(20, {}, {"analyst"}, {"Scan"}, Users, Email, FALSE),
    Row(30, {}, {"analyst"}, {"Scan"}, Users, NoName, TRUE) }
ColumnTable == Table(SevenColumns, ColumnRows, FALSE)

\* A subject locked out of writes, two rows of one priority, patterns in upper
\* case, and a pattern that ends in a letter that comes twice.
GlobTable == Table(SevenColumns,
  { Row(1, {"bob"}, {}, {"Insert"}, NoName, NoName, FALSE),
    Row(10, {}, {"pii:read"}, {"Scan"}, <<"M", ".", "*">>, NoName, TRUE),
    Row(10, {}, {}, {"Scan"}, <<"*", ".", "u">>, Id, FALSE),
    Row(20, {}, {"analyst"}, {"Scan", "Insert"}, <<"*", "T">>, NoName, TRUE) }, FALSE)

\* The older schema: whatever it grants, it grants on all columns.
OldTable == Table(FiveColumns, {Row(10, {}, {}, {"Ddl"}, Users, Email, FALSE)}, TRUE)

\* Tables that cannot be loaded.
UnknownAction == Table(SevenColumns, ColumnRows \cup {Row(1, {}, {}, {"Select"}, NoName, NoName, TRUE)}, TRUE)
NoScopeColumn == Table(SevenColumns \ {"any_scope"}, ColumnRows, TRUE)

NullAllow     == Table(SevenColumns, {[r EXCEPT !.allow = {}] : r \in ColumnRows}, TRUE)

PlainSources == {NoSource, NoScopeColumn, NullAllow}
StarSources == {ColumnTable}
PolicySources == {NoSource, ColumnTable, GlobTable, OldTable, UnknownAction}

(***************************************************************************)
(* GlobMatch on short inputs.                                               *)
(***************************************************************************)
Strings(chars, n) == UNION {[1..k -> chars] : k \in 0..n}

\* policy.cpp, GlobMatch: the walk with one remembered star decides as the
\* definition from the end does, for every pattern of up to four characters and
\* every value of up to five, with stars and upper case on both sides.
ASSUME GlobMatchIsMatching ==
  \A pattern \in Strings({"t", "T", "*"}, 4), value \in Strings({"t", "m", "*"}, 5) :
    GlobMatch(pattern, value) = Matches(pattern, value)

ThreadAndSessionSymmetry == Permutations(Threads) \cup Permutations(Sids)
==============================================================================
