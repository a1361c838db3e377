---------------------------- MODULE MCTrackerData ---------------------------
(***************************************************************************)
(* Small ontologies and sets of statements for TrackerData.                *)
(***************************************************************************)
EXTENDS TrackerDataStore

MCUri == {"u1", "u2"}
MCLiteral == {"v1", "v2"}

\* R > A > B; "link" and its subproperty "part" are multi-valued links,
\* "one" a single-valued link of A, "text" a fulltext string of A that has a
\* domain index in B.
MCClassOrder == <<"R", "A", "B">>
MCSuperClasses == [c \in {"R", "A", "B"} |->
  CASE c = "R" -> << >> [] c = "A" -> <<"R">> [] c = "B" -> <<"A">>]
MCPropOrder == <<"link", "part", "one", "text">>
MCSuperProps == [p \in {"link", "part", "one", "text"} |->
  IF p = "part" THEN <<"link">> ELSE << >>]
MCDomain == [p \in {"link", "part", "one", "text"} |->
  IF p = "part" THEN "B" ELSE "A"]
MCMulti == {"link", "part"}
MCLinks == {"link", "part", "one"}
MCFullText == {"text"}
NoIndexes == [p \in {"link", "part", "one", "text"} |-> {}]
TextIndex == [p \in {"link", "part", "one", "text"} |->
  IF p = "text" THEN {"B"} ELSE {}]

Stmt(k, s, p, o) == [kind |-> k, s |-> s, p |-> p, o |-> o]
Typed(k, s, c) == [kind |-> k, s |-> s, o |-> c]
Setting(s, p, os) == [kind |-> "SET_RESOURCE", s |-> s, p |-> p, os |-> os]

\* Links between two resources, their classes, and a resource created by a load.
LinkStatements ==
  {Stmt(k, "u1", p, "u2") : k \in {"INSERT", "DELETE"}, p \in {"link", "part"}}
  \cup {Typed("INSERT_TYPE", "u1", "B")}
  \cup {Typed("DELETE_TYPE", "u1", c) : c \in {"A", "B", "R"}}
  \cup {Stmt(k, "u2", "link", "u1") : k \in {"LOAD", "DELETE"}}

\* The single-valued properties: conflicting inserts, replacements, fulltext.
ColumnStatements ==
  {Stmt(k, "u1", "text", v) : k \in {"INSERT", "DELETE", "REPLACE"}, v \in MCLiteral}
  \cup {Stmt(k, "u1", "one", u) : k \in {"LOAD", "REPLACE"}, u \in MCUri}
  \cup {Typed("DELETE_TYPE", "u1", "A")}

\* A property a subclass keeps a copy of, without deletions of its value.
IndexStatements ==
  {Stmt(k, "u1", "text", v) : k \in {"LOAD"}, v \in MCLiteral}
  \cup {Typed("INSERT_TYPE", "u1", c) : c \in {"A", "B"}}
  \cup {Typed("DELETE_TYPE", "u1", c) : c \in {"A", "B", "R"}}

MCClear == [kind |-> "CLEAR"]

\* NULL on a multi-valued property, resources stored with a setter, and CLEAR.
ResourceStatements ==
  {MCClear} \cup
  {Setting("u1", "link", <<u>>) : u \in MCUri}
  \cup {Stmt("LOAD", "u2", "link", u) : u \in MCUri}
  \cup {Stmt("REPLACE_NULL", u, "link", "NULL") : u \in MCUri}

\* Statements that may fail and are all silent; no other workload has them.
SilentStatements ==
  {Stmt("INSERT", "u2", "text", v) : v \in MCLiteral}
  \cup {Typed("INSERT_TYPE", "u2", "A"), Stmt("INSERT", "u2", "link", "u2")}
SilentWorkloads == {SilentStatements}

MCWorkloads ==
  {LinkStatements, ColumnStatements, IndexStatements, ResourceStatements,
   SilentStatements}
=============================================================================
