------------------------------- MODULE RdfTerms -----------------------------
(***************************************************************************)
(* The terms that cursors, serializers, deserializers and resources pass   *)
(* around, the namespaces that compress and expand them, and cursors.      *)
(*                                                                         *)
(* A string is a sequence of segments.  A compact name starts with the     *)
(* label of a prefix ("ex:"), a blank node with "_:" (or with "urn:bnode:",*)
(* as the database names them), and an absolute IRI with one of Schemes,   *)
(* the segments that have ":/" in them.                                    *)
(***************************************************************************)
EXTENDS Naturals, SequencesExt

CONSTANT Schemes

NULL == << >>
Blank == "_:"
DatabaseBlank == "urn:bnode:"
RdfType == <<"http://rdf#", "type">>

Starts(s, segment) == s # NULL /\ s[1] = segment
IsBlank(s) == Starts(s, Blank)

\* The value of a column, and a literal with its language.
Value(type, str) == [type |-> type, str |-> str, lang |-> ""]
Tagged(str, lang) == [type |-> "string", str |-> str, lang |-> lang]
Unbound == Value("unbound", NULL)
Bound(v) == v.type # "unbound"

-----------------------------------------------------------------------------
(***************************************************************************)
(* Namespaces: the prefixes in the order they were added.  Prefixes are    *)
(* added once: adding one again would leave the array of                   *)
(* tracker-namespace-manager.c with pointers to freed strings.             *)
(***************************************************************************)
AddPrefix(namespaces, prefix, uri) == Append(namespaces, [prefix |-> prefix, uri |-> uri])

Named(namespaces, prefix) == {i \in DOMAIN namespaces : namespaces[i].prefix = prefix}
HasPrefix(namespaces, prefix) == Named(namespaces, prefix) # {}
LookupPrefix(namespaces, prefix) == namespaces[Max(Named(namespaces, prefix))].uri

\* A name whose prefix is known is expanded, any other string is left as it is.
ExpandUri(namespaces, s) ==
  IF s # NULL /\ HasPrefix(namespaces, s[1])
  THEN LookupPrefix(namespaces, s[1]) \o Tail(s) ELSE s

\* The first namespace that the URI begins with gives the prefix; NULL if there is none.
CompressUri(namespaces, uri) ==
  LET i == SelectInSeq(namespaces, LAMBDA n : IsPrefix(n.uri, uri))
  IN  IF i = 0 THEN NULL
      ELSE <<namespaces[i].prefix>> \o SubSeq(uri, Len(namespaces[i].uri) + 1, Len(uri))

-----------------------------------------------------------------------------
(***************************************************************************)
(* A cursor: the names of its columns, its rows, how many were read, and   *)
(* the row instead of which it fails (0 for none).  The columns of a       *)
(* cursor over RDF are the subject, the predicate, the object and, when it *)
(* has graphs, the graph.                                                  *)
(***************************************************************************)
Cursor(vars, rows, fails) == [vars |-> vars, rows |-> rows, pos |-> 0, fails |-> fails]
CursorFails(c) == c.pos + 1 = c.fails
CursorEnds(c) == c.pos = Len(c.rows)
Advanced(c) == [c EXCEPT !.pos = @ + 1]
CurrentRow(c) == c.rows[c.pos + 1]

Column(row, i) == IF i \in DOMAIN row THEN row[i] ELSE Unbound
Quad(s, p, o, g) == <<s, Value("uri", p), o, g>>
=============================================================================
