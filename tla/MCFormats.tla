------------------------------ MODULE MCFormats -----------------------------
(* Formats with small resources, result sets and texts.                      *)
EXTENDS Formats

Ex == "http://ex#"
Other == "http://other/"
MCSchemes == {Ex, Other, "http://rdf#"}
MCNamespaces == <<[prefix |-> "ex:", uri |-> <<Ex>>], [prefix |-> "rdf:", uri |-> <<"http://rdf#">>]>>

A == <<Ex, "a">>
B == <<Other, "b">>
C == <<Ex, "C">>
G == <<Ex, "g">>
P == <<Ex, "p">>
Link == <<Ex, "link">>
Str(s) == Value("string", <<s>>)
Uri(s) == Value("uri", s)
Graph(g) == Uri(g)

-----------------------------------------------------------------------------
(* Resources: r1 has a compact name, r2 none, r3 an absolute one.             *)

Empty == "r1" :> NewResource(<<"ex:", "a">>) @@ "r2" :> NewResource(NULL) @@ "r3" :> NewResource(B)
With(t, r, prop, value) == [t EXCEPT ![r] = AddGvalue(@, prop, value)]

ExP == <<"ex:", "p">>
ExLink == <<"ex:", "link">>
Type == Uri(<<"ex:", "C">>)

\* A tree in which the blank node is shared, and a cycle.
Shared ==
  With(With(With(With(With(With(Empty, "r1", TypeProperty, Type), "r1", ExLink, Relation("r3")),
    "r1", ExLink, Relation("r2")), "r3", ExLink, Relation("r2")), "r2", ExP, Str("x")), "r3", ExP, Value("integer", <<"1">>))
Cycle ==
  With(With(With(With(Empty, "r1", ExLink, Relation("r3")), "r3", ExLink, Relation("r1")),
    "r3", ExP, Str("y")), "r1", ExP, Str("x"))

\* The root with an absolute name as well.
FullyNamed == [Empty EXCEPT !["r1"] = SetIdentifier(@, A)]

MCTables == {Empty, Shared, Cycle, FullyNamed}
MCRoot == "r1"

MCValues ==
  {<<ExP, Str("x")>>, <<ExP, Value("integer", <<"1">>)>>, <<TypeProperty, Type>>,
   <<ExLink, Uri(<<"ex:", "C">>)>>} \union {<<ExLink, Relation(r)>> : r \in {"r2", "r3"}}
MCOperations ==
  {[r |-> r, set |-> s, prop |-> v[1], value |-> v[2]] :
     r \in {"r1", "r3"}, s \in BOOLEAN, v \in MCValues \ {<<ExLink, Relation("r3")>>}}
  \union {[r |-> "r1", set |-> s, prop |-> ExLink, value |-> Relation("r3")] : s \in BOOLEAN}
  \union {[r |-> "r2", set |-> FALSE, prop |-> ExP, value |-> Str("x")],
          [r |-> "r2", set |-> FALSE, prop |-> ExLink, value |-> Relation("r1")]}

-----------------------------------------------------------------------------
(* What is serialized.                                                       *)

RdfVars == <<<<"s">>, <<"p">>, <<"o">>, <<"g">>>>

\* Two graphs in turn with a subject that comes back, as CONSTRUCT gives them.
Quads ==
  <<Quad(Uri(A), P, Str("x"), Unbound), Quad(Uri(A), P, Value("datetime", <<"d">>), Unbound),
    Quad(Uri(A), Link, Uri(B), Graph(G)), Quad(Uri(B), P, Tagged(<<"y">>, "en"), Graph(G)),
    Quad(Value("string", <<DatabaseBlank, "1">>), P, Value("boolean", <<"true">>), Graph(C))>>

\* More subjects than a JSON-LD serializer keeps, linked to before and after they come.
Many ==
  <<Quad(Uri(A), Link, Uri(C), Unbound), Quad(Uri(C), P, Str("x"), Unbound),
    Quad(Uri(B), Link, Uri(A), Unbound), Quad(Uri(G), Link, Uri(B), Unbound),
    Quad(Uri(G), P, Value("double", <<"1.5">>), Unbound), Quad(Uri(A), P, Str("z"), Unbound)>>

\* A row that lacks what a statement needs, for Turtle and for TriG.
NoObject == <<Quad(Uri(A), P, Str("x"), Unbound), <<Uri(A), Uri(P), Unbound, Unbound>>>>
NoTriple == <<Quad(Uri(A), P, Str("x"), Unbound), <<Unbound, Unbound, Unbound, Graph(G)>>>>

ResultVars == <<<<"v">>, NULL>>
Results ==
  <<<<Uri(A), Tagged(<<"y">>, "en")>>, <<Unbound, Value("integer", <<"1">>)>>,
    <<Value("bnode", <<DatabaseBlank, "1">>), Unbound>>, <<Str("x"), Value("datetime", <<"d">>)>>>>
Odd == <<<<Value("string", NULL), Str("x")>>, <<Unbound, Unbound>>, <<Str(Markup), Value("boolean", <<"true">>)>>>>

Source(f, names, rows) == [format |-> f, vars |-> names, rows |-> rows]
MCSources ==
  {Source(f, RdfVars, rows) : f \in Rdf, rows \in {<< >>, Quads, Many}}
  \union {Source(f, ResultVars, rows) : f \in {"json", "xml"}, rows \in {Results, Odd}}
  \union {Source("xml", RdfVars, << >>), Source("turtle", RdfVars, NoObject), Source("trig", RdfVars, NoTriple)}

\* Texts with what the serializers do not write: a base, comments, "a", blank nodes in
\* brackets, semicolons before a dot, type casts.
Label1(s) == Token("label", <<s>>)
Iri(s) == Token("iri", s)
Name(s) == Token("name", <<"q:", s>>)
Directives == <<Mark("@base"), Iri(<<Ex>>), Mark("."), Mark("@prefix"), Label1("q:"), Iri(<<Other>>), Mark(".")>>
Body ==
  <<Mark("comment"), Iri(<<"a">>), Mark("a"), Name("T"), Mark(";"), Space, Iri(<<"p">>), Token("text", <<"x">>),
    Mark("^^"), Name("t"), Mark(","), Token("number", <<"1">>), Mark(";"), Mark("."),
    Name("b"), Iri(<<"link">>), Mark("["), Mark("a"), Name("T"), Mark(";"), Iri(<<"p">>), Token("text", <<"y">>),
    Token("lang", "en"), Mark("]"), Mark("."),
    Mark("["), Iri(<<"p">>), Token("text", <<"z">>), Mark("]"), Iri(<<"link">>), Token("bnode", <<Blank, "n">>), Mark(".")>>

Generated(n) == Value("bnode", <<Blank, "generated", n>>)
T == Uri(<<Other, "T">>)
BodyRows ==
  <<<<Uri(A), Uri(RdfType), T>>, <<Uri(A), Uri(P), Str("x")>>, <<Uri(A), Uri(P), Str("1")>>,
    <<Generated(0), Uri(RdfType), T>>, <<Generated(0), Uri(P), Tagged(<<"y">>, "en")>>,
    <<Uri(B), Uri(Link), Generated(0)>>,
    <<Generated(1), Uri(P), Str("z")>>, <<Generated(1), Uri(Link), Value("bnode", <<Blank, "n">>)>>>>

InGraphG(row) == Append(row, Uri(<<Ex, "g">>))
MCDocuments ==
  {[format |-> "turtle", tokens |-> Directives \o Body, rows |-> BodyRows],
   [format |-> "trig", tokens |-> Directives \o <<Mark("graph"), Iri(<<"g">>), Mark("{")>> \o Body \o <<Mark("}")>>,
    rows |-> [i \in DOMAIN BodyRows |-> InGraphG(BodyRows[i])]]}

-----------------------------------------------------------------------------
(* What a format keeps of a row.                                             *)

Document == cursor.vars = << >>

Labelled(v) == IF v.type = "bnode" THEN Value("bnode", Label(v.str)) ELSE v
Subject(row) == Labelled(QuadFromCursor(row)[1])

\* Turtle makes strings of all literals, and has no graphs.
TurtleKeeps(row) ==
  LET o == Labelled(QuadFromCursor(row)[3])
  IN  <<Subject(row), row[2], IF o.type \in Text \ {"string"} THEN Value("string", o.str) ELSE o>>

\* JSON-LD makes strings of the resources that are objects.
JsonLdKeeps(row) ==
  LET name(v) == IF v.type = "bnode" THEN <<Blank>> \o v.str ELSE v.str
      o == IF row[3].type \in {"uri", "bnode"} THEN Value("string", name(row[3])) ELSE row[3]
      s == IF row[1].type = "bnode" THEN Value("bnode", name(row[1])) ELSE Uri(row[1].str)
  IN  Quad(s, row[2].str, o, row[4])

Keeps(row) ==
  CASE Document \/ format \in {"json", "xml"} -> row
    [] format = "turtle" -> TurtleKeeps(row)
    [] format = "trig" -> Append(TurtleKeeps(row), row[4])
    [] format = "jsonld" -> JsonLdKeeps(row)
Expected == [i \in DOMAIN cursor.rows |-> Keeps(cursor.rows[i])]

\* The order of the rows is kept, except that of the objects in JSON-LD.
SameRows(rows) ==
  IF format = "jsonld" THEN Len(rows) = Len(Expected) /\ Range(rows) = Range(Expected) ELSE rows = Expected

\* What a format carries: an end that was printed once, for Turtle; no row without a value,
\* and no empty or marked up text, for XML; for JSON-LD subjects of one kind, blank nodes by
\* the type and not by the name.
Carried ==
  CASE format = "turtle" -> w.closings <= 1
    [] format = "xml" -> \A row \in Range(cursor.rows) :
         /\ \E i \in DOMAIN row : Bound(row[i])
         /\ \A i \in DOMAIN row : Bound(row[i]) => row[i].str # NULL /\ Markup \notin Range(row[i].str)
    [] OTHER -> TRUE

NoneRefused == \A row \in Range(cursor.rows) : ~Refused(row)

(* A deserializer that ends without an error has given exactly the rows of    *)
(* the cursor that was serialized, as far as the format can express them, and *)
(* in the part of a text that came if the connection broke at a statement; it *)
(* never takes the failure of the cursor for the end, and an error comes only *)
(* from a failure, a row that is no statement or a broken connection.         *)
RoundTrip ==
  format # "none" /\ Carried =>
    /\ result = "end" => IF cut /\ format \in Streaming THEN IsPrefix(got, Expected)
                         ELSE cursor.fails = 0 /\ NoneRefused /\ SameRows(got)
    /\ result = "error" => cut \/ cursor.fails # 0 \/ ~NoneRefused

(* The cursor over a resource gives every statement of every resource it      *)
(* reaches once, and all statements of a related resource in front of the     *)
(* one that relates to it, which is what a reader without lookahead needs.    *)
RowsExact ==
  LET rows == RowsOfResource(table, Namespaces, Root, Unbound)
      reached == Reached(table, {Root})
      statements(r) == {ResourceRow(table, Namespaces, r, item, Unbound) : item \in Range(Items(table[r]))}
      named(r) == NodeValue(Namespaces, Identifier(table, r))
      total == FoldSet(LAMBDA r, n : n + Len(Items(table[r])), 0, reached)
  IN  format = "none" =>
        /\ Len(rows) = total
        /\ Range(rows) = UNION {statements(r) : r \in reached}
        /\ \A r \in reached : r \notin Reached(table, Children(table[r])) =>
             \A i, j \in DOMAIN rows : rows[i][3] = named(r) /\ rows[j][1] = named(r) => j < i

-----------------------------------------------------------------------------
(* Storing.                                                                  *)

Stores ==
  {{ }, {<<A, P, Str("old")>>, <<A, P, Str("x")>>, <<A, Link, Uri(C)>>, <<B, P, Str("old")>>, <<B, Link, Uri(A)>>}}

\* No property was set and then added to, no type overwrites another.
Plain ==
  \A r \in Reached(table, {Root}) :
     /\ TypeProperty \notin table[r].overwrite
     /\ \A i \in DOMAIN table[r].props :
          table[r].props[i].prop \in table[r].overwrite => Len(table[r].props[i].values) = 1

\* The resources whose properties overwrite have absolute names.
Absolute ==
  \A r \in Reached(table, {Root}) :
     table[r].overwrite # { } /\ ~IsBlankNode(table[r]) => ExpandNode(Namespaces, table[r].id) = table[r].id

\* Every resource an update prints has something to say.
Complete == \A r \in Inserted(table, Namespaces, {Root}) : table[r].props # << >>

(* A resource leaves the same statements in the store whether it is stored    *)
(* within a transaction, sent as a batch over D-Bus or printed as the text of *)
(* an update: the values of the properties that were set are replaced, the    *)
(* others kept, and the same for every related resource.  Over D-Bus old      *)
(* values stay where names are compact, and nothing else is different; a text *)
(* that cannot be parsed changes nothing.                                     *)
UpdatesAgree ==
  format = "none" /\ Plain =>
    \A store \in Stores :
       LET direct == UpdateResource(table, Namespaces, Root, store)
           batch == BusBatch(table, Namespaces, Root, store)
           text == PrintSparqlUpdate(table, Namespaces, Root, store)
       IN  /\ direct \subseteq batch /\ batch \subseteq direct \union store
           /\ Absolute => batch = direct
           /\ text = IF Complete THEN direct ELSE store

\* A resource as a tree, without the names of the table.
RECURSIVE Described(_, _)
Described(t, r) ==
  LET value(v) == IF IsChild(v) THEN [value |-> Unbound, child |-> <<Described(t, ChildOf(v))>>]
                  ELSE [value |-> v, child |-> << >>]
  IN  [t[r] EXCEPT !.id = IF IsBlankNode(t[r]) THEN NULL ELSE @,
                   !.props = [i \in DOMAIN @ |->
                     [@[i] EXCEPT !.values = [j \in DOMAIN @ |-> value(@[j])]]]]

(* A resource that went through a variant is the same, with its children, the *)
(* order of its values and the properties that overwrite: "in a lossless way" *)
(* (tracker-resource.c:1738).                                                 *)
VariantFaithful ==
  format = "none" /\ Serializable(table, Root) /\ Plain =>
    Deserialize(Serialize(table, Root)) = Described(table, Root)

=============================================================================
