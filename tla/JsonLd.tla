------------------------------- MODULE JsonLd ------------------------------
(***************************************************************************)
(* The JSON-LD serializer and deserializer, tracker-serializer-json-ld.c   *)
(* and tracker-deserializer-json-ld.c.  The serializer keeps the resources *)
(* it met as JSON objects, and puts an object into the one that refers to  *)
(* it if nothing else does; the objects that are left over are printed     *)
(* when the graph changes, when there are too many, and at the end.        *)
(***************************************************************************)
EXTENDS Turtle

CONSTANT MaxCachedResources

LdToken(k, s, tree) == [k |-> k, s |-> s, tree |-> tree]
LdMark(k) == LdToken(k, NULL, << >>)

\* A member of an object, and its values: a link to an object it contains, a reference
\* ("@id"), a plain string, a number or boolean, or an object with a "@value".
LdValue(k, s, lang, type) == [k |-> k, s |-> s, lang |-> lang, type |-> type]

JsonLdNew(namespaces) ==
  [namespaces |-> namespaces, data |-> << >>, head |-> FALSE, started |-> FALSE, finished |-> FALSE,
   closings |-> 0, graph |-> NULL, subject |-> NULL, nodes |-> << >>, roots |-> { },
   comma |-> FALSE, check |-> FALSE]

NodeOf(w, subject) == SelectInSeq(w.nodes, LAMBDA node : node.subject = subject)
Known(w, subject) == NodeOf(w, subject) # 0

\* A blank node gets a label in front of whatever names it.
NodeId(namespaces, s, type) ==
  IF type = "bnode" THEN <<Blank>> \o s
  ELSE IF CompressUri(namespaces, s) # NULL THEN CompressUri(namespaces, s) ELSE s

\* An object with the objects it contains, as it is printed.
RECURSIVE Tree(_, _)
Tree(nodes, node) ==
  [id |-> node.id,
   members |-> [m \in DOMAIN node.members |->
     [prop |-> node.members[m].prop,
      values |-> [v \in DOMAIN node.members[m].values |->
        LET value == node.members[m].values[v]
        IN  [value |-> value,
             tree |-> IF value.k = "link"
                      THEN <<Tree(nodes, nodes[SelectInSeq(nodes, LAMBDA n : n.subject = value.s)])>>
                      ELSE << >>]]]]]

\* The roots are printed in the order of a hash table, of which this is one.
FinishObjects(w) ==
  LET roots == SelectSeq(w.nodes, LAMBDA node : node.subject \in w.roots)
      object(i) == (IF w.comma \/ i > 1 THEN <<LdMark(",")>> ELSE << >>)
                   \o <<LdToken("object", NULL, <<Tree(w.nodes, roots[i])>>)>>
  IN  [w EXCEPT !.data = @ \o FlattenSeq([i \in DOMAIN roots |-> object(i)]),
                !.comma = @ \/ roots # << >>, !.nodes = << >>, !.roots = { }]

JsonLdHead(w) ==
  IF w.head THEN w
  ELSE [w EXCEPT !.data = Append(@, LdToken("context", w.namespaces, << >>)), !.head = TRUE]

CloseGraph(w) == IF w.graph = NULL THEN w ELSE [w EXCEPT !.data = Append(@, LdMark("]}"))]

ChangeGraph(w, g) ==
  LET closed == CloseGraph(FinishObjects(w))
      w1 == IF w.started THEN [closed EXCEPT !.data = Append(@, LdMark(","))] ELSE w
  IN  IF g = w.graph THEN w
      ELSE [w1 EXCEPT !.data = IF g = NULL THEN @ ELSE Append(@, LdToken("graph", g, << >>)),
                      !.graph = g, !.comma = FALSE]

\* The object of the subject is looked up, or made.
EnterSubject(w, s) ==
  LET w1 == IF Len(w.nodes) > MaxCachedResources THEN FinishObjects(w) ELSE w
      node == [subject |-> s.str, id |-> NodeId(w.namespaces, s.str, s.type), members |-> << >>]
      w2 == IF Known(w1, s.str) THEN w1
            ELSE [w1 EXCEPT !.nodes = Append(@, node), !.roots = @ \union {s.str}]
  IN  [w2 EXCEPT !.subject = s.str]

\* A root that is not the current object, and not the only root, moves into this one.
Embeds(w, s) == s \in w.roots \ {w.subject} /\ w.roots # {s}

ResourceValue(w, o) ==
  IF Embeds(w, o.str) THEN LdValue("link", o.str, "", "")
  ELSE LdValue("ref", NodeId(w.namespaces, o.str, o.type), "", "")

LiteralValue(o) ==
  CASE o.type = "datetime" -> LdValue("value", o.str, "", "datetime")
    [] o.type = "string" /\ o.lang # "" -> LdValue("value", o.str, o.lang, "string")
    [] o.type = "string" /\ o.lang = "" -> LdValue("plain", o.str, "", "string")
    [] o.type \in {"integer", "double", "boolean"} -> LdValue("number", o.str, "", o.type)

\* A value is appended; a single value that is there is not repeated.
AddMember(members, prop, value) ==
  LET m == SelectInSeq(members, LAMBDA member : member.prop = prop)
  IN  IF m = 0 THEN Append(members, [prop |-> prop, values |-> <<value>>])
      ELSE IF members[m].values = <<value>> THEN members
      ELSE [members EXCEPT ![m].values = Append(@, value)]

\* A type becomes a "@type"; a property without a compact name is dropped.
JsonLdRow(w, row) ==
  LET g == Column(row, 4).str
      changed == g # w.graph \/ row[1].str # w.subject
      w1 == ChangeGraph(w, g)
      w2 == IF changed THEN EnterSubject(w1, row[1]) ELSE w1
      type == row[2].str = RdfType
      prop == IF type THEN <<"@type">> ELSE CompressUri(w.namespaces, row[2].str)
      resource == ~type /\ row[3].type \in {"uri", "bnode"}
      value == IF type THEN LdValue("plain", CompressUri(w.namespaces, row[3].str), "", "string")
               ELSE IF resource THEN ResourceValue(w2, row[3]) ELSE LiteralValue(row[3])
      w3 == [w2 EXCEPT !.started = TRUE, !.check = @ \/ (w.started /\ row[1].str # w.subject),
                       !.roots = IF resource /\ Embeds(w2, row[3].str) THEN @ \ {row[3].str} ELSE @]
  IN  IF prop = NULL THEN w3
      ELSE [w3 EXCEPT !.nodes[NodeOf(w2, w2.subject)].members = AddMember(@, prop, value)]

JsonLdEnd(w) ==
  LET closed == CloseGraph(FinishObjects(w))
  IN  [closed EXCEPT !.data = Append(@, LdMark("end")), !.finished = TRUE]

-----------------------------------------------------------------------------
(* The deserializer: the document is parsed as a whole. *)

JsonLdComplete(tokens) == tokens # << >> /\ Last(tokens).k = "end"

\* The context adds the prefixes that are not known.
LoadContext(known, context) ==
  known \o SelectSeq(context, LAMBDA n : ~HasPrefix(known, n.prefix))

Predicate(namespaces, prop) == IF prop = <<"@type">> THEN RdfType ELSE ExpandUri(namespaces, prop)

\* A string is expanded; an object with a value is not.
ValueOf(namespaces, value) ==
  IF value.k = "value" THEN [type |-> value.type, str |-> value.s, lang |-> value.lang]
  ELSE IF value.k = "plain" THEN Value("string", ExpandUri(namespaces, value.s))
  ELSE Value(value.type, value.s)

ResourceColumn(s) == Value(IF IsBlank(s) THEN "bnode" ELSE "uri", s)
GraphColumn(g) == IF g = NULL THEN Unbound ELSE Value("uri", g)

\* An object gives its rows; an object inside another gives its own first and then the row
\* of the parent, whose object is a string.
RECURSIVE ObjectRows(_, _, _)
ObjectRows(namespaces, tree, g) ==
  LET row(prop, object) == <<Quad(ResourceColumn(ExpandUri(namespaces, tree.id)),
                                  Predicate(namespaces, prop), object, GraphColumn(g))>>
      nested(prop, inner) == ObjectRows(namespaces, inner, g)
                             \o row(prop, Value("string", ExpandUri(namespaces, inner.id)))
      rows(prop, v) ==
        CASE v.value.k = "link" -> nested(prop, v.tree[1])
          [] v.value.k = "ref" -> row(prop, Value("string", ExpandUri(namespaces, v.value.s)))
          [] OTHER -> row(prop, ValueOf(namespaces, v.value))
  IN  FlattenSeq([m \in DOMAIN tree.members |->
        FlattenSeq([v \in DOMAIN tree.members[m].values |->
          rows(tree.members[m].prop, tree.members[m].values[v])])])

\* The graph an object is in: the last "@graph" before it, also when that has ended.
GraphAt(tokens, i) ==
  LET starts == {j \in 1..i : tokens[j].k = "graph"}
  IN  IF starts = { } THEN NULL ELSE tokens[Max(starts)].s

JsonLdRows(tokens) ==
  LET namespaces == LoadContext(<< >>, tokens[1].s)
  IN  FlattenSeq([i \in DOMAIN tokens |->
        IF tokens[i].k = "object" THEN ObjectRows(namespaces, tokens[i].tree[1], GraphAt(tokens, i))
        ELSE << >>])
=============================================================================
