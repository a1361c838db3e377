---------------------------- MODULE ResultFormats ---------------------------
(***************************************************************************)
(* The JSON and XML formats of query results: tracker-serializer-json.c,   *)
(* tracker-serializer-xml.c and their deserializers.  A JSON document is a *)
(* sequence of its head, its rows, the commas between them and its end; an *)
(* XML document is the sequence of nodes that the parser reports.          *)
(***************************************************************************)
EXTENDS Turtle

Text == {"string", "integer", "boolean", "double", "datetime"}
Markup == "<&>"

\* The names of the columns; a column without a name gets one.
Variables(vars) == [i \in DOMAIN vars |-> IF vars[i] = NULL THEN <<"var", i>> ELSE vars[i]]

\* What both formats write of a value that is bound, with the name of its column.
CellType(v) ==
  CASE v.type = "uri" -> "uri" [] v.type = "bnode" -> "bnode" [] v.type \in Text -> "literal"
CellDatatype(v) ==
  IF v.lang # "" THEN <<"rdf", "langString">>
  ELSE IF v.type \notin Text THEN NULL
  ELSE <<"xsd", IF v.type = "datetime" THEN "dateTime" ELSE v.type>>
Cell(var, v) ==
  [var |-> var, type |-> CellType(v), datatype |-> CellDatatype(v), lang |-> v.lang, value |-> v.str]

BoundColumns(row) == SelectSeq([i \in DOMAIN row |-> i], LAMBDA i : Bound(row[i]))
Cells(vars, row) ==
  LET bound == BoundColumns(row)
  IN  [k \in DOMAIN bound |-> Cell(vars[bound[k]], row[bound[k]])]

\* What both deserializers make of a type and a datatype.
ColumnType(type, datatype) ==
  CASE type # "literal" -> type
    [] type = "literal" /\ ~Starts(datatype, "xsd") -> "string"
    [] type = "literal" /\ Starts(datatype, "xsd") ->
         CASE datatype[2] \in {"byte", "int", "integer", "long"} -> "integer"
           [] datatype[2] \in {"decimal", "double"} -> "double"
           [] datatype[2] \in {"date", "dateTime"} -> "datetime"
           [] datatype[2] = "boolean" -> "boolean"
           [] OTHER -> "string"

-----------------------------------------------------------------------------
(* JSON *)

JsonToken(k, vars, cells) == [k |-> k, vars |-> vars, cells |-> cells]
JsonHead(w, vars) ==
  IF w.head THEN w
  ELSE [w EXCEPT !.data = @ \o <<JsonToken("head", Variables(vars), { })>>, !.head = TRUE]

JsonRow(w, vars, row) ==
  [w EXCEPT !.data = @ \o (IF w.started THEN <<JsonToken(",", NULL, { })>> ELSE << >>)
                       \o <<JsonToken("row", NULL, Range(Cells(Variables(vars), row)))>>,
            !.started = TRUE]

JsonEnd(w) == [w EXCEPT !.data = Append(@, JsonToken("end", NULL, { })), !.finished = TRUE]

\* The document is parsed as a whole when the deserializer is constructed.
JsonComplete(tokens) == tokens # << >> /\ Last(tokens).k = "end"
JsonResults(tokens) == SelectSeq(tokens, LAMBDA t : t.k = "row")

\* A row: a variable the object has no member for is unbound.
JsonColumns(tokens, idx) ==
  LET vars == tokens[1].vars
      cells == JsonResults(tokens)[idx].cells
      column(var) == CHOOSE c \in cells : c.var = var
  IN  [i \in DOMAIN vars |->
        IF \E c \in cells : c.var = vars[i]
        THEN [type |-> ColumnType(column(vars[i]).type, column(vars[i]).datatype),
              str |-> column(vars[i]).value, lang |-> column(vars[i]).lang]
        ELSE Unbound]

-----------------------------------------------------------------------------
(* XML *)

XmlNode(n, name, cell) == [n |-> n, name |-> name, cell |-> cell]
NoCell == Cell(NULL, Value("uri", NULL))
Start(name, cell) == XmlNode("start", name, cell)
End(name) == XmlNode("end", name, NoCell)

\* An element in which nothing is written is closed at once, and has no end.
Element(name, content) ==
  IF content = << >> THEN <<Start(name, NoCell)>>
  ELSE <<Start(name, NoCell)>> \o content \o <<End(name)>>

XmlHead(w, vars) ==
  LET variables == [i \in DOMAIN vars |-> Start("variable", [NoCell EXCEPT !.var = Variables(vars)[i]])]
  IN  IF w.head THEN w
      ELSE [w EXCEPT !.data = @ \o <<Start("sparql", NoCell)>> \o Element("head", variables)
                                \o <<Start("results", NoCell)>>,
                     !.head = TRUE]

\* Text is written raw; writing the empty text still opens the element.
RawText(str) ==
  IF str = NULL THEN << >>
  ELSE IF Markup \in Range(str) THEN <<XmlNode("broken", "", NoCell)>>
  ELSE <<XmlNode("text", "", [NoCell EXCEPT !.value = str])>>

XmlBinding(cell) ==
     <<Start("binding", cell), Start(cell.type, cell)>> \o RawText(cell.value)
  \o <<End(cell.type), End("binding")>>

XmlRow(w, vars, row) ==
  LET cells == Cells(Variables(vars), row)
      bindings == FlattenSeq([i \in DOMAIN cells |-> XmlBinding(cells[i])])
  IN  [w EXCEPT !.data = @ \o Element("result", bindings), !.started = TRUE]

\* Results without a row are an element without content.
XmlEnd(w) ==
  [w EXCEPT !.data = @ \o (IF w.started THEN <<End("results")>> ELSE << >>) \o <<End("sparql")>>,
            !.finished = TRUE]

XmlReaderNew ==
  [nodes |-> << >>, columns |-> NULL, started |-> FALSE, row |-> << >>, verdict |-> "more"]

\* The node that xmlTextReaderRead reports at place i, "broken" at the end of the input.
NodeAt(nodes, i) == IF i \in DOMAIN nodes THEN nodes[i] ELSE XmlNode("broken", "", NoCell)
InElement(node, name) == node.n = "start" /\ node.name = name

\* The head is parsed when the deserializer is constructed.
XmlParseHead(x) ==
  LET end == SelectInSeq(x.nodes, LAMBDA e : e.n = "end")
      inside == SubSeq(x.nodes, 3, end - 1)
  IN  IF ~InElement(NodeAt(x.nodes, 1), "sparql") \/ ~InElement(NodeAt(x.nodes, 2), "head")
         \/ \E i \in DOMAIN inside : ~InElement(inside[i], "variable") \/ end = 0
      THEN [x EXCEPT !.verdict = "error", !.columns = << >>]
      ELSE [x EXCEPT !.columns = [i \in DOMAIN inside |-> inside[i].cell.var],
                     !.nodes = SubSeq(@, end + 1, Len(@))]

\* A binding takes six nodes: its element, the element of its type, a node whose value is
\* taken whatever it is, and two ends.
IsBinding(nodes, i) ==
  /\ InElement(NodeAt(nodes, i), "binding")
  /\ NodeAt(nodes, i + 1).n = "start" /\ NodeAt(nodes, i + 1).name \in {"uri", "bnode", "literal"}
  /\ NodeAt(nodes, i + 2).n # "broken"
  /\ NodeAt(nodes, i + 3).n = "end" /\ NodeAt(nodes, i + 4).n = "end"
BindingSize == 5

BindingValue(nodes, i) ==
  LET cell == NodeAt(nodes, i + 1).cell
  IN  [var |-> NodeAt(nodes, i).cell.var, value |->
        [type |-> ColumnType(NodeAt(nodes, i + 1).name, cell.datatype),
         str |-> NodeAt(nodes, i + 2).cell.value, lang |-> cell.lang]]

\* A result begins at the head of the nodes: its bindings, up to an end.  It fails at a
\* binding that is not one, or for a variable the head does not have.
XmlParseResult(x) ==
  LET at(n) == 2 + BindingSize * n
      count == CHOOSE n \in 0..Len(x.nodes) :
                 /\ \A m \in 0..(n - 1) : IsBinding(x.nodes, at(m))
                 /\ ~IsBinding(x.nodes, at(n))
      values == {BindingValue(x.nodes, at(m)) : m \in 0..(count - 1)}
      row == [i \in DOMAIN x.columns |->
               IF \E v \in values : v.var = x.columns[i]
               THEN (CHOOSE v \in values : v.var = x.columns[i]).value ELSE Unbound]
  IN  IF ~InElement(NodeAt(x.nodes, 1), "result") \/ NodeAt(x.nodes, at(count)).n # "end"
         \/ \E v \in values : v.var \notin Range(x.columns)
      THEN [x EXCEPT !.verdict = "error"]
      ELSE [x EXCEPT !.row = row, !.verdict = "row", !.nodes = SubSeq(@, at(count) + 1, Len(@))]

\* One call of next.
XmlNext(x) ==
  LET first == NodeAt(x.nodes, 1)
      rows == IF x.started THEN x.nodes ELSE Tail(x.nodes)
  IN  IF first.n = "broken" \/ (~x.started /\ ~InElement(first, "results"))
         \/ NodeAt(rows, 1).n = "broken"
      THEN [x EXCEPT !.verdict = "error"]
      ELSE IF NodeAt(rows, 1).n = "end"
      THEN [x EXCEPT !.started = TRUE, !.nodes = Tail(rows), !.verdict = "end"]
      ELSE XmlParseResult([x EXCEPT !.started = TRUE, !.nodes = rows])
=============================================================================
