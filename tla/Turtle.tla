-------------------------------- MODULE Turtle ------------------------------
(***************************************************************************)
(* Turtle and TriG: the serializers, tracker-serializer-turtle.c and       *)
(* tracker-serializer-trig.c, and their deserializer.  Text is a sequence  *)
(* of tokens; white space is a token where the amount of it makes a        *)
(* difference.                                                             *)
(***************************************************************************)
EXTENDS RdfTerms


\* A serializer: what it printed and nobody read, and the state of its cursor.  The
\* last quad is NULL before the first; closings counts the ends printed.
SerializerNew(namespaces) ==
  [namespaces |-> namespaces, data |-> << >>, head |-> FALSE, started |-> FALSE,
   finished |-> FALSE, last |-> NULL, open |-> FALSE, closings |-> 0]

Token(k, s) == [k |-> k, s |-> s]
Mark(m) == Token(m, NULL)
Space == Mark("blank")

\* The prefixes, in no particular order.
PrintTurtle(namespaces) ==
  FlattenSeq([i \in DOMAIN namespaces |->
    <<Mark("@prefix"), Token("label", <<namespaces[i].prefix>>), Token("iri", namespaces[i].uri), Mark(".")>>])

\* A blank node keeps its label, or gets one out of its URN.
Label(s) == IF IsBlank(s) THEN s ELSE <<Blank>> \o s

PrintValue(namespaces, type, str) ==
  CASE type = "uri" -> IF CompressUri(namespaces, str) # NULL
                       THEN Token("name", CompressUri(namespaces, str)) ELSE Token("iri", str)
    [] type = "bnode" -> Token("bnode", Label(str))
    [] type \in {"string", "datetime"} -> Token("text", str)
    [] type \in {"integer", "double"} -> Token("number", str)
    [] type = "boolean" -> Token("word", str)

\* Subjects and objects that are strings may be resources.
QuadFromCursor(row) ==
  LET subject == CASE row[1].type # "string" -> row[1].type
                   [] Starts(row[1].str, DatabaseBlank) -> "bnode"
                   [] OTHER -> "uri"
      object == IF row[3].type = "string" /\ Starts(row[3].str, DatabaseBlank) THEN "bnode" ELSE row[3].type
  IN  [row EXCEPT ![1].type = subject, ![3].type = object]

\* (Mutant: the subject is compared before the graph.)
QuadBreakSubjectFirst(last, cur) ==
  IF last = NULL THEN 0
  ELSE IF last[1].str # cur[1].str THEN 2
  ELSE IF Column(last, 4).str # Column(cur, 4).str THEN 1
  ELSE IF last[2].str # cur[2].str THEN 3 ELSE 4

\* Where cur departs from last: 1 the graph, 2 the subject, 3 the predicate, 4 the object.
QuadBreak(last, cur) ==
  IF last = NULL THEN 0
  ELSE IF Column(last, 4).str # Column(cur, 4).str THEN 1
  ELSE IF last[1].str # cur[1].str THEN 2
  ELSE IF last[2].str # cur[2].str THEN 3 ELSE 4

TripleBreak(last, cur) ==
  IF last = NULL THEN 0
  ELSE IF last[1].str # cur[1].str THEN 2
  ELSE IF last[2].str # cur[2].str THEN 3 ELSE 4

Separator(break, at, mark) == IF break = at THEN mark ELSE << >>
LangTag(v) == IF v.lang = "" THEN << >> ELSE <<Token("lang", v.lang)>>

\* A statement after a break: what both formats print of it.
Statement(namespaces, break, q) ==
     Separator(break, 2, <<Mark(".")>>)
  \o (IF break <= 2 THEN <<PrintValue(namespaces, q[1].type, q[1].str)>> ELSE << >>)
  \o Separator(break, 3, <<Mark(";")>>)
  \o (IF break <= 3 THEN <<PrintValue(namespaces, "uri", q[2].str)>> ELSE << >>)
  \o Separator(break, 4, <<Mark(",")>>)
  \o <<PrintValue(namespaces, q[3].type, q[3].str)>> \o LangTag(q[3])

GraphStart(namespaces, g) ==
  IF Bound(g) THEN <<Mark("graph"), PrintValue(namespaces, "uri", g.str)>> ELSE << >>

Printed(w, q, tokens) ==
  [w EXCEPT !.data = @ \o tokens, !.started = TRUE, !.open = TRUE, !.last = q]

\* A row that is no statement: Turtle refuses one that lacks a column, TriG one that
\* lacks all three.
Lacks(row, i) == Column(row, i).str = NULL
TurtleRefuses(row) == \E i \in 1 .. 3 : Lacks(row, i)
TrigRefuses(row) == \A i \in 1 .. 3 : Lacks(row, i)

TrigRow(w, row) ==
  LET q == QuadFromCursor(row)
      break == QuadBreak(w.last, q)
      opening == Separator(break, 1, <<Mark("."), Mark("}")>>)
                 \o GraphStart(w.namespaces, Column(q, 4)) \o <<Mark("{")>>
  IN  Printed(w, q, (IF break <= 1 THEN opening ELSE << >>) \o Statement(w.namespaces, break, q))

TurtleRow(w, row) ==
  LET q == QuadFromCursor(row)
  IN  Printed(w, q, Statement(w.namespaces, TripleBreak(w.last, q), q))

TurtleHead(w) ==
  IF w.head THEN w ELSE [w EXCEPT !.data = @ \o PrintTurtle(w.namespaces), !.head = TRUE]

\* The end of a call with the cursor at its end.  TriG prints the end once; Turtle prints
\* it in every call.
TrigClose(w) ==
  IF w.finished /\ w.open
  THEN [w EXCEPT !.data = @ \o <<Space, Mark("."), Space, Mark("}"), Space>>,
                 !.open = FALSE, !.closings = @ + 1]
  ELSE w

TurtleClose(w) ==
  IF w.finished /\ w.open
  THEN [w EXCEPT !.data = @ \o <<Space, Mark("."), Space>>, !.closings = @ + 1]
  ELSE w

-----------------------------------------------------------------------------
(***************************************************************************)
(* The Turtle and TriG deserializer, tracker-deserializer-turtle.c: a      *)
(* parser over a buffer that is topped up before each step.  An operator   *)
(* here is a step in one of the states of the parser; it sets the verdict, *)
(* which is "more" while tracker_deserializer_turtle_iterate_next loops.   *)
(***************************************************************************)
TurtleReaderNew(trig, namespaces) ==
  [trig |-> trig, namespaces |-> namespaces, base |-> NULL, buffer |-> << >>,
   state |-> "initial", stack |-> << >>, verdict |-> "more", bnodes |-> 0, graph |-> NULL,
   subject |-> NULL, predicate |-> NULL, object |-> NULL, isUri |-> FALSE, lang |-> ""]

RECURSIVE AdvanceWhitespaceAndComments(_)
AdvanceWhitespaceAndComments(buffer) ==
  IF buffer # << >> /\ buffer[1].k \in {"blank", "comment"}
  THEN AdvanceWhitespaceAndComments(Tail(buffer)) ELSE buffer

Ahead(buffer, k) == buffer # << >> /\ buffer[1].k = k
After(buffer) == AdvanceWhitespaceAndComments(Tail(buffer))

ExpandPrefix(r, s) == ExpandUri(r.namespaces, s)
UnknownPrefix(r, s) == ExpandPrefix(r, s) = s
ExpandBase(r, s) == IF r.base # NULL /\ ~(s # NULL /\ s[1] \in Schemes) THEN r.base \o s ELSE s

GenerateUuid(r) == <<Blank, "generated", r.bnodes>>

Fail(r) == [r EXCEPT !.verdict = "error"]
Ends(r) == [r EXCEPT !.verdict = "end"]

\* A prefixed name is read as one token only if its local part is one segment.
IsName(token) == token.k = "name" /\ Len(token.s) <= 2
IsTerm(token) == token.k = "iri" \/ IsName(token)
Resolvable(r, token) == token.k = "iri" \/ ~UnknownPrefix(r, token.s)
TermUri(r, token) == IF token.k = "iri" THEN ExpandBase(r, token.s) ELSE ExpandPrefix(r, token.s)

PushStack(r) ==
  [r EXCEPT !.stack = Append(@, [subject |-> r.subject, predicate |-> r.predicate, state |-> r.state]),
            !.subject = GenerateUuid(r), !.bnodes = @ + 1, !.state = "predicate",
            !.buffer = Tail(@)]

\* "]" makes the blank node the object, or the subject, of the statement around it.
PopStack(r) ==
  LET top == Last(r.stack)
      r1 == [r EXCEPT !.stack = Front(@), !.predicate = top.predicate, !.buffer = Tail(@)]
  IN  IF top.state = "object"
      THEN [r1 EXCEPT !.subject = top.subject, !.object = r.subject, !.isUri = TRUE, !.lang = "",
                      !.state = "step", !.verdict = "row"]
      ELSE [r1 EXCEPT !.object = NULL, !.state = "predicate"]

HandlePrefix(r) ==
  LET name == After(r.buffer)
      uri == IF Ahead(name, "label") THEN After(name) ELSE << >>
      dot == IF Ahead(uri, "iri") THEN After(uri) ELSE << >>
  IN  IF ~Ahead(dot, ".") THEN Fail(r)
      ELSE [r EXCEPT !.namespaces = AddPrefix(@, name[1].s[1], ExpandBase(r, uri[1].s)),
                     !.buffer = Tail(dot)]

HandleBase(r) ==
  LET uri == After(r.buffer)
      dot == IF Ahead(uri, "iri") THEN After(uri) ELSE << >>
  IN  IF ~Ahead(dot, ".") THEN Fail(r) ELSE [r EXCEPT !.base = uri[1].s, !.buffer = Tail(dot)]

InInitial(r) ==
  IF Ahead(r.buffer, "@prefix") THEN HandlePrefix(r)
  ELSE IF Ahead(r.buffer, "@base") THEN HandleBase(r)
  ELSE [r EXCEPT !.state = IF r.trig THEN "graph" ELSE "subject"]

InGraph(r) ==
  LET name == IF Ahead(r.buffer, "graph") THEN After(r.buffer) ELSE << >>
      named == Ahead(r.buffer, "graph")
      known == name # << >> /\ IsTerm(name[1]) /\ Resolvable(r, name[1])
      brace == IF named THEN (IF known THEN After(name) ELSE << >>) ELSE r.buffer
  IN  IF r.buffer = << >> THEN Ends(r)
      ELSE IF ~Ahead(brace, "{") THEN Fail(r)
      ELSE [r EXCEPT !.graph = IF named THEN TermUri(r, name[1]) ELSE NULL,
                     !.state = "subject", !.buffer = Tail(brace)]

InSubject(r) ==
  IF r.buffer = << >> THEN Ends(r)
  ELSE LET token == r.buffer[1]
           next(s) == [r EXCEPT !.subject = s, !.state = "predicate", !.buffer = Tail(@)]
       IN  CASE token.k = "[" -> PushStack([r EXCEPT !.subject = NULL])
             [] IsTerm(token) -> IF Resolvable(r, token) THEN next(TermUri(r, token)) ELSE Fail(r)
             [] token.k = "bnode" -> next(token.s)
             [] OTHER -> Fail(r)

InPredicate(r) ==
  IF r.buffer = << >> THEN Fail(r)
  ELSE LET token == r.buffer[1]
           next(p) == [r EXCEPT !.predicate = p, !.state = "object", !.buffer = Tail(@)]
       IN  CASE token.k = "a" -> next(RdfType)
             [] IsTerm(token) -> IF Resolvable(r, token) THEN next(TermUri(r, token)) ELSE Fail(r)
             [] OTHER -> Fail(r)

\* A type cast is read and ignored.
HandleTypeCast(buffer) ==
  IF Ahead(buffer, "^^") THEN IF Len(buffer) > 1 /\ IsTerm(buffer[2]) THEN SubSeq(buffer, 3, Len(buffer)) ELSE NULL
  ELSE buffer

\* A row is complete with its object, and the iteration stops.
InObject(r) ==
  LET token == r.buffer[1]
      row(o, uri, lang, rest) ==
        [r EXCEPT !.object = o, !.isUri = uri, !.lang = lang, !.buffer = rest,
                  !.state = "step", !.verdict = "row"]
      rest == Tail(r.buffer)
      broken == Ahead(rest, "^^") /\ ~(Len(rest) > 1 /\ IsTerm(rest[2]))
  IN  IF r.buffer = << >> THEN Fail(r)
      ELSE CASE token.k = "[" -> PushStack(r)
             [] IsTerm(token) -> IF Resolvable(r, token) THEN row(TermUri(r, token), TRUE, "", rest) ELSE Fail(r)
             [] token.k = "bnode" -> row(token.s, TRUE, "", rest)
             [] token.k = "text" /\ Ahead(rest, "lang") -> row(token.s, FALSE, rest[1].s, Tail(rest))
             [] token.k = "text" /\ ~Ahead(rest, "lang") ->
                  IF broken THEN Fail(r) ELSE row(token.s, FALSE, "", HandleTypeCast(rest))
             [] token.k \in {"number", "word"} -> row(token.s, FALSE, "", rest)
             [] OTHER -> Fail(r)

\* Between statements: the end of a blank node, or "," or ";" or "." or "}", of which the
\* last three are looked for in this order, so that a dot may follow a semicolon.
InStep(r) ==
  IF r.stack # << >> /\ Ahead(r.buffer, "]") THEN PopStack(r)
  ELSE IF Ahead(r.buffer, ",") THEN [r EXCEPT !.state = "object", !.buffer = Tail(@)]
  ELSE LET semicolon == Ahead(r.buffer, ";")
           b1 == IF semicolon THEN After(r.buffer) ELSE r.buffer
           dot == Ahead(b1, ".")
           b2 == IF dot THEN After(b1) ELSE b1
           brace == r.trig /\ Ahead(b2, "}")
           b3 == IF brace THEN After(b2) ELSE b2
           state == IF brace THEN "initial"
                    ELSE IF dot THEN (IF r.trig THEN "subject" ELSE "initial")
                    ELSE "predicate"
       IN  IF semicolon \/ dot \/ brace THEN [r EXCEPT !.state = state, !.buffer = b3] ELSE Fail(r)

\* What the columns of the cursor give.
TurtleColumns(r) ==
  LET resource(s) == Value(IF IsBlank(s) THEN "bnode" ELSE "uri", s)
      object == IF r.isUri THEN resource(r.object)
                ELSE [type |-> "string", str |-> r.object, lang |-> r.lang]
      triple == <<resource(r.subject), Value("uri", r.predicate), object>>
  IN  IF ~r.trig THEN triple
      ELSE Append(triple, IF r.graph = NULL THEN Unbound ELSE Value("uri", r.graph))
=============================================================================
