------------------------------- MODULE MCSparql ------------------------------
(***************************************************************************)
(* A small ontology, updates in sequences that exercise every operation,   *)
(* and queries over the data they leave.                                   *)
(***************************************************************************)
EXTENDS Sparql

MCUri == {"u1", "u2", "u3", "nil"}
MCLiteral == {"a", "b"}

\* R > A > B and R > L; "one" and "rel" are links, "num" a number, "text" a fulltext
\* string with a domain index in B, "tag" a multi-valued string, lists are of class L.
MCClassOrder == <<"R", "A", "B", "L">>
MCSuperClasses == [c \in {"R", "A", "B", "L"} |->
  CASE c = "R" -> << >> [] c \in {"A", "L"} -> <<"R">> [] c = "B" -> <<"A">>]
MCPropOrder == <<"one", "rel", "num", "text", "tag", "first", "rest">>
MCProp == {"one", "rel", "num", "text", "tag", "first", "rest"}
MCSuperProps == [p \in MCProp |-> << >>]
MCDomain == [p \in MCProp |-> IF p \in {"first", "rest"} THEN "L" ELSE "A"]
MCMulti == {"rel", "tag"}
MCLinks == {"one", "rel", "first", "rest"}
MCFullText == {"text"}
MCNumeric == {"num"}
MCDomainIndexes == [p \in MCProp |-> IF p = "text" THEN {"B"} ELSE {}]
MCGraphs == {"main", "g1", "g2"}

-----------------------------------------------------------------------------
u1 == Iri("u1")
u2 == Iri("u2")
u3 == Iri("u3")
P(p) == <<"prop", p>>
About1(subject, properties) == [s |-> subject, pl |-> properties]
Objects(path, objects) == [verb |-> path, objects |-> objects]
T(subject, path, object) == About1(subject, <<Objects(path, <<object>>)>>)
Plain(subject, path, object) == [s |-> subject, p |-> path, o |-> object]
Is(subject, class) == T(subject, P("rdf:type"), Iri(class))

Q(subject, p, object) == T(subject, P(p), object)
In(graph, ts) == [graph |-> graph, ts |-> ts]
Triples(ts) == <<In(None, ts)>>

InsertData(quads) == [k |-> "insert data", quads |-> quads]
DeleteData(quads) == [k |-> "delete data", quads |-> quads]
DeleteWhere(quads) == [k |-> "delete where", quads |-> quads]
Removing(quads) == [silent |-> FALSE, quads |-> quads]
Adding(quads) == [silent |-> FALSE, replace |-> FALSE, into |-> None, quads |-> quads]
Modify(delete, insert, where) ==
  [k |-> "modify", with |-> None, delete |-> delete, insert |-> insert, using |-> << >>, where |-> where]
Load(file, into) == [k |-> "load", silent |-> FALSE, file |-> file, into |-> into]
Create(g) == [k |-> "create", silent |-> FALSE, graph |-> g]
Clear(k, ref) == [k |-> k, silent |-> FALSE, ref |-> ref]
Dump(k, from, to) == [k |-> k, silent |-> FALSE, from |-> from, to |-> to]
Block(ts) == [k |-> "triples", ts |-> ts]
Graph(name, g) == [k |-> "graph", name |-> name, g |-> g]
Filter(e) == [k |-> "filter", e |-> e]
Request1(ops) == [constraints |-> << >>, ops |-> ops]

vs == Var("s")
vo == Var("o")
vx == Var("x")
vg == Var("g")

MCFiles == [f \in {"file", "missing"} |->
  IF f = "missing" THEN None
  ELSE <<Plain(u3, P("rdf:type"), Iri("A")), Plain(u3, P("num"), Num(3)), Plain(u3, P("rel"), u1)>>]

MCUpdates == [
  fill |-> Request1(<<
    InsertData(Triples(<<Is(u1, "B"), Q(u1, "num", Num(1)), Q(u1, "text", Str("a")),
                         Q(u1, "tag", Str("a")), Q(u1, "tag", Str("b")), Q(u1, "rel", u2)>>)),
    InsertData(<<In(Iri("g1"), <<Is(u2, "A"), Q(u2, "num", Num(2)), Q(u2, "text", Str("b")),
                                 Q(u2, "one", u1), Q(u2, "rel", u1)>>)>>)>>),
  more |-> Request1(<<
    InsertData(<<In(Iri("g2"), <<Is(u1, "A"), Q(u1, "one", u2), Q(u1, "num", Num(2))>>),
                 In(Iri("g1"), <<Is(u1, "A"), Q(u1, "tag", Str("a"))>>)>>)>>),
  twice |-> Request1(<<
    Modify(Removing(Triples(<<Q(vs, "num", vo)>>)), Adding(Triples(<<Q(vs, "num", Var("n"))>>)),
           <<Block(<<T(vs, P("num"), vo)>>),
             [k |-> "bind", e |-> <<"+", vo, vo>>, v |-> "n"],
             Filter(<<"<", vo, Num(2)>>)>>)>>),
  mark |-> Request1(<<
    Modify(None, Adding(<<In(vg, <<Q(vs, "tag", Str("b"))>>)>>),
           <<Graph(vg, <<Block(<<Is(vs, "A")>>)>>)>>)>>),
  follow |-> Request1(<<
    Modify(None, [Adding(<<In(None, <<Is(vx, "A"), Q(vx, "tag", vo)>>)>>) EXCEPT !.into = "g2"],
           <<Block(<<T(vs, P("text"), vo), T(vs, P("rel"), vx)>>)>>)>>),
  replace |-> Request1(<<
    Modify(None, [Adding(Triples(<<Q(u1, "text", Str("b"))>>)) EXCEPT !.replace = TRUE], None)>>),
  unmake |-> Request1(<<DeleteWhere(Triples(<<Q(vs, "tag", vo), Q(vs, "rel", vx)>>)),
                        DeleteData(Triples(<<Is(u1, "B")>>))>>),
  load |-> Request1(<<Load("file", "g2")>>),
  nofile |-> Request1(<<InsertData(Triples(<<Is(u3, "A")>>)), Load("missing", None)>>),
  tryfile |-> Request1(<<[Load("missing", "g1") EXCEPT !.silent = TRUE]>>),
  create |-> Request1(<<Create("g2")>>),
  copy |-> Request1(<<Dump("copy", "g1", "g2")>>),
  move |-> Request1(<<Dump("move", "g1", None)>>),
  add |-> Request1(<<Dump("add", None, "g2")>>),
  clear |-> Request1(<<Clear("clear", <<"graph", "g1">>)>>),
  drop |-> Request1(<<Clear("drop", <<"graph", "g1">>)>>),
  named |-> Request1(<<Clear("clear", <<"named">>)>>),
  default |-> Request1(<<Clear("drop", <<"default">>)>>),
  all |-> Request1(<<Clear("drop", <<"all">>)>>),
  with |-> Request1(<<
    [Modify(Removing(Triples(<<Q(vs, "rel", vo)>>)), Adding(Triples(<<Q(vs, "tag", Str("b"))>>)),
            <<Block(<<T(vs, P("rel"), vo)>>)>>) EXCEPT !.with = "g1"]>>),
  using |-> Request1(<<
    [Modify(None, Adding(Triples(<<Q(u1, "tag", vo)>>)),
            <<Block(<<T(vs, P("text"), vo)>>)>>) EXCEPT !.using = <<[graph |-> "g1", named |-> FALSE]>>]>>),
  nodes |-> Request1(<<
    InsertData(Triples(<<
      About1(u3, <<Objects(P("rdf:type"), <<Iri("A")>>),
                   Objects(P("rel"), << <<"[]", <<Objects(P("rdf:type"), <<Iri("A")>>), Objects(P("num"), <<Num(1)>>)>> >>,
                                        <<"label", "l">> >>)>>),
      Is(<<"label", "l">>, "A")>>)),
    InsertData(Triples(<<Is(<<"anon">>, "B"), Q(u3, "one", <<"()", <<u1, u2>> >>)>>))>>),
  label |-> Request1(<<InsertData(Triples(<<Q(<<"label", "l">>, "tag", Str("a"))>>))>>),
  kept |-> [Request1(<<Create("g2"), Clear("drop", <<"named">>)>>) EXCEPT !.constraints = <<{"main", "g2"}>>],
  conflict |-> Request1(<<InsertData(Triples(<<Q(u1, "text", Str("b"))>>))>>)]

\* Batches of statements, one transaction each; a statement of an earlier batch may
\* be executed again after the graphs have changed.
MCScripts == {
  << <<"fill">>, <<"twice", "mark">>, <<"create">>, <<"more", "mark">>, <<"drop">>, <<"mark">> >>,
  << <<"fill">>, <<"nodes", "label">>, <<"label">> >>,
  << <<"fill">>, <<"follow">>, <<"unmake">>, <<"load">>, <<"copy">> >>,
  << <<"fill">>, <<"nofile">>, <<"replace", "tryfile">>, <<"using">>, <<"move">>, <<"conflict">> >>,
  << <<"fill", "add">>, <<"with">>, <<"kept">>, <<"clear">>, <<"more">>, <<"named">>, <<"default">>, <<"all">> >> }

-----------------------------------------------------------------------------
Item(e) == [e |-> e, as |-> None]
As(e, v) == [e |-> e, as |-> v]
Body(items, g) ==
  [distinct |-> FALSE, items |-> items, g |-> g, by |-> << >>, having |-> << >>, order |-> << >>,
   limit |-> None, offset |-> None, values |-> None]
Query(form, body) ==
  [form |-> form, constraints |-> << >>, services |-> << >>, from |-> << >>, named |-> << >>,
   body |-> body, template |-> << >>, resources |-> << >>]
Select1(vars, g) == Query("select", Body([i \in DOMAIN vars |-> Item(Var(vars[i]))], g))
Distinctly(q) == [q EXCEPT !.body.distinct = TRUE]
Optional(g) == [k |-> "optional", g |-> g]
Minus(g) == [k |-> "minus", g |-> g]
Union(alts) == [k |-> "group", alts |-> alts]
Values(vars, rows) == [k |-> "values", vars |-> vars, rows |-> rows]
Sub(q) == [k |-> "sub", q |-> q]
Typed == Block(<<Is(vs, "A")>>)

MCSelects == [
  all       |-> Select1(<<"s", "p", "o">>, <<Block(<<T(vs, Var("p"), vo)>>)>>),
  columns   |-> Select1(<<"s", "o", "x">>, <<Block(<<Is(vs, "B"), T(vs, P("text"), vo), T(vs, P("num"), vx)>>)>>),
  path      |-> Select1(<<"s", "o">>, <<Block(<<T(vs, <<"seq", <<P("rel"), P("num")>> >>, vo)>>)>>),
  inverse   |-> Distinctly(Select1(<<"s", "o">>,
                  <<Block(<<T(vs, <<"alt", <<P("one"), <<"inv", P("rel")>> >> >>, vo)>>)>>)),
  closure   |-> Distinctly(Select1(<<"s", "o">>, <<Typed, Block(<<T(vs, <<"plus", P("rel")>>, vo)>>)>>)),
  star      |-> Distinctly(Select1(<<"o">>, <<Block(<<T(u1, <<"star", P("rel")>>, vo), Is(vo, "A")>>)>>)),
  negated   |-> Select1(<<"s", "o">>, <<Typed, Block(<<T(vs, <<"negated", << <<"rdf:type", FALSE>> >> >>, vo)>>)>>),
  paths     |-> Distinctly(Select1(<<"s", "o">>, <<Typed, Block(<<
                  T(vs, <<"alt", << <<"opt", P("one")>>, <<"seq", <<P("rel"), P("rel"), P("num")>> >>, P("num")>> >>, vo)>>)>>)),
  neither   |-> Distinctly(Select1(<<"s", "o">>, <<Typed, Block(<<
                  T(vs, <<"negated", << <<"rel", FALSE>>, <<"rdf:type", FALSE>>, <<"num", TRUE>>, <<"rel", TRUE>> >> >>, vo)>>)>>)),
  list      |-> Select1(<<"s", "o", "x">>, <<Block(<<T(vs, P("one"), <<"()", <<vo, vx>> >>)>>)>>),
  blanks    |-> Select1(<<"s", "o">>, <<Block(<<
                  About1(vs, <<Objects(P("rel"), << <<"[]", <<Objects(P("num"), <<vo>>)>> >>, <<"label", "n">> >>),
                               Objects(P("rdf:type"), <<Iri("A")>>)>>),
                  Is(<<"label", "n">>, "B")>>)>>),
  texts     |-> Query("select", Body(<<Item(vs), As(<<"concat", vo, <<"str()", vx>> >>, "t"),
                                       As(<<"*", vx, <<"negative", <<"cast", "integer", vx>> >> >>, "m")>>,
                  <<Block(<<T(vs, P("text"), vo), T(vs, P("num"), vx)>>),
                    Filter(<<"and", <<"isliteral", vo>>, <<"in", vx, Num(1), Num(4)>> >>)>>)),
  graphs    |-> Select1(<<"g", "s">>, <<Graph(vg, <<Block(<<Is(vs, "A"), T(vs, P("num"), vo)>>)>>)>>),
  onegraph  |-> Select1(<<"s", "o">>, <<Graph(Iri("g1"), <<Block(<<T(vs, P("rel"), vo)>>)>>)>>),
  allowed   |-> [Select1(<<"s", "o">>, <<Block(<<T(vs, P("num"), vo)>>)>>)
                   EXCEPT !.constraints = <<{"main", "g2"}>>],
  forbidden |-> [Select1(<<"s", "o">>, <<Block(<<T(vs, P("num"), vo)>>)>>)
                   EXCEPT !.constraints = <<{"g1", "g2"}>>],
  allowedp  |-> [Select1(<<"s", "p", "g">>, <<Graph(vg, <<Block(<<T(vs, Var("p"), vo)>>)>>)>>)
                   EXCEPT !.constraints = <<{"main", "g2"}>>],
  from      |-> [Select1(<<"s", "o">>, <<Block(<<T(vs, P("num"), vo)>>)>>)
                   EXCEPT !.from = <<"g1">>, !.named = <<"main">>],
  fromnamed |-> [Select1(<<"s", "g">>, <<Graph(vg, <<Block(<<Is(vs, "A")>>)>>)>>)
                   EXCEPT !.named = <<"main", "g1">>],
  optional  |-> Select1(<<"s", "o">>, <<Typed, Optional(<<Block(<<T(vs, P("tag"), vo)>>)>>)>>),
  minus     |-> Select1(<<"s">>, <<Typed, Minus(<<Block(<<T(vs, P("one"), vo)>>)>>)>>),
  union     |-> Select1(<<"s", "o", "x">>,
                  <<Union(<< <<Block(<<T(vs, P("num"), vo)>>)>>, <<Block(<<T(vs, P("text"), vx)>>)>> >>)>>),
  filter    |-> Select1(<<"s">>, <<Typed, Optional(<<Block(<<T(vs, P("num"), vo)>>)>>),
                  Filter(<<"or", <<"not", <<"bound", vo>> >>, <<"<", vo, Num(2)>> >>)>>),
  exists    |-> Select1(<<"s">>, <<Typed, Filter(<<"not", <<"exists", <<Block(<<T(vs, P("rel"), vx)>>)>> >> >>)>>),
  bind      |-> Select1(<<"s", "n">>, <<Block(<<T(vs, P("num"), vo)>>),
                  [k |-> "bind", e |-> <<"if", <<"=", vo, Num(1)>>, Str("x"), Str("y")>>, v |-> "n"]>>),
  values    |-> Select1(<<"s", "o">>, <<Typed, Values(<<"s", "o">>, << <<u1, Num(1)>>, <<u2, Num(2)>>, <<u2, Num(3)>> >>)>>),
  last      |-> [Select1(<<"s">>, <<Typed>>) EXCEPT !.body.values = [vars |-> <<"s">>, rows |-> << <<u1>> >>]],
  service   |-> [Select1(<<"s", "o">>, <<Typed, [k |-> "service", silent |-> FALSE, name |-> "svc",
                  vars |-> {"s", "o"}, rows |-> {[v \in {"s", "o"} |-> IF v = "s" THEN u1 ELSE Str("z")]}]>>)
                   EXCEPT !.services = <<{"svc"}>>],
  fulltext  |-> Select1(<<"s">>, <<Block(<<T(vs, P("fts:match"), Str("a"))>>)>>),
  function  |-> Query("select", Body(<<Item(vs), As(<<"property", "text", vs>>, "t")>>, <<Typed>>)),
  sub       |-> Select1(<<"s", "n">>, <<Typed, Sub([Body(<<Item(vs), As(<<"count", vo>>, "n")>>,
                  <<Block(<<T(vs, P("tag"), vo)>>)>>) EXCEPT !.by = <<Item(vs)>>])>>),
  count     |-> Query("select", [Body(<<Item(vs), As(<<"count", vo>>, "n"), As(<<"max", vx>>, "m")>>,
                  <<Typed, Optional(<<Block(<<T(vs, P("rel"), vo), T(vs, P("num"), vx)>>)>>)>>) EXCEPT !.by = <<Item(vs)>>]),
  having    |-> Query("select", [Body(<<Item(vs)>>, <<Block(<<T(vs, P("tag"), vo)>>)>>)
                  EXCEPT !.by = <<Item(vs)>>, !.having = << <<"<", Num(1), <<"count distinct", vo>> >> >>]),
  order     |-> Query("select", [Body(<<Item(vs), Item(vo)>>, <<Block(<<T(vs, P("num"), vo)>>)>>)
                  EXCEPT !.order = <<[e |-> vo, desc |-> TRUE]>>, !.limit = 2, !.offset = 1]),
  star1     |-> Query("select", Body(None, <<Typed, Optional(<<Block(<<T(vs, P("num"), vo)>>)>>)>>)),
  ask       |-> Query("ask", Body(None, <<Graph(Iri("g2"), <<Typed>>)>>)),
  construct |-> [Query("construct", Body(None, <<Block(<<T(vs, P("rel"), vo)>>)>>))
                   EXCEPT !.template = <<Plain(vo, Iri("rel"), vs), Plain(vs, Iri("tag"), Str("z"))>>],
  describe  |-> [Query("describe", Body(None, <<Block(<<T(vs, P("one"), vo)>>)>>))
                   EXCEPT !.resources = <<vs, u3>>]]
=============================================================================
