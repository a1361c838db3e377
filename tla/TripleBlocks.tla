---------------------------- MODULE TripleBlocks ----------------------------
(***************************************************************************)
(* Translation of triples blocks and property paths to SQL over the tables *)
(* of the graphs (_add_quad, _end_triples_block, _prepend_path_element of  *)
(* core/tracker-sparql.c).  A translation is modelled by the relation the  *)
(* SQL denotes on the data d, a set of quads <<graph, s, p, o>>.  The      *)
(* context x has the data and what the translator knows and remembers:     *)
(*   fts               the quads in the fulltext indexes                   *)
(*   graphs, allowed   graphs of the store; those CONSTRAINT GRAPH permits *)
(*   from, named       the FROM and FROM NAMED sets, or None               *)
(*   graph             the graph patterns apply to now, Anywhere if none   *)
(*   views             union_views: table -> graph set it was created for  *)
(*   types             variable -> type of its sample binding              *)
(*   outer             the row a subquery is evaluated for                 *)
(*   failed            a GError was raised                                 *)
(***************************************************************************)
EXTENDS Ontology, Integers, Sequences, FiniteSets, FiniteSetsExt, SequencesExt, Functions

CONSTANTS
  DefaultGraph,   \* nrl:DefaultGraph
  Numeric,        \* properties of an integer range
  None, Anywhere

-----------------------------------------------------------------------------
(***************************************************************************)
(* The part of SQL that queries are translated to.  A relation is a set of *)
(* columns and a bag of rows; a row maps each column to a value or NULL.   *)
(* Values are tagged: <<"iri", "u1">>, <<"str", "a">>, <<"int", 3>>,       *)
(* <<"bool", TRUE>>.                                                       *)
(***************************************************************************)
NULL == <<"null">>
Iri(u) == <<"iri", u>>
Str(s) == <<"str", s>>
Num(n) == <<"int", n>>
Bool(b) == <<"bool", b>>

-----------------------------------------------------------------------------
(***************************************************************************)
(* Bags, as functions from their members to numbers greater than zero.     *)
(***************************************************************************)
SetBag(S) == [x \in S |-> 1]
NoBag == SetBag({})
Times(B, x) == IF x \in DOMAIN B THEN B[x] ELSE 0
Listing(S) == FoldSet(LAMBDA x, s : Append(s, x), << >>, S)
SumOf(f) == FoldFunction(+, 0, f)
Size(B) == SumOf(B)

\* The bag of f(x) for the members x of B.
MapBag(f(_), B) ==
  [y \in {f(x) : x \in DOMAIN B} |->
     SumOf([x \in {z \in DOMAIN B : f(z) = y} |-> B[x]])]

BagPlus(B, C) ==
  [x \in DOMAIN B \cup DOMAIN C |-> Times(B, x) + Times(C, x)]

BagWhere(B, p(_)) == [x \in {y \in DOMAIN B : p(y)} |-> B[x]]

\* The bag of f(x, y) for the pairs of members with p(x, y).
PairBag(B, C, p(_, _), f(_, _)) ==
  LET pairs == {z \in (DOMAIN B) \X (DOMAIN C) : p(z[1], z[2])}
  IN  MapBag(LAMBDA z : f(z[1], z[2]), [z \in pairs |-> B[z[1]] * C[z[2]]])

-----------------------------------------------------------------------------
Relation(cols, rows) == [cols |-> cols, rows |-> rows]
NoRows(cols) == Relation(cols, NoBag)
OneRow == Relation({}, SetBag({[c \in {} |-> NULL]}))

SqlEq(a, b) == a # NULL /\ b # NULL /\ a = b

\* SELECT cols: columns the relation lacks are NULL.
Project(R, cols) ==
  Relation(cols, MapBag(LAMBDA r : [c \in cols |-> IF c \in R.cols THEN r[c] ELSE NULL],
                        R.rows))

Where(R, p(_)) == Relation(R.cols, BagWhere(R.rows, p))
Distinct(R) == Relation(R.cols, SetBag(DOMAIN R.rows))
UnionAll(R, S) == Relation(R.cols, BagPlus(R.rows, S.rows))
Except(R, S) == Relation(R.cols, SetBag(DOMAIN R.rows \ DOMAIN S.rows))

Extended(R, c, value(_)) ==
  LET with(r) == [d \in R.cols \cup {c} |-> IF d = c THEN value(r) ELSE r[d]]
  IN  Relation(R.cols \cup {c}, MapBag(with, R.rows))

Agree(R, S, r, s) == \A c \in R.cols \cap S.cols : SqlEq(r[c], s[c])
Glue(R, S, r, s) ==
  [c \in R.cols \cup S.cols |-> IF c \in R.cols THEN r[c] ELSE s[c]]

NaturalJoin(R, S) ==
  Relation(R.cols \cup S.cols,
           PairBag(R.rows, S.rows,
                   LAMBDA r, s : Agree(R, S, r, s), LAMBDA r, s : Glue(R, S, r, s)))

NaturalLeftJoin(R, S) ==
  LET alone(r) == \A s \in DOMAIN S.rows : ~Agree(R, S, r, s)
      rest == Relation(R.cols, BagWhere(R.rows, alone))
  IN  UnionAll(NaturalJoin(R, S), Project(rest, R.cols \cup S.cols))

-----------------------------------------------------------------------------
VarName(t) == t[2]
IsVar(t)   == t[1] = "var"
IsPath(t)  == t[1] \in {"prop", "inv", "seq", "alt", "star", "plus", "opt", "neg", "both"}
Var(v)     == <<"var", v>>

With(f, k, v) == [i \in DOMAIN f \cup {k} |-> IF i = k THEN v ELSE f[i]]
Default(f, k, v) == IF k \in DOMAIN f THEN f ELSE With(f, k, v)

-----------------------------------------------------------------------------
(***************************************************************************)
(* Graph sets.                                                             *)
(***************************************************************************)
\* Mutant: FROM NAMED is not looked at.
GraphsInAnyNamed(x, set) ==
  {g \in x.graphs \cap x.allowed :
     CASE set = "default" -> x.from # None => g \in x.from
       [] set = "named"   -> g # DefaultGraph}

\* tracker_sparql_get_graphs
GraphsIn(x, set) ==
  {g \in x.graphs \cap x.allowed :
     CASE set = "default" -> x.from # None => g \in x.from
       [] set = "named"   -> IF x.named # None THEN g \in x.named ELSE g # DefaultGraph}

\* The set a pattern reads from: the default graph outside GRAPH.
GraphSet(x) == IF x.graph = Anywhere THEN "default" ELSE "named"

FixedGraph(x) == x.graph # Anywhere /\ ~IsVar(x.graph)

\* tracker_sparql_find_graph
GraphFound(x) == FixedGraph(x) /\ x.graph[2] \in GraphsIn(x, "named")

\* _append_graph_set_checks
CheckedGraphs(x) ==
  IF FixedGraph(x) THEN GraphsIn(x, "named") \cap {x.graph[2]}
  ELSE GraphsIn(x, GraphSet(x))

\* tracker_sparql_apply_quad: patterns may only name graphs that are allowed.
Disallowed(x) ==
  \/ x.graph = Anywhere /\ DefaultGraph \notin x.allowed
  \/ FixedGraph(x) /\ x.graph[2] \notin x.allowed

-----------------------------------------------------------------------------
(***************************************************************************)
(* Tables.                                                                 *)
(***************************************************************************)
Multiple(p) == p = RdfType \/ p \in Multi
DomainOf(p) == IF p = RdfType THEN Root ELSE Domain[p]
RangeType(p) ==
  CASE p = RdfType \/ p \in Links -> "resource"
    [] p \in Numeric -> "number"
    [] OTHER -> "string"

\* tracker_property_get_table_name: multi-valued properties have a table of their own.
TableOf(p) == IF Multiple(p) THEN p ELSE DomainOf(p)

\* build_properties_string
Columns(t) ==
  IF t \in Class
  THEN {p \in Prop \ Multi : Domain[p] = t \/ t \in DomainIndexes[p]}
  ELSE {t}

GraphTable(d, g, t) ==
  IF t \in Class
  THEN LET ids == {q[2] : q \in {r \in d : r[1] = g /\ r[3] = RdfType /\ r[4] = Iri(t)}}
           value(s, p) ==
             LET v == {q[4] : q \in {r \in d : r[1] = g /\ r[2] = s /\ r[3] = p}}
             IN  IF v = {} THEN NULL ELSE CHOOSE w \in v : TRUE
       IN  {[c \in Columns(t) \cup {"ID", "graph"} |->
               CASE c = "ID" -> s [] c = "graph" -> Iri(g) [] OTHER -> value(s, c)]
              : s \in ids}
  ELSE {[c \in {t, "ID", "graph"} |->
           CASE c = "ID" -> q[2] [] c = "graph" -> Iri(g) [] OTHER -> q[4]]
          : q \in {r \in d : r[1] = g /\ r[3] = t}}

TableIn(x, gs, t) == SetBag(UNION {GraphTable(x.data, g, t) : g \in gs})

\* tracker_sparql_add_union_graph_subquery, ..._for_class: a view is made once.
AddView(x, t) == [x EXCEPT !.views = Default(@, t, GraphSet(x))]

\* The rows of "unionGraph_t".
UnionView(x, t) == TableIn(x, GraphsIn(x, x.views[t]), t)

\* tracker_triples, with the checks on its graph.
TripleRows(x) ==
  SetBag({[c \in {"ID", "predicate", "object", "graph"} |->
             CASE c = "ID" -> q[2] [] c = "predicate" -> Iri(q[3])
               [] c = "object" -> q[4] [] c = "graph" -> Iri(q[1])]
            : q \in {r \in x.data : r[1] \in CheckedGraphs(x)}})

-----------------------------------------------------------------------------
(***************************************************************************)
(* Property paths: bags of rows (ID, value, graph).                        *)
(***************************************************************************)
Link(s, v, g) == [ID |-> s, value |-> v, graph |-> g]

\* _prepend_path_element, of a property.
PathProp(x, p) ==
  LET t == TableOf(p)
      rows == IF ~FixedGraph(x) THEN UnionView(x, t)
              ELSE TableIn(x, CheckedGraphs(x), t)
  IN  MapBag(LAMBDA r : Link(r.ID, r[p], r.graph), rows)

PathInverse(A) ==
  MapBag(LAMBDA r : Link(r.value, r.ID, r.graph), BagWhere(A, LAMBDA r : r.value # NULL))

PathSequence(A, B) ==
  PairBag(A, B, LAMBDA r, s : SqlEq(r.value, s.ID),
                LAMBDA r, s : Link(r.ID, s.value, s.graph))

\* UNION and INTERSECT drop duplicates.
PathAlternative(A, B) == SetBag(DOMAIN A \cup DOMAIN B)
PathIntersection(A, B) == SetBag(DOMAIN A \cap DOMAIN B)

\* The recursive common table expression of + and *.
RECURSIVE PathClosure(_, _)
PathClosure(A, B) ==
  LET more == B \cup DOMAIN PathSequence(A, SetBag(B))
  IN  IF more = B THEN SetBag(B) ELSE PathClosure(A, more)

\* zero_length_match, and both ends of the path's own rows.
ZeroLength(x, A) ==
  LET rows == IF ~FixedGraph(x) THEN UnionView(x, Root)
              ELSE TableIn(x, CheckedGraphs(x), Root)
  IN  {Link(r.ID, r.ID, r.graph) : r \in DOMAIN rows}
        \cup {Link(r.value, r.value, r.graph) : r \in DOMAIN A}

\* tracker_triples without one predicate, from subject to object or back.
PathNegated(x, p, inverse) ==
  MapBag(LAMBDA r : IF inverse THEN Link(r.object, r.ID, r.graph)
                    ELSE Link(r.ID, r.object, r.graph),
         BagWhere(TripleRows(x), LAMBDA r : r.predicate # Iri(p)))

RECURSIVE PathRows(_, _)
PathRows(x, path) ==
  CASE path[1] = "prop" -> PathProp(x, path[2])
    [] path[1] = "inv"  -> PathInverse(PathRows(x, path[2]))
    [] path[1] = "seq"  -> PathSequence(PathRows(x, path[2]), PathRows(x, path[3]))
    [] path[1] = "alt"  -> PathAlternative(PathRows(x, path[2]), PathRows(x, path[3]))
    [] path[1] = "both" -> PathIntersection(PathRows(x, path[2]), PathRows(x, path[3]))
    [] path[1] = "neg"  -> PathNegated(x, path[2], path[3])
    [] path[1] = "plus" -> LET A == PathRows(x, path[2]) IN PathClosure(A, DOMAIN A)
    [] path[1] = "star" ->
         LET A == PathRows(x, path[2])
         IN  SetBag(DOMAIN PathClosure(A, DOMAIN A) \cup ZeroLength(x, A))
    [] path[1] = "opt"  ->
         LET A == PathRows(x, path[2]) IN SetBag(DOMAIN A \cup ZeroLength(x, A))

\* The views the elements of a path need, made in the order of its elements.
RECURSIVE PathViews(_, _)
PathViews(x, path) ==
  CASE path[1] = "prop" -> IF FixedGraph(x) THEN x ELSE AddView(x, TableOf(path[2]))
    [] path[1] = "neg"  -> x
    [] path[1] \in {"seq", "alt", "both"} -> PathViews(PathViews(x, path[2]), path[3])
    [] path[1] \in {"star", "opt"} ->
         LET y == PathViews(x, path[2]) IN IF FixedGraph(x) THEN y ELSE AddView(y, Root)
    [] OTHER -> PathViews(x, path[2])

-----------------------------------------------------------------------------
(***************************************************************************)
(* Triples blocks.  b has the tables of the block, the bindings of its     *)
(* variables and of its terms, each <<term, table, column, type, nullable>>.*)
(***************************************************************************)
NewBlock == [tables |-> << >>, vars |-> << >>, terms |-> << >>]

Entry(term, i, column, type, nullable) ==
  [term |-> term, table |-> i, column |-> column, type |-> type, nullable |-> nullable]

\* tracker_triple_context_get_variable_binding_list: in a scalar subquery the first
\* binding of a variable is its value in the outer query.
OuterBinding(x, b, v) ==
  IF /\ v \in DOMAIN x.types \cap DOMAIN x.outer
     /\ \A i \in DOMAIN b.vars : VarName(b.vars[i].term) # v
  THEN <<Entry(Var(v), 0, v, x.types[v], FALSE)>> ELSE << >>

\* _add_binding
Bind(y, entry) ==
  LET v == VarName(entry.term)
  IN  IF IsVar(entry.term)
      THEN [x |-> [y.x EXCEPT !.types = Default(@, v, entry.type)],
            b |-> [y.b EXCEPT !.vars = @ \o OuterBinding(y.x, y.b, v) \o <<entry>>]]
      ELSE [y EXCEPT !.b.terms = Append(@, entry)]

\* The table a property is read from: a domain index if the subject is known to
\* be of its class, from a binding of this block.
PropertyTable(b, t) ==
  LET known == {c \in DomainIndexes[t.p[2]] :
                  \E i \in DOMAIN b.vars : /\ b.vars[i].term = t.s
                                           /\ b.vars[i].column = "ID"
                                           /\ b.tables[b.vars[i].table].class = c}
  IN  IF t.p[2] # RdfType /\ IsVar(t.s) /\ known # {}
      THEN CHOOSE c \in known : TRUE ELSE TableOf(t.p[2])

TypeTriple(t) == t.p = <<"prop", RdfType>> /\ ~IsVar(t.o)
FtsTriple(t) == t.p = <<"prop", "fts:match">>

\* The table a triple reads from, and the class its subject has then.
SourceOf(b, t) ==
  CASE IsVar(t.p)    -> [kind |-> "triples", name |-> "", class |-> None]
    [] FtsTriple(t)  -> [kind |-> "fts", name |-> t.o, class |-> None]
    [] TypeTriple(t) -> [kind |-> "table", name |-> t.o[2], class |-> t.o[2]]
    [] t.p[1] = "prop" /\ ~FtsTriple(t) /\ ~TypeTriple(t) ->
         [kind |-> "table", name |-> PropertyTable(b, t), class |-> DomainOf(t.p[2])]
    [] OTHER -> [kind |-> "path", name |-> t.p, class |-> None]

\* The views a triple needs, whether or not a table of one graph is used instead.
SourceViews(x, src, t) ==
  CASE src.kind = "table" /\ TypeTriple(t) -> AddView(x, src.name)
    [] src.kind = "table" /\ ~TypeTriple(t) ->
         AddView(IF src.name = TableOf(t.p[2]) THEN x ELSE AddView(x, src.name),
                 TableOf(t.p[2]))
    [] src.kind = "path" -> PathViews(x, src.name)
    [] OTHER -> x

\* A table of one graph may serve several triples: tracker_triple_context_lookup_table
\* compares the graph and the name of the table.
Shared(x, b, src, t) ==
  IF src.kind = "table" /\ x.graph # Anywhere /\ (TypeTriple(t) \/ ~Multiple(t.p[2]))
  THEN {i \in DOMAIN b.tables : b.tables[i].kind = "table" /\ b.tables[i].name = src.name}
  ELSE {}

ObjectColumn(src, t) ==
  CASE src.kind = "triples" -> "object" [] src.kind = "path" -> "value" [] OTHER -> t.p[2]
ObjectType(src, t) ==
  IF src.kind = "table" THEN RangeType(t.p[2]) ELSE "any"

\* _add_quad
EntriesOf(x, src, t, i, new) ==
  LET unless(out, e) == IF out THEN << >> ELSE <<e>>
  IN  unless(src.kind # "triples", Entry(t.p, i, "predicate", "resource", FALSE))
        \o unless(~new, Entry(t.s, i, "ID", "resource", FALSE))
        \o unless(x.graph = Anywhere \/ ~IsVar(x.graph), Entry(x.graph, i, "graph", "resource", FALSE))
        \o unless(src.kind = "fts" \/ TypeTriple(t),
                  Entry(t.o, i, ObjectColumn(src, t), ObjectType(src, t), TRUE))
WithTable(y, src, t, shared) ==
  LET n == Len(y.b.tables) + 1
  IN  IF shared # {} THEN FoldLeft(Bind, y, EntriesOf(y.x, src, t, Min(shared), FALSE))
      ELSE FoldLeft(Bind, [y EXCEPT !.b.tables = Append(@, src)], EntriesOf(y.x, src, t, n, TRUE))
WithViews(y, src, t) == WithTable(y, src, t, Shared(y.x, y.b, src, t))
AddSource(y, src, t) == WithViews([y EXCEPT !.x = SourceViews(@, src, t)], src, t)
AddQuad(y, t) == AddSource(y, SourceOf(y.b, t), t)

\* tracker_sparql_add_fts_subquery
FtsRows(x, term) ==
  MapBag(LAMBDA q : [ID |-> q[2], graph |-> Iri(q[1])],
         SetBag({<<q[1], q[2]>> : q \in {r \in x.fts : r[1] \in CheckedGraphs(x) /\ r[4] = term}}))

RowsOf(x, src) ==
  CASE src.kind = "triples" -> TripleRows(x)
    [] src.kind = "path"    -> PathRows(x, src.name)
    [] src.kind = "fts"     -> FtsRows(x, src.name)
    [] src.kind = "table"   ->
         IF GraphFound(x) THEN TableIn(x, {x.graph[2]}, src.name)
         ELSE BagWhere(UnionView(x, src.name),
                       LAMBDA r : r.graph[2] \in CheckedGraphs(x))

\* Bindings of one variable are compared in pairs; a resource and a string by the
\* URI of the resource.
SameBinding(e, f, v, w) ==
  IF {e.type, f.type} = {"resource", "string"}
  THEN v # NULL /\ w # NULL /\ v[2] = w[2] ELSE SqlEq(v, w)

\* _end_triples_block
BlockRelation(x, b, tables) ==
  LET of(v) == SelectSeq(b.vars, LAMBDA e : VarName(e.term) = v)
      vars == {VarName(b.vars[i].term) : i \in DOMAIN b.vars}
      at(r, e) == IF e.table = 0 THEN x.outer[e.column] ELSE r[e.table][e.column]
      joined(r, v) ==
        LET es == of(v)
        IN  /\ \A i \in 1..(Len(es) - 1) :
                 SameBinding(es[i], es[i + 1], at(r, es[i]), at(r, es[i + 1]))
            /\ (\A i \in DOMAIN es : es[i].nullable) => at(r, es[1]) # NULL
      holds(r) == /\ \A v \in vars : joined(r, v)
                  /\ \A i \in DOMAIN b.terms : SqlEq(at(r, b.terms[i]), b.terms[i].term)
      product == FoldLeft(LAMBDA rs, B : {Append(r, s) : r \in rs, s \in DOMAIN B},
                          {<< >>}, tables)
      count(r) == FoldLeft(LAMBDA k, i : k * tables[i][r[i]], 1, [i \in DOMAIN tables |-> i])
      shown(r) ==
        [v \in vars |-> LET e == of(v)[1]
                        IN  IF x.types[v] = "string" /\ e.type = "resource"
                            THEN Str(at(r, e)[2]) ELSE at(r, e)]
  IN  Relation(vars, MapBag(shown, [r \in {q \in product : holds(q)} |-> count(r)]))
EndTriplesBlock(x, b) == BlockRelation(x, b, [i \in DOMAIN b.tables |-> RowsOf(x, b.tables[i])])

\* TriplesBlock: its triples in order, unless one names a graph that is not allowed.
BlockOf(y) == [x |-> y.x, rel |-> EndTriplesBlock(y.x, y.b)]
TriplesBlock(x, ts) ==
  IF Disallowed(x) THEN [x |-> [x EXCEPT !.failed = TRUE], rel |-> OneRow]
  ELSE BlockOf(FoldLeft(AddQuad, [x |-> x, b |-> NewBlock], ts))
=============================================================================
