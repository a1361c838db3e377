------------------------------- MODULE Queries -------------------------------
(***************************************************************************)
(* Translation of group graph patterns and of queries                      *)
(* (translate_GroupGraphPatternSub, translate_SelectQuery, translate_Query *)
(* and the rules below them in core/tracker-sparql.c).                     *)
(*                                                                         *)
(* A group graph pattern is a sequence of elements, records with a field   *)
(* k: "triples" ts, "group" alts, "optional" g, "minus" g, "graph" name g, *)
(* "filter" e, "bind" e v, "values" vars rows, "service" silent name vars  *)
(* rows (what the service answers, or None), "sub" q.  An expression is a  *)
(* tuple of an operator and its arguments: <<"var", v>>, a tagged value,   *)
(* <<"=", e, f>>, <<"exists", g>> and so on.                               *)
(*                                                                         *)
(* A query is a record: form ("select", "ask", "construct", "describe"),   *)
(* constraints (a sequence of sets of graphs, All for ALL), services (the  *)
(* same for CONSTRAINT SERVICE), from and named (sequences of graphs), and *)
(* in body the record of a SELECT with, for the other forms, template or   *)
(* resources.                                                              *)
(***************************************************************************)
EXTENDS Expressions

CONSTANTS GraphName,     \* every graph a request may name
          ServiceName,
          All

-----------------------------------------------------------------------------
\* The views that functional properties and subqueries of an expression need.
PropertyView(x, p) == IF FixedGraph(x) THEN x ELSE AddView(x, TableOf(p))

\* handle_property_function: several values are concatenated.
PropertyValue(x, p, v) ==
  LET t == TableOf(p)
      rows == IF ~FixedGraph(x) THEN UnionView(x, t)
              ELSE IF GraphFound(x) THEN TableIn(x, {x.graph[2]}, t) ELSE NoBag
      s == IF v[1] = "str" THEN Iri(v[2]) ELSE v
      values == {r[p] : r \in {q \in DOMAIN rows : SqlEq(q.ID, s) /\ q[p] # NULL}}
  IN  IF Multiple(p) /\ values # {} THEN Joint(values) ELSE AnyOf(values)

FirstValue(s) == AnyOf({row[s.first] : row \in DOMAIN s.rel.rows})

\* _call_rule: the rules below call one another through it.
RECURSIVE CallRule(_, _, _, _, _)
Group(x, g)           == CallRule("GroupGraphPattern", x, {}, g, NULL)
SelectQuery(x, q)     == CallRule("SelectQuery", x, {}, q, NULL)
SubSelect(x, q)       == CallRule("SubSelect", x, {}, q, NULL)
AfterExpr(x, vars, e) == CallRule("Expression", x, vars, e, NULL)
Value(x, vars, e, r)  == CallRule("Value", x, vars, e, r)

\* The context after the translation of an expression.
AfterExpression(x, vars, e) ==
  LET y == CASE e[1] = "property" -> PropertyView(x, e[2])
             [] e[1] = "exists"   -> Group(x, e[2]).x
             [] e[1] = "sub"      -> SubSelect(x, e[2]).x
             [] OTHER             -> x
  IN  [FoldLeft(LAMBDA c, a : AfterExpr(c, vars, a), y, Args(e)) EXCEPT
         !.failed = @ \/ IllTyped(x, vars, e)]

\* The value of an expression in one row; the subqueries see its columns, a variable
\* that is not one of vars, those of the context, is NULL.
ValueIn(x, vars, e, r) ==
  LET a == [i \in 1..Len(Args(e)) |-> Value(x, vars, Args(e)[i], r)]
      inner == [x EXCEPT !.outer = [v \in (DOMAIN r \cap vars) \cup DOMAIN @ |->
                                      IF v \in DOMAIN r \cap vars THEN r[v] ELSE @[v]]]
  IN  CASE e[1] = "var" -> IF e[2] \in vars \cap DOMAIN r THEN r[e[2]] ELSE NULL
        [] e[1] \in ValueTags -> e
        [] e[1] = "property" -> PropertyValue(x, e[2], a[1])
        [] e[1] = "cast" -> CastValue(e[2], a[1])
        [] e[1] = "exists" -> Bool(DOMAIN Group(inner, e[2]).rel.rows # {})
        [] e[1] = "sub" -> FirstValue(SubSelect(inner, e[2]))
        [] OTHER -> OperatorValue(e[1], a)

-----------------------------------------------------------------------------
(***************************************************************************)
(* Group graph patterns.  y has the context, the relation of the SQL so    *)
(* far (empty while there is none), the variables of the context and the   *)
(* filters that are put off.  The services that are put off are in x: any  *)
(* group that ends applies them all.                                       *)
(***************************************************************************)
\* translate_GroupGraphPattern pushes a context.
NewGroup(x) == [x |-> x, rel |-> OneRow, empty |-> TRUE, vars |-> {},
                filters |-> << >>]

Fails(y) == [y EXCEPT !.x.failed = TRUE]

Joined(y, x, rel, vars) ==
  [y EXCEPT !.x = x, !.empty = FALSE, !.vars = @ \cup vars,
            !.rel = IF y.empty THEN rel ELSE NaturalJoin(@, rel)]

JoinedWith(y, s) == Joined(y, s.x, s.rel, s.vars)

\* The triples block of translate_GroupGraphPatternSub
JoinedBlock(y, t) == Joined(y, t.x, t.rel, t.rel.cols)
WrittenBlock(y, w) == JoinedBlock(y, TriplesBlock(w.x, w.ts))
GroupTriples(y, ts) == WrittenBlock(y, Written(y.x, ts, "path"))

\* translate_ServiceGraphPattern: the service answers with strings; its rows are
\* joined on the variables the group has used before.
ServiceRow(vars, r) == [v \in vars |-> Printed(r[v])]
SameInService(x, v, l, r) ==
  IF v \in DOMAIN x.types /\ x.types[v] = "resource"
  THEN l # NULL /\ r # NULL /\ l[2] = r[2] ELSE SqlEq(l, r)
ApplyService(y, e) ==
  LET right == Relation(e.vars, MapBag(LAMBDA r : ServiceRow(e.vars, r), SetBag(e.rows)))
      x == [y.x EXCEPT !.types = [v \in DOMAIN @ \cup e.vars |->
                                    IF v \in DOMAIN @ THEN @[v] ELSE "string"]]
      shared == e.vars \cap y.vars
      same(l, r) == \A v \in shared : SameInService(y.x, v, l[v], r[v])
      joined == Relation(y.rel.cols \cup e.vars,
                         PairBag(y.rel.rows, right.rows, same,
                                 LAMBDA l, r : Glue(y.rel, right, l, r)))
      allowed == e.name \in y.x.services
      unreachable == e.rows = None
  IN  IF ~allowed \/ (unreachable /\ ~e.silent) THEN Fails(y)
      ELSE IF unreachable THEN [y EXCEPT !.x = x, !.empty = FALSE,
                                  !.rel = NoRows(y.rel.cols \cup e.vars), !.vars = @ \cup e.vars]
      ELSE [y EXCEPT !.x = x, !.empty = FALSE, !.vars = @ \cup e.vars,
                     !.rel = IF y.empty THEN right ELSE joined]

\* apply_service_graph_patterns: the last one first.
ApplyServices(y) ==
  FoldRight(LAMBDA e, z : ApplyService(z, e), y.x.pending, [y EXCEPT !.x.pending = << >>])

\* translate_OptionalGraphPattern
WithOptional(y, o) ==
  [y EXCEPT !.x = o.x, !.empty = FALSE, !.vars = @ \cup o.vars,
            !.rel = IF y.empty THEN o.rel ELSE NaturalLeftJoin(@, o.rel)]
OptionalGroup(y, g) == WithOptional(y, Group(y.x, g))
GroupOptional(y, g) == OptionalGroup(ApplyServices(y), g)

\* translate_MinusGraphPattern
NotIn(r, S, cols) ==
  \A s \in S : \E c \in cols : r[c] # NULL /\ s[c] # NULL /\ r[c] # s[c]
Without(left, m, shared) ==
  IF shared # {} THEN Where(left, LAMBDA r : NotIn(r, DOMAIN Project(m.rel, shared).rows, shared))
  ELSE Except(left, Project(m.rel, left.cols))
WithMinus(y, m) ==
  IF y.empty THEN Fails([y EXCEPT !.x = m.x])
  ELSE [y EXCEPT !.x = m.x,
          !.rel = Without(IF y.vars = {} THEN @ ELSE Project(@, y.vars), m, y.vars \cap m.vars)]
MinusGroup(y, g) == WithMinus(y, Group(y.x, g))
GroupMinus(y, g) == MinusGroup(ApplyServices(y), g)

\* translate_GraphGraphPattern: a variable nothing binds ranges over the named graphs.
GroupGraph(y, name, g) ==
  LET inside == Group([y.x EXCEPT !.graph = name], g)
      v == VarName(name)
      x1 == [inside.x EXCEPT !.graph = y.x.graph]
      loose == IsVar(name) /\ v \notin DOMAIN x1.types
      x2 == IF loose THEN [x1 EXCEPT !.types = With(@, v, "resource")] ELSE x1
      graphs == Relation({v}, SetBag({[c \in {v} |-> Iri(h)] : h \in GraphsIn(x1, "named")}))
  IN  Joined(y, x2, IF loose THEN NaturalJoin(graphs, inside.rel) ELSE inside.rel,
             inside.vars \cup (IF IsVar(name) THEN {v} ELSE {}))

\* translate_GroupOrUnionGraphPattern
GroupUnion(y, alts) ==
  LET step(a, g) == LET b == Group(a.x, g)
                    IN  [x |-> b.x, rels |-> Append(a.rels, b.rel), vars |-> a.vars \cup b.vars]
      all == FoldLeft(step, [x |-> y.x, rels |-> << >>, vars |-> {}], alts)
      same == [i \in DOMAIN all.rels |-> Project(all.rels[i], all.vars)]
      union == FoldLeft(UnionAll, NoRows(all.vars), same)
  IN  Joined(y, all.x, IF Len(alts) > 1 THEN union ELSE all.rels[1], all.vars)

\* translate_Bind
BoundIn(y, x, e, v) ==
  IF v \in y.vars THEN Fails(y)
  ELSE [y EXCEPT !.x = [x EXCEPT !.types = With(@, v, TypeOf(x, y.vars, e))],
                 !.rel = Extended(@, v, LAMBDA r : Value(x, y.vars, e, r)),
                 !.empty = FALSE, !.vars = @ \cup {v}]
GroupBind(y, e, v) == BoundIn(y, AfterExpr(y.x, y.vars, e), e, v)

\* translate_DataBlock, translate_InlineDataOneVar, translate_InlineDataFull
DataBlock(x, vars, rows) ==
  LET row(r) == [v \in Range(vars) |-> r[CHOOSE i \in DOMAIN vars : vars[i] = v]]
      rel == FoldLeft(LAMBDA R, r : UnionAll(R, Relation(Range(vars), SetBag({row(r)}))),
                      NoRows(Range(vars)), rows)
      typed(v) == IF v \in DOMAIN x.types THEN x.types[v]
                  ELSE IF Len(vars) = 1 /\ rows # << >>
                  THEN TypeOf(x, {}, rows[Len(rows)][1]) ELSE "any"
      short == \E i \in DOMAIN rows : Len(rows[i]) # Len(vars)
  IN  IF short THEN [x |-> [x EXCEPT !.failed = TRUE], rel |-> OneRow]
      ELSE [x |-> [x EXCEPT !.types = [v \in DOMAIN @ \cup Range(vars) |-> typed(v)]], rel |-> rel]
GroupValues(y, vars, rows) ==
  LET d == DataBlock(y.x, vars, rows) IN Joined(y, d.x, d.rel, Range(vars))

\* translate_GraphPatternNotTriples, and a triples block between them
Element(y, e) ==
  CASE e.k = "triples"  -> GroupTriples(y, e.ts)
    [] e.k = "group"    -> GroupUnion(y, e.alts)
    [] e.k = "optional" -> GroupOptional(y, e.g)
    [] e.k = "minus"    -> GroupMinus(y, e.g)
    [] e.k = "graph"    -> GroupGraph(y, e.name, e.g)
    [] e.k = "bind"     -> GroupBind(y, e.e, e.v)
    [] e.k = "values"   -> GroupValues(y, e.vars, e.rows)
    [] e.k = "filter"   -> [y EXCEPT !.filters = <<e.e>> \o @]
    [] e.k = "service"  -> [y EXCEPT !.x.pending = Append(@, e)]
    [] e.k = "sub"      -> JoinedWith(y, SubSelect(y.x, e.q))

\* The filters of a group, after everything else in it.
ApplyFilters(y) ==
  LET x == FoldLeft(LAMBDA c, e : AfterExpr(c, y.vars, e), y.x, y.filters)
      all(r) == \A i \in DOMAIN y.filters : Truth(Value(x, y.vars, y.filters[i], r))
  IN  [y EXCEPT !.x = x, !.rel = Where(@, all)]

\* translate_GroupGraphPatternSub
GroupGraphPattern(x, g) == ApplyFilters(ApplyServices(FoldLeft(Element, NewGroup(x), g)))

-----------------------------------------------------------------------------
(***************************************************************************)
(* Solution modifiers.  q is a record with distinct, items (a sequence of  *)
(* records e, as, or None), g, by (records e, as), having, order (records  *)
(* e, desc), limit, offset and values; None stands for a part that is not  *)
(* there.                                                                  *)
(***************************************************************************)
RECURSIVE HasAggregate(_), Mentions(_)
HasAggregate(e) ==
  e[1] \in Aggregates \/ \E i \in DOMAIN Args(e) : HasAggregate(Args(e)[i])
Mentions(e) ==
  IF e[1] = "var" THEN {e[2]} ELSE UNION {Mentions(Args(e)[i]) : i \in DOMAIN Args(e)}

\* translate_Aggregate, over the bag vs of the values of a group.
Aggregate(name, vs) ==
  LET sum == SumOf([v \in DOMAIN vs |-> vs[v] * v[2]])
  IN  CASE name = "count" -> Num(Size(vs))
        [] name = "count distinct" -> Num(Cardinality(DOMAIN vs))
        [] DOMAIN vs = {} -> NULL
        [] name = "sum" -> Num(sum)
        [] name = "min" -> Num(Min({v[2] : v \in DOMAIN vs}))
        [] name = "max" -> Num(Max({v[2] : v \in DOMAIN vs}))
        [] name = "sample" -> AnyOf(DOMAIN vs)

\* An expression in a query that aggregates: a bare variable has the value of
\* some row of the group.
GroupResult(e, values) ==
  IF e[1] \in Aggregates THEN Aggregate(e[1], BagWhere(values, LAMBDA v : v # NULL))
  ELSE AnyOf(DOMAIN values)
RECURSIVE GroupValue(_, _, _, _)
GroupValue(x, vars, e, B) ==
  LET row == IF DOMAIN B = {} THEN [c \in vars |-> NULL] ELSE CHOOSE r \in DOMAIN B : TRUE
      inside == <<e[1]>> \o [i \in 1..(Len(e) - 1) |-> GroupValue(x, vars, e[i + 1], B)]
      over == CASE e[1] \in Aggregates -> e[2]
                [] e[1] \notin Aggregates /\ HasAggregate(e) -> inside
                [] OTHER -> e
  IN  GroupResult(e, MapBag(LAMBDA r : Value(x, vars, over, r),
                            IF e[1] \in Aggregates THEN B ELSE SetBag({row})))

\* translate_GroupClause: conditions become columns first, those with AS under its name.
KeyColumn(by, i) == IF by[i].as # None THEN by[i].as ELSE "group by " \o ToString(i)
GroupKey(y, c, column) ==
  LET typed == [y EXCEPT !.vars = @ \cup {column},
                         !.x.types = With(@, column, TypeOf(y.x, y.vars, c.e))]
  IN  [(IF c.as = None THEN y ELSE typed) EXCEPT
         !.rel = Extended(@, column, LAMBDA r : Value(y.x, y.vars, c.e, r))]
GroupKeys(y, by) ==
  FoldLeft(LAMBDA z, i : GroupKey(z, by[i], KeyColumn(by, i)), y, [i \in DOMAIN by |-> i])

\* The bags of rows that give a row of the result each.
Groups(y, q) ==
  LET key(r) == [i \in DOMAIN q.by |-> r[KeyColumn(q.by, i)]]
      keys == {key(r) : r \in DOMAIN y.rel.rows}
  IN  CASE q.by # << >> -> SetBag({BagWhere(y.rel.rows, LAMBDA r : key(r) = k) : k \in keys})
        [] \E i \in DOMAIN q.items : HasAggregate(q.items[i].e) -> SetBag({y.rel.rows})
        [] OTHER -> MapBag(LAMBDA r : [s \in {r} |-> 1], y.rel.rows)

\* translate_OrderCondition: NULL sorts first.
Before(v, w) == (v = NULL /\ w # NULL) \/ (v # NULL /\ w # NULL /\ SqlLess(v, w))
KeyBefore(order, k, l) ==
  \E i \in DOMAIN order :
    /\ \A j \in 1..(i - 1) : k[j] = l[j]
    /\ IF order[i].desc THEN Before(l[i], k[i]) ELSE Before(k[i], l[i])

\* translate_LimitOffsetClauses
Cut(s, limit, offset) ==
  LET from == IF offset = None THEN 1 ELSE offset + 1
      to == IF limit = None THEN Len(s) ELSE Min({Len(s), from + limit - 1})
  IN  SubSeq(s, from, to)

\* The rows of a bag of pairs <<row, key>>, ordered by their keys.
Listed(pairs, order) ==
  LET copies == UNION {{<<p, i>> : i \in 1..pairs[p]} : p \in DOMAIN pairs}
      sorted == SortSeq(Listing(copies), LAMBDA p, q : KeyBefore(order, p[1][2], q[1][2]))
  IN  [i \in DOMAIN sorted |-> sorted[i][1][1]]

BagOf(s) == [r \in Range(s) |-> Cardinality({i \in DOMAIN s : s[i] = r})]

Modifies(q) == q.by # << >> \/ q.having # << >> \/ q.order # << >> \/ q.limit # None
                 \/ q.offset # None

\* translate_SelectClause: every variable of the query, at the top.
Items(x, q, top) ==
  IF q.items # None THEN q.items
  ELSE Listing({[e |-> Var(v), as |-> None] : v \in IF top THEN DOMAIN x.types ELSE {}})
Named(i) == IF i.as # None THEN i.as ELSE VarName(i.e)

\* A name of an earlier AS is no column; a glob needs the variables of the top
\* context and a column for each; conditions of HAVING are not joined by AND.
BadSelect(y, q, items, top) ==
  \/ \E i, j \in DOMAIN items : i < j /\ items[i].as \in Mentions(items[j].e) \ y.rel.cols
  \/ q.items = None /\ (~top \/ items = << >> \/ \E i \in DOMAIN items : Named(items[i]) \notin y.rel.cols)
  \/ Len(q.having) > 1 \/ (q.having # << >> /\ q.by = << >>)
  \/ top /\ q.values # None /\ Modifies(q)

\* The expressions of a query, those of its items first; ORDER BY may name an item.
ItemOf(items, v) == items[CHOOSE i \in DOMAIN items : Named(items[i]) = v].e
ItemExprs(q, items) ==
  LET names == {Named(items[i]) : i \in DOMAIN items}
      by(e) == IF e[1] = "var" /\ e[2] \in names THEN ItemOf(items, e[2]) ELSE e
  IN  [i \in DOMAIN items |-> items[i].e] \o q.having \o [i \in DOMAIN q.order |-> by(q.order[i].e)]

\* The rows of a query in their order, out of a bag of the tuples of its expressions' values.
OrderedRows(q, items, cells) ==
  LET n == Len(items)
      h == n + Len(q.having)
      names == {Named(items[i]) : i \in 1..n}
      place(v) == CHOOSE i \in 1..n : Named(items[i]) = v
      kept == BagWhere(cells, LAMBDA t : \A i \in (n + 1)..h : Truth(t[i]))
      all == MapBag(LAMBDA t : <<[v \in names |-> t[place(v)]], SubSeq(t, h + 1, Len(t))>>, kept)
      once == {CHOOSE p \in DOMAIN all : p[1] = r : r \in {p[1] : p \in DOMAIN all}}
  IN  Cut(Listed(IF q.distinct THEN SetBag(once) ELSE all, q.order), q.limit, q.offset)

\* translate_SelectQuery, translate_SubSelect: the WHERE clause, the data block,
\* the keys, the items, the rows, the result.
QueryResult(y, q, items, top, data, list) ==
  LET names == {Named(items[i]) : i \in DOMAIN items}
      out == Relation(names, BagOf(list))
      types == [v \in DOMAIN y.x.types \cup names |->
                  IF v \in DOMAIN y.x.types /\ \A i \in DOMAIN items : items[i].as # v
                  THEN y.x.types[v] ELSE TypeOf(y.x, y.vars, ItemOf(items, v))]
  IN  [x    |-> [y.x EXCEPT !.types = types,
                            !.failed = @ \/ BadSelect(y, q, items, top)],
       rel  |-> IF ~top /\ q.values # None THEN NaturalJoin(out, data) ELSE out,
       vars |-> names, first |-> IF items = << >> THEN "" ELSE Named(items[1]),
       list |-> IF q.order = << >> THEN << >> ELSE list]
WithRows(y, q, items, exprs, top, data) ==
  QueryResult(y, q, items, top, data,
         OrderedRows(q, items,
                     MapBag(LAMBDA B : [i \in DOMAIN exprs |-> GroupValue(y.x, y.vars, exprs[i], B)],
                            Groups(y, [q EXCEPT !.items = items]))))
WithExprs(y, q, items, exprs, top, data) ==
  WithRows([y EXCEPT !.x = FoldLeft(LAMBDA c, e : AfterExpr(c, y.vars, e), @, exprs)],
           q, items, exprs, top, data)
WithItems(y, q, items, top, data) == WithExprs(y, q, items, ItemExprs(q, items), top, data)
WithKeys(y, q, top, data) == WithItems(y, q, Items(y.x, q, top), top, data)
WithData(where, q, top, data) ==
  WithKeys(GroupKeys([where EXCEPT !.x = data.x,
                                   !.rel = IF top /\ q.values # None THEN NaturalJoin(@, data.rel) ELSE @],
                     q.by), q, top, data.rel)
WithWhere(where, q, top) ==
  WithData(where, q, top,
           IF q.values = None THEN [x |-> where.x, rel |-> OneRow]
           ELSE DataBlock(where.x, q.values.vars, q.values.rows))
Select(x, q, top) == WithWhere(Group(x, q.g), q, top)

CallRule(rule, x, vars, e, r) ==
  CASE rule = "GroupGraphPattern" -> GroupGraphPattern(x, e)
    [] rule \in {"SelectQuery", "SubSelect"} -> Select(x, e, rule = "SelectQuery")
    [] rule = "Expression"        -> AfterExpression(x, vars, e)
    [] rule = "Value"             -> ValueIn(x, vars, e, r)

-----------------------------------------------------------------------------
(***************************************************************************)
(* Queries of the four forms, their datasets and the constraints in their  *)
(* prologues.                                                              *)
(***************************************************************************)
\* translate_ConstraintDecl, intersect_set
Constrained(sets, everything) ==
  FoldLeft(LAMBDA S, c : IF c = All THEN S ELSE S \cap c, everything, sets)

\* translate_DatasetClause: FROM NAMED alone leaves the default graph empty.
FromSet(q) == IF q.from = << >> /\ q.named = << >> THEN None ELSE Range(q.from)
NamedSet(q) == IF q.named = << >> THEN None ELSE Range(q.named)

\* tracker_sparql_state_init
NewContext(s, graphs, allowed, services) ==
  [data |-> s.data, fts |-> s.fts, graphs |-> graphs, allowed |-> allowed, services |-> services,
   from |-> None, named |-> None, graph |-> Anywhere, views |-> << >>, types |-> << >>,
   outer |-> << >>, gen |-> 0, elements |-> {}, pending |-> << >>, failed |-> FALSE]

QueryContext(q, s, graphs) ==
  NewContext(s, graphs, Constrained(q.constraints, GraphName),
             Constrained(q.services, ServiceName))
WithDataset(x, q) == [x EXCEPT !.from = FromSet(q), !.named = NamedSet(q)]

Answer(x, rel, list) == [failed |-> x.failed, rel |-> rel, list |-> list]
Failed == [failed |-> TRUE, rel |-> OneRow, list |-> << >>]
Answered(a) == IF a.failed THEN Failed ELSE a

-----------------------------------------------------------------------------
\* A body whose clause is SELECT * of the SQL has every column.
AllColumns(cols) == Listing({[e |-> Var(v), as |-> None] : v \in cols})
BodyOf(x, q) ==
  IF q.form = "select" THEN q.body
  ELSE [q.body EXCEPT !.items = AllColumns(Group(x, q.body.g).rel.cols)]

\* translate_SelectQuery at the top
SelectAnswer(s) == Answer(s.x, s.rel, s.list)

\* translate_AskQuery
AskAnswer(s) ==
  LET result == [c \in {"result"} |-> Bool(DOMAIN s.rel.rows # {})]
  IN  Answer(s.x, Relation({"result"}, SetBag({result})), << >>)

\* translate_ConstructQuery, _construct_clause: for every triple of the template
\* the distinct values of its variables.
TripleColumns == {"subject", "predicate", "object"}
ConstructTriples(rel, t) ==
  LET vars == {VarName(term) : term \in {u \in {t.s, t.p, t.o} : IsVar(u)}}
      value(r, term) == IF IsVar(term) THEN r[VarName(term)] ELSE term
      triple(r) == [c \in TripleColumns |->
                      CASE c = "subject" -> value(r, t.s)
                        [] c = "predicate" -> value(r, t.p)
                        [] c = "object" -> value(r, t.o)]
  IN  IF vars = {} THEN SetBag({triple(<< >>)})
      ELSE MapBag(triple, Distinct(Project(rel, vars)).rows)

ConstructAnswer(q, s) ==
  LET used == UNION {{VarName(u) : u \in {v \in {t.s, t.p, t.o} : IsVar(v)}} : t \in Range(q.template)}
      rows == FoldLeft(LAMBDA B, t : BagPlus(B, ConstructTriples(s.rel, t)), NoBag, q.template)
  IN  IF used \subseteq s.rel.cols THEN Answer(s.x, Relation(TripleColumns, rows), << >>)
      ELSE Failed

\* translate_DescribeQuery: the graphs are those before FROM is parsed.
DescribedTriples(x, resources) ==
  SetBag({[c \in TripleColumns \cup {"graph"} |->
             CASE c = "subject" -> q[2] [] c = "predicate" -> Iri(q[3])
               [] c = "object" -> q[4] [] c = "graph" -> Iri(q[1])]
            : q \in {r \in x.data : r[1] \in GraphsIn(x, "default") /\ r[2] \in resources}})

Described(x0, where, q) ==
  LET terms == IF q.resources = None THEN {Var(v) : v \in DOMAIN where.x.types}
               ELSE Range(q.resources)
      values(t) == IF IsVar(t) THEN {r[VarName(t)] : r \in DOMAIN where.rel.rows} ELSE {t}
      bad == \/ terms = {}
             \/ \E t \in terms : IsVar(t) /\ (q.body = None \/ VarName(t) \notin where.rel.cols)
  IN  IF bad THEN Failed
      ELSE Answer(where.x,
                  Relation(TripleColumns \cup {"graph"},
                           DescribedTriples(x0, UNION {values(t) : t \in terms} \ {NULL})),
                  << >>)
DescribeAnswer(x0, x, q) ==
  Described(x0, IF q.body = None THEN NewGroup(x) ELSE Group(x, q.body.g), q)

\* translate_Query
FormAnswer(x0, x, q, s) ==
  CASE q.form = "select"    -> SelectAnswer(s)
    [] q.form = "ask"       -> AskAnswer(s)
    [] q.form = "construct" -> ConstructAnswer(q, s)
    [] q.form = "describe"  -> DescribeAnswer(x0, x, q)
QueryAnswer(q, s, graphs) ==
  LET x0 == QueryContext(q, s, graphs)
      x == WithDataset(x0, q)
  IN  Answered(FormAnswer(x0, x, q, SelectQuery(x, BodyOf(x, q))))
=============================================================================
