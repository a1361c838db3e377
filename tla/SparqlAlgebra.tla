---------------------------- MODULE SparqlAlgebra ----------------------------
(***************************************************************************)
(* What SPARQL says a query means, without tables, views or translation:   *)
(* bags of solutions, functions from the variables that are bound to their *)
(* values.  A dataset D has the quads data, the sets of graphs default and *)
(* named, and the services.  A triple that several graphs of the default   *)
(* graph have counts once for each of them.                                *)
(***************************************************************************)
EXTENDS Queries

NoBindings == [v \in {} |-> NULL]
Unit == SetBag({NoBindings})

Compatible(m, n) == \A v \in DOMAIN m \cap DOMAIN n : m[v] = n[v]
Merged(m, n) == [v \in DOMAIN m \cup DOMAIN n |-> IF v \in DOMAIN m THEN m[v] ELSE n[v]]
JoinOf(B, C) == PairBag(B, C, Compatible, Merged)
Alone(B, C) == BagWhere(B, LAMBDA m : \A n \in DOMAIN C : ~Compatible(m, n))
LeftJoinOf(B, C) == BagPlus(JoinOf(B, C), Alone(B, C))
MinusOf(B, C) ==
  BagWhere(B, LAMBDA m : \A n \in DOMAIN C :
                 ~Compatible(m, n) \/ DOMAIN m \cap DOMAIN n = {})
Extend(m, v, value) == IF value = NULL THEN m ELSE With(m, v, value)
Only(m, vars) == [v \in DOMAIN m \cap vars |-> m[v]]

\* The solution of terms that stand for values, if there is one.
Unifies(terms, values) ==
  /\ \A i \in DOMAIN terms : IsVar(terms[i]) \/ terms[i] = values[i]
  /\ \A i, j \in DOMAIN terms : IsVar(terms[i]) /\ terms[i] = terms[j] => values[i] = values[j]
Unifier(terms, values) ==
  [v \in {VarName(terms[i]) : i \in {j \in DOMAIN terms : IsVar(terms[j])}} |->
     values[CHOOSE i \in DOMAIN terms : terms[i] = Var(v)]]
Matches(terms, B) ==
  MapBag(LAMBDA w : Unifier(terms, w), BagWhere(B, LAMBDA w : Unifies(terms, w)))

-----------------------------------------------------------------------------
(***************************************************************************)
(* Triple patterns and paths, over the quads Q of the active graph.        *)
(***************************************************************************)
Active(D, g) == {q \in D.data : q[1] \in (IF g = Anywhere THEN D.default ELSE {g} \cap D.named)}
PathNodes(Q) == {q[2] : q \in Q} \cup {q[4] : q \in Q}
FollowedBy(A, B) ==
  PairBag(A, B, LAMBDA r, s : r[2] = s[1], LAMBDA r, s : <<r[1], s[2]>>)

RECURSIVE Reached(_, _), Pairs(_, _)
Reached(R, S) ==
  LET more == S \cup {<<s[1], r[2]>> : <<s, r>> \in {z \in S \X R : z[1][2] = z[2][1]}}
  IN  IF more = S THEN S ELSE Reached(R, more)
Pairs(Q, path) ==
  LET A == Pairs(Q, path[2])
      each == [i \in DOMAIN path[2] |-> Pairs(Q, path[2][i])]
      zero == {<<n, n>> : n \in PathNodes(Q)}
      but(inverse) == {path[2][i][1] : i \in {j \in DOMAIN path[2] : path[2][j][2] = inverse}}
      others(inverse) == IF but(inverse) = {} THEN {} ELSE {q \in Q : q[3] \notin but(inverse)}
  IN  CASE path[1] = "prop" -> MapBag(LAMBDA q : <<q[2], q[4]>>, SetBag({q \in Q : q[3] = path[2]}))
        [] path[1] = "inv"  -> MapBag(LAMBDA r : <<r[2], r[1]>>, A)
        [] path[1] = "seq"  -> FoldLeft(FollowedBy, each[1], Tail(each))
        [] path[1] = "alt"  -> FoldLeft(BagPlus, NoBag, each)
        [] path[1] = "negated" -> BagPlus(MapBag(LAMBDA q : <<q[2], q[4]>>, SetBag(others(FALSE))),
                                          MapBag(LAMBDA q : <<q[4], q[2]>>, SetBag(others(TRUE))))
        [] path[1] = "plus" -> SetBag(Reached(DOMAIN A, DOMAIN A))
        [] path[1] = "star" -> SetBag(Reached(DOMAIN A, DOMAIN A) \cup zero)
        [] path[1] = "opt"  -> SetBag(DOMAIN A \cup zero)

\* The plain triples that a written one stands for.  Nodes without a name have
\* variables named for their place.
TermOf(node, place) ==
  CASE node[1] \in {"[]", "()", "anon"} -> Var(place)
    [] node[1] = "label" -> Var("_:" \o node[2])
    [] OTHER -> node
RECURSIVE Inside(_, _), About(_, _, _), Cells(_, _)
About(s, pl, place) ==
  UNION {UNION {LET node == pl[i].objects[j]
                    at == place \o ToString(i) \o "," \o ToString(j)
                IN  {[s |-> s, p |-> pl[i].verb, o |-> TermOf(node, at)]} \cup Inside(node, at)
                : j \in DOMAIN pl[i].objects} : i \in DOMAIN pl}
Cells(nodes, place) ==
  LET rest == IF Len(nodes) = 1 THEN Iri(ListNil) ELSE Var(place \o "r")
      more == IF Len(nodes) = 1 THEN {} ELSE Cells(Tail(nodes), place \o "r")
  IN  {[s |-> Var(place), p |-> Prop1(ListFirst), o |-> TermOf(nodes[1], place \o "f")],
       [s |-> Var(place), p |-> Prop1(ListRest), o |-> rest]}
        \cup Inside(nodes[1], place \o "f") \cup more
Inside(node, place) ==
  CASE node[1] = "[]" -> About(Var(place), node[2], place)
    [] node[1] = "()" -> Cells(node[2], place)
    [] OTHER -> {}
PlainTriples(ts) ==
  UNION {LET place == "t" \o ToString(i)
         IN  Inside(ts[i].s, place) \cup About(TermOf(ts[i].s, place), ts[i].pl, place \o "p")
         : i \in DOMAIN ts}

TripleSolutions(Q, t) ==
  CASE IsVar(t.p) ->
         Matches(<<t.s, t.p, t.o>>, MapBag(LAMBDA q : <<q[2], Iri(q[3]), q[4]>>, SetBag(Q)))
    [] FtsTriple(t) ->
         Matches(<<t.s>>, MapBag(LAMBDA q : <<q[2]>>,
                                 SetBag({r \in Q : r[3] \in FullText /\ r[4] = t.o})))
    [] ~IsVar(t.p) /\ ~FtsTriple(t) -> Matches(<<t.s, t.o>>, Pairs(Q, t.p))

-----------------------------------------------------------------------------
(***************************************************************************)
(* Graph patterns.                                                         *)
(***************************************************************************)
RECURSIVE Denoted(_, _, _, _, _)
Eval(D, g, group)    == Denoted("pattern", D, g, group, NULL)
Meaning(D, q)        == Denoted("query", D, D.active, q, NULL)
Settled(D, g, m, e)  == Denoted("expression", D, g, e, m)

RECURSIVE Scalar(_, _)

\* The value of an expression without subqueries in a solution.
Scalar(m, e) ==
  CASE e[1] = "var" -> IF e[2] \in DOMAIN m THEN m[e[2]] ELSE NULL
    [] e[1] \in ValueTags -> e
    [] e[1] = "cast" -> CastValue(e[2], Scalar(m, e[3]))
    [] OTHER -> OperatorValue(e[1], [i \in 1..(Len(e) - 1) |-> Scalar(m, e[i + 1])])

\* An expression whose subqueries and property functions are replaced by their values.
SettledExpression(D, g, m, e) ==
  LET about(B) == {n \in DOMAIN B : Compatible(m, n)}
      value(v, p) == AnyOf({q[4] : q \in {r \in Active(D, g) : r[2] = v /\ r[3] = p}})
  IN  CASE e[1] = "exists" -> Bool(about(Eval(D, g, e[2])) # {})
        [] e[1] = "sub" -> LET s == Meaning([D EXCEPT !.active = g], e[2])
                               v == Named(e[2].items[1])
                           IN  AnyOf({n[v] : n \in {k \in DOMAIN s : v \in DOMAIN k}})
        [] e[1] = "property" -> value(Scalar(m, e[3]), e[2])
        [] e[1] \in ValueTags \cup {"var"} -> e
        [] OTHER -> [i \in 1..Len(e) |-> IF i = 1 \/ (e[1] = "cast" /\ i = 2) THEN e[i]
                                         ELSE Settled(D, g, m, e[i])]
Holding(D, g, m, e) == Scalar(m, Settled(D, g, m, e))

ValuesBag(vars, rows) ==
  LET bound(r) == {j \in DOMAIN r : r[j] # NULL}
      row(r) == [v \in {vars[i] : i \in bound(r)} |-> r[CHOOSE i \in DOMAIN r : vars[i] = v]]
  IN  FoldLeft(LAMBDA C, r : BagPlus(C, SetBag({row(r)})), NoBag, rows)

\* What an element adds to the solutions B; inner has, for every graph, the
\* solutions of the groups in it.
Added(D, g, B, e, inner) ==
  CASE e.k = "triples"  -> FoldSet(LAMBDA t, C : JoinOf(C, TripleSolutions(Active(D, g), t)), B,
                                   PlainTriples(e.ts))
    [] e.k = "group"    -> JoinOf(B, inner[g])
    [] e.k = "optional" -> LeftJoinOf(B, inner[g])
    [] e.k = "minus"    -> MinusOf(B, inner[g])
    [] e.k = "graph" /\ ~IsVar(e.name) -> JoinOf(B, inner[e.name[2]])
    [] e.k = "graph" /\ IsVar(e.name)  ->
         LET in(h) == JoinOf(SetBag({VarName(e.name) :> Iri(h)}), inner[h])
         IN  JoinOf(B, FoldSet(LAMBDA h, C : BagPlus(C, in(h)), NoBag, D.named))
    [] e.k = "bind"     -> MapBag(LAMBDA m : Extend(m, e.v, Holding(D, g, m, e.e)), B)
    [] e.k = "values"   -> JoinOf(B, ValuesBag(e.vars, e.rows))
    [] e.k = "service"  -> JoinOf(B, SetBag(e.rows))
    [] e.k = "sub"      -> JoinOf(B, Meaning([D EXCEPT !.active = g], e.q))
    [] e.k = "filter"   -> B
GroupsOf(e) == IF e.k = "group" THEN e.alts ELSE <<e.g>>
Step(D, g, B, e) ==
  Added(D, g, B, e,
        [h \in GraphName \cup {DefaultGraph, Anywhere} |->
           FoldLeft(LAMBDA C, a : BagPlus(C, Eval(D, h, a)), NoBag, GroupsOf(e))])

\* The filters of a group hold of its solutions wherever they are written.
PatternSolutions(D, g, group) ==
  LET all == FoldLeft(LAMBDA B, e : Step(D, g, B, e), Unit, group)
      filters == {group[i].e : i \in {j \in DOMAIN group : group[j].k = "filter"}}
  IN  BagWhere(all, LAMBDA m : \A e \in filters : Truth(Holding(D, g, m, e)))

-----------------------------------------------------------------------------
(***************************************************************************)
(* Projection and aggregation: the bag of solutions of a SELECT, before    *)
(* LIMIT and OFFSET.                                                       *)
(***************************************************************************)
Aggregated(name, V) ==
  CASE name = "count" -> Num(Size(V))
    [] name = "count distinct" -> Num(Cardinality(DOMAIN V))
    [] name # "count" /\ name # "count distinct" /\ DOMAIN V = {} -> NULL
    [] name = "sum" -> Num(SumOf([v \in DOMAIN V |-> V[v] * v[2]]))
    [] name \in {"min", "max"} ->
         CHOOSE v \in DOMAIN V : \A w \in DOMAIN V : IF name = "min" THEN v[2] <= w[2] ELSE v[2] >= w[2]
    [] name = "sample" -> AnyOf(DOMAIN V)

\* The value of an expression in a bag of solutions.
InGroup(D, g, e, B) ==
  LET over == IF e[1] \in Aggregates THEN e[2] ELSE e
      of == MapBag(LAMBDA m : Holding(D, g, m, over), B)
  IN  IF e[1] \in Aggregates THEN Aggregated(e[1], BagWhere(of, LAMBDA v : v # NULL))
      ELSE AnyOf(DOMAIN of)

\* A condition of HAVING, whose arguments may be aggregates.
Filtered(D, g, having, B) ==
  \A i \in DOMAIN having :
    Truth(Scalar(NoBindings,
                 [j \in DOMAIN having[i] |->
                    IF j = 1 THEN having[i][1] ELSE InGroup(D, g, having[i][j], B)]))

\* The solutions of the groups of solutions, with the columns of the items.
GroupsBy(q, items, keyed) ==
  LET all == MapBag(LAMBDA p : p[2], keyed)
      of(k) == MapBag(LAMBDA p : p[2], BagWhere(keyed, LAMBDA p : p[1] = k))
      aggregates == \E i \in DOMAIN items : items[i].e[1] \in Aggregates
  IN  IF q.by # << >> THEN SetBag({of(k) : k \in {p[1] : p \in DOMAIN keyed}})
      ELSE IF aggregates THEN SetBag({all}) ELSE MapBag(LAMBDA m : SetBag({m}), all)
Projection(D, g, q, items, all) ==
  LET key(m) == [i \in DOMAIN q.by |-> Holding(D, g, m, q.by[i].e)]
      row(B) == FoldLeft(LAMBDA m, i : Extend(m, Named(i), InGroup(D, g, i.e, B)), NoBindings, items)
      groups == GroupsBy(q, items, MapBag(LAMBDA m : <<key(m), m>>, all))
  IN  MapBag(row, BagWhere(groups, LAMBDA B : Filtered(D, g, q.having, B)))

AllItems(all) == Listing({[e |-> Var(v), as |-> None] : v \in UNION {DOMAIN m : m \in DOMAIN all}})
Solved(D, q, all) ==
  Projection(D, D.active, q, IF q.items = None THEN AllItems(all) ELSE q.items, all)
Once(q, bag) == IF q.distinct THEN SetBag(DOMAIN bag) ELSE bag
QuerySolutions(D, q) ==
  LET given == IF q.values = None THEN Unit ELSE ValuesBag(q.values.vars, q.values.rows)
  IN  Once(q, Solved(D, q, JoinOf(Eval(D, D.active, q.g), given)))

Denoted(what, D, g, a, m) ==
  CASE what = "pattern"    -> PatternSolutions(D, g, a)
    [] what = "query"      -> QuerySolutions(D, a)
    [] what = "expression" -> SettledExpression(D, g, m, a)

-----------------------------------------------------------------------------
(***************************************************************************)
(* Answers.                                                                *)
(***************************************************************************)
DatasetOf(q, data, graphs) ==
  LET allowed == Constrained(q.constraints, GraphName) \cap graphs
  IN  [data |-> data, active |-> Anywhere,
       default |-> IF q.from = << >> /\ q.named = << >> THEN allowed ELSE allowed \cap Range(q.from),
       named |-> IF q.named = << >> THEN allowed \ {DefaultGraph} ELSE allowed \cap Range(q.named)]

\* The solutions a relation stands for.
SolutionsOf(rel) ==
  MapBag(LAMBDA r : Only(r, {c \in rel.cols : r[c] # NULL}), rel.rows)

\* A limit keeps some of the solutions.
CutOf(B, C, limit, offset) ==
  LET left == Max({0, Size(C) - (IF offset = None THEN 0 ELSE offset)})
  IN  /\ \A m \in DOMAIN B : B[m] <= Times(C, m)
      /\ Size(B) = IF limit = None \/ limit > left THEN left ELSE limit

Sorted(list, order) ==
  \A i, j \in DOMAIN list : i < j =>
    LET key(k) == [n \in DOMAIN order |-> list[k][VarName(order[n].e)]]
    IN  ~KeyBefore(order, key(j), key(i))

Instantiated(m, t) ==
  LET value(u) == IF IsVar(u) THEN m[VarName(u)] ELSE u
  IN  [c \in TripleColumns |-> CASE c = "subject" -> value(t.s) [] c = "predicate" -> value(t.p)
                                 [] c = "object" -> value(t.o)]
Bindable(m, t) == \A u \in {t.s, t.p, t.o} : IsVar(u) => VarName(u) \in DOMAIN m

\* A pattern outside GRAPH needs the default graph.
Permitted(q) ==
  LET outside == {i \in DOMAIN q.body.g : q.body.g[i].k = "triples"}
  IN  outside # {} => DefaultGraph \in Constrained(q.constraints, GraphName)

\* Whether an answer is the one SPARQL defines.
Correct(answer, q, D, all) ==
  LET named(m, r) == IF IsVar(r) THEN {m[VarName(r)]} ELSE {r}
      described == IF q.resources = << >> THEN {}
                   ELSE {r \in Range(q.resources) : ~IsVar(r)}
                          \cup UNION {named(m, r) : m \in DOMAIN all,
                                        r \in {s \in Range(q.resources) : IsVar(s)}}
  IN  CASE q.form = "select" ->
             /\ CutOf(SolutionsOf(answer.rel), all, q.body.limit, q.body.offset)
             /\ q.body.order # << >> => Sorted(answer.list, q.body.order)
        [] q.form = "ask" ->
             answer.rel.rows = SetBag({[c \in {"result"} |-> Bool(DOMAIN all # {})]})
        [] q.form = "construct" ->
             DOMAIN answer.rel.rows =
               {Instantiated(m, t) : <<m, t>> \in
                  {z \in (DOMAIN all) \X Range(q.template) : Bindable(z[1], z[2])}}
        [] q.form = "describe" ->
             {<<r.subject, r.predicate, r.object>> : r \in DOMAIN answer.rel.rows} =
               {<<d[2], Iri(d[3]), d[4]>> : d \in {e \in Active(D, Anywhere) : e[2] \in described}}

BodySolutions(D, q) == IF q.body = None THEN NoBag ELSE Meaning(D, q.body)
CorrectAnswer(answer, q, data, graphs) ==
  LET D == DatasetOf(q, data, graphs) IN Correct(answer, q, D, BodySolutions(D, q))
=============================================================================
