---------------------------- MODULE UpdateRequests ---------------------------
(***************************************************************************)
(* Translation of update requests to update operations, and what these do  *)
(* to the quads and the graphs of a transaction (translate_Update1 and the *)
(* rules below it, apply_update in core/tracker-sparql.c).                 *)
(*                                                                         *)
(* An operation of a request is a record with a field k: "load" silent     *)
(* file into, "clear" or "drop" silent ref, "create" silent graph, "add",  *)
(* "move" or "copy" silent from to, "insert data" or "delete data" quads,  *)
(* "delete where" quads, "modify" with delete insert using where.  quads   *)
(* is a sequence of records graph (None, a variable or an IRI) and ts.     *)
(* What statements do to the triples of one graph is in TripleSemantics.   *)
(***************************************************************************)
EXTENDS Queries, TripleSemantics

CONSTANT Files          \* file -> the sequence of its triples, or None if it cannot be read

Ops(x, ops) == [x |-> x, ops |-> ops, failed |-> FALSE]

\* Mutant: all quads go to the graph in force.
QuadOpsOneGraph(x, kind, silent, quads) ==
  LET op(t) == [kind |-> kind, silent |-> silent, graph |-> x.graph, s |-> t.s, p |-> t.p, o |-> t.o]
      put(acc, w) == [acc EXCEPT !.x = w.x, !.ops = @ \o [i \in DOMAIN w.ts |-> op(w.ts[i])]]
  IN  FoldLeft(LAMBDA acc, q : put(acc, Written(acc.x, q.ts, "update")), Ops(x, << >>), quads)

\* tracker_sparql_append_triple_update_op, for the triples of a template.
QuadsAdded(acc, w, kind, silent, graph) ==
  LET op(t) == [kind |-> kind, silent |-> silent, graph |-> graph, s |-> t.s, p |-> t.p, o |-> t.o]
  IN  IF acc.failed \/ (w.ts # << >> /\ Disallowed([w.x EXCEPT !.graph = graph]))
      THEN [acc EXCEPT !.failed = TRUE]
      ELSE [acc EXCEPT !.x = w.x, !.ops = @ \o [i \in DOMAIN w.ts |-> op(w.ts[i])]]
QuadOps(x, kind, silent, quads) ==
  LET add(acc, q) == QuadsAdded(acc, Written(acc.x, q.ts, "update"), kind, silent,
                                IF q.graph = None THEN x.graph ELSE q.graph)
  IN  FoldLeft(add, Ops(x, << >>), quads)

\* tracker_sparql_append_graph_update_op, ..._graph_dump_update_op, ..._load_update_op
GraphOp(x, kind, silent, graph, which) ==
  Ops(x, <<[kind |-> kind, silent |-> silent, graph |-> graph, which |-> which, allowed |-> x.allowed]>>)
DumpOp(x, kind, silent, from, to) ==
  Ops(x, <<[kind |-> kind, silent |-> silent, from |-> from, to |-> to, allowed |-> x.allowed]>>)
LoadOp(x, silent, graph, file) ==
  Ops(x, <<[kind |-> "load", silent |-> silent, graph |-> graph, file |-> file]>>)

\* translate_UsingClause: graphs are added to those of earlier operations.
Used(set, uses, isNamed) ==
  LET new == {uses[i].graph : i \in {j \in DOMAIN uses : uses[j].named = isNamed}}
  IN  IF new = {} THEN set ELSE IF set = None THEN new ELSE set \cup new
Using(x, uses) == [x EXCEPT !.from = Used(@, uses, FALSE), !.named = Used(@, uses, TRUE)]

-----------------------------------------------------------------------------
(***************************************************************************)
(* WHERE clauses: translated with the operation, run when it is applied.   *)
(***************************************************************************)
NoWhere == [k |-> "none"]
Fresh(x) == [x EXCEPT !.views = << >>, !.types = << >>, !.elements = {}, !.data = {}, !.fts = {}]

\* The rule QuadPattern of DELETE WHERE is one triples block; the graph its tables
\* are read from is the one in force at its end.
QuadTriples(y, w) == FoldLeft(AddQuad, [y EXCEPT !.x = w.x], w.ts)
QuadsEnd(y, graph) ==
  LET x == [y.x EXCEPT !.graph = graph] IN [x |-> x, rel |-> EndTriplesBlock(x, y.b)]
QuadsBlock(x, quads) ==
  LET graph(q) == IF q.graph = None THEN x.graph ELSE q.graph
      add(y, q) == QuadTriples(y, Written([y.x EXCEPT !.graph = graph(q)], q.ts, "select"))
  IN  QuadsEnd(FoldLeft(add, [x |-> x, b |-> NewBlock], quads), x.graph)

\* prepare_update_where_clause_select, run on the quads of the transaction.
WhereResult(w, tr) ==
  LET x == [w.x EXCEPT !.data = tr.data, !.fts = tr.fts]
  IN  CASE w.k = "quads" -> QuadsBlock(x, w.quads)
        [] w.k = "group" -> Group(x, w.g)

\* The union views name the tables of graphs that may be gone.
MissingTables(x, tr) ==
  \E t \in DOMAIN x.views : ~(GraphsIn(x, x.views[t]) \subseteq tr.graphs)

-----------------------------------------------------------------------------
(***************************************************************************)
(* One operation of a request: the translator's state after it, the update *)
(* operations of its group and its WHERE clause.                           *)
(***************************************************************************)
Translated(silent, new, where) ==
  [x |-> new.x, silent |-> silent, ops |-> new.ops, where |-> where, failed |-> new.failed]
Unset(x) == [x EXCEPT !.graph = Anywhere]

\* translate_Load: the graph of INTO stays set for later operations.
TranslateLoad(x, silent, op) ==
  LET y == IF op.into = None THEN x ELSE [x EXCEPT !.graph = Iri(op.into)]
  IN  Translated(silent, LoadOp(y, op.silent, y.graph, op.file), NoWhere)

\* translate_Clear, translate_Drop, translate_GraphRefAll: DEFAULT, NAMED and ALL
\* leave the graph as it was.
TranslateClear(x, silent, op) ==
  LET graph == IF op.ref[1] = "graph" THEN Iri(op.ref[2]) ELSE x.graph
  IN  Translated(silent, GraphOp(Unset(x), op.k, op.silent, graph, op.ref[1]), NoWhere)

\* translate_Create
TranslateCreate(x, silent, op) ==
  Translated(silent, GraphOp(Unset(x), "create", op.silent, Iri(op.graph), "default"), NoWhere)

\* translate_Add, translate_Move, translate_Copy, translate_GraphOrDefault
TranslateDump(x, silent, op) ==
  Translated(silent, DumpOp(Unset(x), op.k, op.silent, op.from, op.to), NoWhere)

\* translate_InsertData, translate_DeleteData: silent is that of an earlier operation.
TranslateData(x, silent, op) ==
  Translated(silent,
             QuadOps(x, IF op.k = "insert data" THEN "INSERT" ELSE "DELETE", silent, op.quads), NoWhere)

\* translate_DeleteWhere
TranslateDeleteWhere(x, silent, op) ==
  Translated(silent, QuadOps(x, "DELETE", silent, op.quads),
             [k |-> "quads", x |-> Fresh(x), quads |-> op.quads])

\* translate_DeleteClause, translate_InsertClause
Clause(x, c, kind, graph) ==
  IF c = None THEN Ops(x, << >>) ELSE QuadOps([x EXCEPT !.graph = graph], kind, c.silent, c.quads)
DeleteClause(x, d) == Clause(x, d, "DELETE", x.graph)
InsertClause(x, i) ==
  Clause(x, i, IF i # None /\ i.replace THEN "REPLACE" ELSE "INSERT",
         IF i = None \/ i.into = None THEN x.graph ELSE Iri(i.into))

\* translate_Modify
ModifyWhere(in, op) == IF op.where = None THEN NoWhere ELSE [k |-> "group", x |-> Fresh(in), g |-> op.where]
Modified(op, where, del, ins) ==
  Translated(IF op.insert # None THEN op.insert.silent ELSE op.delete.silent,
             [x |-> [ins.x EXCEPT !.graph = Anywhere],
              ops |-> IF del.failed THEN del.ops ELSE del.ops \o ins.ops,
              failed |-> del.failed \/ ins.failed \/ (where.k = "group" /\ Group(where.x, where.g).x.failed)],
             where)
ModifyIn(in, op) == Modified(op, ModifyWhere(in, op), DeleteClause(in, op.delete), InsertClause(in, op.insert))
TranslateModify(x, silent, op) ==
  ModifyIn(Using(IF op.with = None THEN x ELSE [x EXCEPT !.graph = Iri(op.with)], op.using), op)

\* translate_Update1
TranslateOperation(x, silent, op) ==
  CASE op.k = "load"               -> TranslateLoad(x, silent, op)
    [] op.k \in {"clear", "drop"}  -> TranslateClear(x, silent, op)
    [] op.k = "create"             -> TranslateCreate(x, silent, op)
    [] op.k \in {"add", "move", "copy"} -> TranslateDump(x, silent, op)
    [] op.k \in {"insert data", "delete data"} -> TranslateData(x, silent, op)
    [] op.k = "delete where"       -> TranslateDeleteWhere(x, silent, op)
    [] op.k = "modify"             -> TranslateModify(x, silent, op)

-----------------------------------------------------------------------------
(***************************************************************************)
(* The effect of update operations on tr, a record with data, fts (the     *)
(* fulltext indexes), graphs, generation, nodes (the blank nodes made so   *)
(* far), bnodes (those that labels and anonymous nodes stand for) and      *)
(* failed.                                                                 *)
(***************************************************************************)
Erring(tr) == [tr EXCEPT !.failed = TRUE]

\* Mutant: the generation stays the same.
CreateGraphSilently(tr, g) == [tr EXCEPT !.graphs = @ \cup {g}]

\* tracker_data_manager_create_graph, ..._drop_graph and ..._clear_graph: CLEAR leaves
\* the fulltext index of the graph alone.
CreateGraph(tr, g) ==
  [tr EXCEPT !.graphs = @ \cup {g}, !.generation = @ + 1]
ClearGraph(tr, g) ==
  IF g \notin tr.graphs THEN Erring(tr) ELSE [tr EXCEPT !.data = {q \in @ : q[1] # g}]
DropGraph(tr, g) ==
  IF g = DefaultGraph \/ g \notin tr.graphs THEN ClearGraph(tr, g)
  ELSE [ClearGraph(tr, g) EXCEPT !.fts = {q \in @ : q[1] # g},
                                 !.graphs = @ \ {g}, !.generation = @ + 1]

\* tracker_data_manager_copy_graph: whole rows of the tables of classes are replaced;
\* nothing is put into the fulltext index.
CopyGraph(tr, source, destination) ==
  LET new == {<<destination, q[2], q[3], q[4]>> : q \in {r \in tr.data : r[1] = source}}
      replaced == {q \in tr.data :
                     /\ q[1] = destination /\ q[3] \in Prop \ Multi
                     /\ <<source, q[2], RdfType, Iri(Domain[q[3]])>> \in tr.data}
  IN  IF source = destination THEN tr ELSE [tr EXCEPT !.data = (@ \ replaced) \cup new]

\* The triples of a graph and back; classes are plain in TripleSemantics.
TriplesOf(data, g) ==
  {<<q[2], q[3], IF q[3] = RdfType THEN q[4][2] ELSE q[4]>> : q \in {r \in data : r[1] = g}}
QuadsOf(g, T) == {<<g, t[1], t[2], IF t[2] = RdfType THEN Iri(t[3]) ELSE t[3]>> : t \in T}

\* value_init_from_token: the object as a value of the property's range.
Coerced(p, v) ==
  CASE p = RdfType \/ p \in Links -> Iri(v[2])
    [] p \in Numeric -> IF v[1] = "int" THEN v ELSE NULL
    [] p \notin Links \cup Numeric \cup {RdfType} -> Printed(v)

\* The statement an operation makes on the triples of its graph.
StatementOf(kind, s, p, o) ==
  CASE p = RdfType -> [kind |-> IF kind = "DELETE" THEN "DELETE_TYPE" ELSE "INSERT_TYPE",
                       s |-> s, o |-> o[2]]
    [] p # RdfType /\ kind = "REPLACE" /\ o = NULL -> [kind |-> "REPLACE_NULL", s |-> s, p |-> p]
    [] OTHER -> [kind |-> kind, s |-> s, p |-> p, o |-> o]

TextOf(quads) == {q \in quads : q[3] \in FullText}

\* The graph is created if it does not exist, also for a deletion; the fulltext index
\* follows the statement.
Replaced(tr, g, T, U) ==
  [tr EXCEPT !.data = {q \in @ : q[1] # g} \cup QuadsOf(g, U),
             !.fts = (@ \ TextOf(QuadsOf(g, T \ U))) \cup TextOf(QuadsOf(g, U \ T))]
Left(tr, g, T, U) == IF U = Doomed THEN Erring(tr) ELSE Replaced(tr, g, T, U)
Stated(tr, g, st) ==
  LET in == IF g \in tr.graphs THEN tr ELSE CreateGraph(tr, g)
      T == TriplesOf(in.data, g)
  IN  IF Refused(T, st) THEN Erring(tr) ELSE Left(in, g, T, Result(T, st))

Known(tr, s) == \E q \in tr.data : q[2] = s \/ q[4] = s

\* resolve_token: a variable the WHERE clause does not have is unbound.
Resolved(row, t) ==
  IF IsVar(t) THEN IF VarName(t) \in DOMAIN row THEN row[VarName(t)] ELSE NULL ELSE t
TargetGraph(row, t) ==
  LET g == IF t = Anywhere THEN NULL ELSE Resolved(row, t)
  IN  IF g = NULL THEN DefaultGraph ELSE g[2]

\* tracker_sparql_map_bnode_to_rowid, tracker_data_generate_bnode
Blank(n) == Iri("bnode" \o ToString(n))
IsBlank(t) == t[1] \in {"bnode", "label"}
Mapped(tr, t) ==
  IF ~IsBlank(t) \/ t \in DOMAIN tr.bnodes THEN tr
  ELSE [tr EXCEPT !.nodes = @ + 1, !.bnodes = With(@, t, Blank(tr.nodes + 1))]

\* apply_update_op, of a triple
ApplyMapped(tr, op, row) ==
  LET term(t) == IF IsBlank(t) THEN tr.bnodes[t] ELSE Resolved(row, t)
      s == term(op.s)
      p == Resolved(row, op.p)
      o == term(op.o)
      unbound == NULL \in {s, p} \/ (o = NULL /\ op.kind # "REPLACE")
      value == IF o = NULL THEN NULL ELSE Coerced(p[2], o)
  IN  IF unbound \/ (op.kind = "DELETE" /\ ~Known(tr, s)) THEN tr
      ELSE IF p[2] \notin Prop \cup {RdfType} \/ (o # NULL /\ value = NULL) THEN Erring(tr)
      ELSE Stated(tr, TargetGraph(row, op.graph), StatementOf(op.kind, s, p[2], value))
ApplyTriple(tr, op, row) == ApplyMapped(Mapped(Mapped(tr, op.s), op.o), op, row)

\* apply_update_op, of CREATE
ApplyCreate(tr, op) ==
  IF op.graph[2] \in tr.graphs \/ op.graph[2] \notin op.allowed THEN Erring(tr)
  ELSE CreateGraph(tr, op.graph[2])

\* apply_update_op, of CLEAR and DROP
ApplyClear(tr, op) ==
  LET some == CASE op.graph # Anywhere  -> {op.graph[2]}
                [] op.graph = Anywhere /\ op.which = "default" -> {DefaultGraph}
                [] op.graph = Anywhere /\ op.which = "named"   -> tr.graphs \ {DefaultGraph}
                [] op.graph = Anywhere /\ op.which = "all"     -> tr.graphs
      one(g, t) == IF t.failed \/ g \notin op.allowed THEN Erring(t)
                   ELSE IF op.kind = "drop" THEN DropGraph(t, g) ELSE ClearGraph(t, g)
  IN  FoldSet(one, tr, some)

\* apply_update_op, of ADD, MOVE and COPY; None is DEFAULT, which a policy that lists
\* graphs never allows as the destination.
ApplyDump(tr, op) ==
  LET source == IF op.from = None THEN DefaultGraph ELSE op.from
      target == IF op.to = None THEN DefaultGraph ELSE op.to
      ready == IF target \notin tr.graphs THEN CreateGraph(tr, target)
               ELSE IF op.kind = "add" THEN tr ELSE ClearGraph(tr, target)
      full == CopyGraph(ready, source, target)
      allowed == IF op.to = None THEN op.allowed = GraphName ELSE op.to \in op.allowed
  IN  IF op.from = op.to THEN tr
      ELSE IF source \notin tr.graphs \/ ~allowed THEN Erring(tr)
      ELSE IF op.kind = "move" THEN DropGraph(full, source) ELSE full

\* apply_update_op, of LOAD
ApplyLoad(tr, op) ==
  LET g == IF op.graph = Anywhere THEN DefaultGraph ELSE op.graph[2]
      statement(t) == StatementOf(IF t.p[2] = RdfType THEN "INSERT" ELSE "LOAD", t.s, t.p[2], t.o)
  IN  IF Files[op.file] = None THEN Erring(tr)
      ELSE FoldLeft(LAMBDA t, triple : IF t.failed THEN t ELSE Stated(t, g, statement(triple)),
                    tr, Files[op.file])

\* apply_update_op: SILENT undoes an operation that fails.
AfterOp(tr, op, row) ==
  CASE op.kind \in {"INSERT", "DELETE", "REPLACE"} -> ApplyTriple(tr, op, row)
    [] op.kind = "create"                -> ApplyCreate(tr, op)
    [] op.kind \in {"clear", "drop"}     -> ApplyClear(tr, op)
    [] op.kind \in {"add", "move", "copy"} -> ApplyDump(tr, op)
    [] op.kind = "load"                  -> ApplyLoad(tr, op)
Unless(silent, tr, after) == IF silent /\ after.failed THEN tr ELSE after
ApplyOp(tr, op, row) ==
  IF tr.failed THEN tr ELSE Unless(op.silent, tr, AfterOp(tr, op, row))

\* The body of the loop of apply_update: every operation of the group for every row.
ApplyRows(tr, ops, rows) ==
  LET each == FlattenSeq([i \in DOMAIN rows |-> [j \in DOMAIN ops |-> <<ops[j], rows[i]>>]])
  IN  FoldLeft(LAMBDA t, one : ApplyOp(t, one[1], one[2]), tr, each)
RowsFound(tr, result) == IF MissingTables(result.x, tr) THEN Doomed ELSE Listing(DOMAIN result.rel.rows)
\* The cursor is read row by row, but changes reach the tables only when they are
\* flushed: for groups with WHERE, that no operation of the group is silent is
\* assumed, since such a one flushes within the loop.
ApplyFound(tr, ops, rows) == IF rows = Doomed THEN Erring(tr) ELSE ApplyRows(tr, ops, rows)
ApplyGroup(tr, ops, where) ==
  ApplyFound(tr, ops, IF where = NoWhere THEN <<[v \in {} |-> NULL]>>
                      ELSE RowsFound(tr, WhereResult(where, tr)))
=============================================================================
