-------------------------------- MODULE Sparql -------------------------------
(***************************************************************************)
(* Prepared queries and updates of one store (TrackerSparql).  Updates run *)
(* one at a time, each batch of statements in a transaction of its own: a  *)
(* statement is translated when the generation of the graphs is not the    *)
(* one it was translated for, an operation at a time, and then applied, a  *)
(* group of update operations at a time.  A reader executes one prepared   *)
(* query again and again: it is translated if the generation has changed,  *)
(* and what it was translated to runs on the data there is then.           *)
(***************************************************************************)
EXTENDS UpdateRequests, SparqlAlgebra

CONSTANTS Updates,      \* name -> record of the operations and the constraints of an update
          Selects,      \* name -> query
          Scripts       \* the sequences of batches to run, a batch a sequence of names

VARIABLES
  store,        \* committed data, graphs and generation
  trans,        \* those of the transaction, and whether it has failed
  prepared,     \* update -> the generation, operations and groups of its translation
  script,       \* the batches to run
  run,          \* where the running batch is
  expected,     \* the store its statements are meant to leave
  statement,    \* the reader's query and its translation
  answer        \* what the reader got

sparqlVars == <<store, trans, prepared, script, run, expected, statement, answer>>

Nothing == [data |-> {}, fts |-> {}]
NoAnswer == [failed |-> FALSE, known |-> FALSE]
Idle == [batch |-> << >>, step |-> "idle", n |-> 1, group |-> 1, silent |-> FALSE,
         x |-> NewContext(Nothing, {}, {}, {})]
Open(s) == [data |-> s.data, fts |-> s.fts, graphs |-> s.graphs, generation |-> s.generation,
            nodes |-> s.nodes, bnodes |-> << >>, failed |-> FALSE]
Closed(tr) == [data |-> tr.data, fts |-> tr.fts, graphs |-> tr.graphs, generation |-> tr.generation,
               nodes |-> tr.nodes]

\* The maps of the nodes without a label end with the statement, those of labels with
\* the batch.
OnlyLabels(tr) ==
  [tr EXCEPT !.bnodes = [t \in {u \in DOMAIN @ : u[1] = "label"} |-> @[t]]]
Untranslated == [generation |-> 0, ops |-> << >>, groups |-> << >>]

Init ==
  /\ store = [data |-> {}, fts |-> {}, graphs |-> {DefaultGraph}, generation |-> 1, nodes |-> 0]
  /\ trans = Open(store)
  /\ prepared = [u \in DOMAIN Updates |-> Untranslated]
  /\ script \in Scripts
  /\ run = Idle
  /\ expected = trans
  /\ statement \in [q : DOMAIN Selects, generation : {0}, graphs : {{}}, ready : {FALSE}, broken : {FALSE}]
  /\ answer = NoAnswer

readerVars == <<statement, answer>>
Current == Head(run.batch)
Request == Updates[Current]

-----------------------------------------------------------------------------
(***************************************************************************)
(* What SPARQL says a request means: every operation on what the one       *)
(* before it has left, with the graphs it names itself.                    *)
(***************************************************************************)
Ground(m, u) == IF u # Anywhere /\ IsVar(u) THEN Resolved(m, u) ELSE u
Node1(i, m, u) == IF u[1] = "bnode" THEN <<"bnode", i, u[2]>> ELSE Ground(m, u)
InstancesOf(kind, silent, with, quads, templates, solutions) ==
  LET graph(m, q) == Ground(m, IF q.graph # None THEN q.graph ELSE with)
      op(i, q, t) == [kind |-> kind, silent |-> silent, graph |-> graph(solutions[i], q),
                      s |-> Node1(i, solutions[i], t.s), p |-> Ground(solutions[i], t.p),
                      o |-> Node1(i, solutions[i], t.o)]
      complete(u) == NULL \notin {u.graph, u.s, u.p} /\ (u.o = NULL => kind = "REPLACE")
      of(i, q, ts) == SelectSeq([j \in DOMAIN ts |-> op(i, q, ts[j])], complete)
      per(i) == FlattenSeq([j \in DOMAIN quads |-> of(i, quads[j], templates[j])])
  IN  FlattenSeq([i \in DOMAIN solutions |-> per(i)])
Templates(quads) ==
  LET add(acc, w) == [x |-> w.x, all |-> Append(acc.all, w.ts)]
  IN  FoldLeft(LAMBDA acc, q : add(acc, Written(acc.x, q.ts, "update")),
               [x |-> NewContext(Nothing, {}, {}, {}), all |-> << >>], quads).all
Instances(kind, silent, with, quads, solutions) ==
  InstancesOf(kind, silent, with, quads, Templates(quads), solutions)

QuadsGroup(quads) ==
  [i \in DOMAIN quads |->
     LET block == [k |-> "triples", ts |-> quads[i].ts]
     IN  IF quads[i].graph = None THEN block
         ELSE [k |-> "graph", name |-> quads[i].graph, g |-> <<block>>]]

UsingSet(op, isNamed) ==
  {op.using[i].graph : i \in {j \in DOMAIN op.using : op.using[j].named = isNamed}}
UpdateDataset(tr, op) ==
  LET default == UsingSet(op, FALSE)
      all == [data |-> tr.data, active |-> Anywhere,
              default |-> tr.graphs, named |-> tr.graphs \ {DefaultGraph}]
  IN  IF default = {} THEN all ELSE [all EXCEPT !.default = default]

WithOf(op) == IF op.k = "modify" /\ op.with # None THEN op.with ELSE Anywhere
WhereOf(op) ==
  CASE op.k = "delete where" -> QuadsGroup(op.quads)
    [] op.k = "modify" /\ op.where # None -> op.where
    [] OTHER -> << >>
UsingOf(op) == IF op.k = "modify" THEN op ELSE [using |-> << >>]
SolutionList(tr, op) == Listing(DOMAIN Eval(UpdateDataset(tr, UsingOf(op)), WithOf(op), WhereOf(op)))

\* The clauses of an operation that change triples.
Change(kind, silent, graph, quads) ==
  <<[kind |-> kind, silent |-> silent, graph |-> graph, quads |-> quads]>>
ClausesOf(op) ==
  LET token == IF WithOf(op) = Anywhere THEN Anywhere ELSE Iri(WithOf(op))
      into == IF op.insert.into = None THEN token ELSE Iri(op.insert.into)
  IN  CASE op.k = "insert data" -> Change("INSERT", FALSE, Anywhere, op.quads)
        [] op.k \in {"delete data", "delete where"} -> Change("DELETE", FALSE, Anywhere, op.quads)
        [] op.k = "modify" ->
             (IF op.delete = None THEN << >>
              ELSE Change("DELETE", op.delete.silent, token, op.delete.quads))
             \o (IF op.insert = None THEN << >>
                 ELSE Change(IF op.insert.replace THEN "REPLACE" ELSE "INSERT",
                             op.insert.silent, into, op.insert.quads))
        [] OTHER -> << >>
TripleOps(clauses, solutions) ==
  FlattenSeq([i \in DOMAIN clauses |->
    LET c == clauses[i] IN Instances(c.kind, c.silent, c.graph, c.quads, solutions)])

GraphOps(allowed, op) ==
  LET x == NewContext(Nothing, {}, allowed, {})
      ref == IF op.ref[1] = "graph" THEN Iri(op.ref[2]) ELSE Anywhere
  IN  CASE op.k = "load" ->
             LoadOp(x, op.silent, IF op.into = None THEN Anywhere ELSE Iri(op.into), op.file).ops
        [] op.k \in {"clear", "drop"} -> GraphOp(x, op.k, op.silent, ref, op.ref[1]).ops
        [] op.k = "create" -> GraphOp(x, "create", op.silent, Iri(op.graph), "default").ops
        [] op.k \in {"add", "move", "copy"} -> DumpOp(x, op.k, op.silent, op.from, op.to).ops
        [] OTHER -> << >>

MeantOps(tr, allowed, op) ==
  TripleOps(ClausesOf(op), SolutionList(tr, op)) \o GraphOps(allowed, op)

Meant(tr, request) ==
  LET allowed == Constrained(request.constraints, GraphName)
  IN  FoldLeft(LAMBDA t, op : OnlyLabels(ApplyRows(t, MeantOps(t, allowed, op), <<NoBindings>>)),
               tr, request.ops)

-----------------------------------------------------------------------------
(***************************************************************************)
(* Updates.                                                                *)
(***************************************************************************)
BeginBatch ==
  /\ run.step = "idle" /\ script # << >>
  /\ run' = [Idle EXCEPT !.batch = Head(script), !.step = "statement"]
  /\ script' = Tail(script)
  /\ trans' = Open(store)
  /\ expected' = Open(store)
  /\ UNCHANGED <<store, prepared, readerVars>>

\* tracker_sparql_execute_update: tracker_sparql_needs_update notes the generation
\* before the translation, which starts from nothing.
StartStatement ==
  /\ run.step = "statement" /\ run.batch # << >>
  /\ LET allowed == Constrained(Request.constraints, GraphName)
         x == NewContext(Nothing, trans.graphs, allowed, ServiceName)
     IN  IF prepared[Current].generation # trans.generation
         THEN /\ prepared' = [prepared EXCEPT ![Current] =
                                [Untranslated EXCEPT !.generation = trans.generation]]
              /\ run' = [run EXCEPT !.step = "translate", !.n = 1, !.x = x, !.silent = FALSE]
         ELSE /\ run' = [run EXCEPT !.step = "apply", !.n = 1, !.group = 1]
              /\ UNCHANGED prepared
  /\ expected' = Meant(expected, Request)
  /\ UNCHANGED <<store, trans, script, readerVars>>

\* translate_Update, with tracker_sparql_begin_update_op_group and ..._end_...
Recorded(t) ==
  LET p == prepared[Current]
      group == [first |-> Len(p.ops) + 1, last |-> Len(p.ops) + Len(t.ops), where |-> t.where]
  IN  /\ prepared' = [prepared EXCEPT ![Current].ops = @ \o t.ops,
                                      ![Current].groups = IF t.failed THEN @ ELSE Append(@, group)]
      /\ run' = [run EXCEPT !.n = @ + 1, !.x = t.x, !.silent = t.silent]
      /\ trans' = [trans EXCEPT !.failed = t.failed]
TranslateNext ==
  /\ run.step = "translate" /\ run.n <= Len(Request.ops) /\ ~trans.failed
  /\ Recorded(TranslateOperation(run.x, run.silent, Request.ops[run.n]))
  /\ UNCHANGED <<store, script, expected, readerVars>>

Translate ==
  /\ run.step = "translate" /\ run.n > Len(Request.ops) /\ ~trans.failed
  /\ run' = [run EXCEPT !.step = "apply", !.n = 1, !.group = 1]
  /\ UNCHANGED <<store, trans, prepared, script, expected, readerVars>>

\* The assertions of apply_update on the groups.
GroupAssertions(p, n, group) ==
  /\ group <= Len(p.groups)
  /\ p.groups[group].first = n /\ p.groups[group].last >= n

\* apply_update
ApplyNext ==
  /\ run.step = "apply" /\ ~trans.failed /\ run.n <= Len(prepared[Current].ops)
  /\ LET p == prepared[Current]
         g == p.groups[run.group]
     IN  IF GroupAssertions(p, run.n, run.group)
         THEN /\ trans' = ApplyGroup(trans, SubSeq(p.ops, g.first, g.last), g.where)
              /\ run' = [run EXCEPT !.n = g.last + 1, !.group = @ + 1]
         ELSE run' = [run EXCEPT !.step = "aborted"] /\ UNCHANGED trans
  /\ UNCHANGED <<store, prepared, script, expected, readerVars>>

FinishStatement ==
  /\ run.step = "apply" /\ ~trans.failed /\ run.n > Len(prepared[Current].ops)
  /\ run' = [run EXCEPT !.step = "statement", !.batch = Tail(@)]
  /\ trans' = OnlyLabels(trans)
  /\ UNCHANGED <<store, prepared, script, expected, readerVars>>

\* tracker_data_manager_commit_graphs
Commit ==
  /\ run.step = "statement" /\ run.batch = << >>
  /\ store' = Closed(trans)
  /\ run' = Idle
  /\ UNCHANGED <<trans, prepared, script, expected, readerVars>>

\* tracker_data_manager_rollback_graphs: a statement that fails undoes its batch.
Rollback ==
  /\ trans.failed /\ run.step \in {"translate", "apply"}
  /\ trans' = Open(store)
  /\ run' = Idle
  /\ UNCHANGED <<store, prepared, script, expected, readerVars>>

-----------------------------------------------------------------------------
(***************************************************************************)
(* The reader.                                                             *)
(***************************************************************************)
\* tracker_sparql_execute_cursor: the translation.  One that fails leaves the SQL
\* there is so far to later executions.
TranslationOf(a) ==
  [statement EXCEPT !.generation = store.generation, !.graphs = store.graphs,
                        !.ready = ~a.failed, !.broken = a.failed]
Translation == TranslationOf(QueryAnswer(Selects[statement.q], Nothing, store.graphs))
PrepareSelect ==
  /\ ~statement.ready
  /\ statement' = IF statement.generation = store.generation THEN [statement EXCEPT !.ready = TRUE]
                  ELSE Translation
  /\ answer' = IF statement'.ready THEN NoAnswer ELSE [failed |-> TRUE, known |-> TRUE]
  /\ UNCHANGED <<store, trans, prepared, script, run, expected>>

\* What is in the tables the statement was translated for.
Seen ==
  LET in(quads) == {q \in quads : q[1] \in statement.graphs}
  IN  [data |-> in(store.data), fts |-> in(store.fts)]

\* tracker_sparql_execute_cursor: prepare_query and the cursor.  A statement fails if
\* it uses a table of a graph that is gone; what half a translation gives is unknown.
ExecuteSelect ==
  /\ statement.ready
  /\ statement' = [statement EXCEPT !.ready = FALSE]
  /\ IF statement.broken THEN answer' = NoAnswer
     ELSE \/ answer' = With(QueryAnswer(Selects[statement.q], Seen, statement.graphs), "known", TRUE)
          \/ /\ ~(statement.graphs \subseteq store.graphs)
             /\ answer' = [failed |-> TRUE, known |-> TRUE]
  /\ UNCHANGED <<store, trans, prepared, script, run, expected>>

Next ==
  \/ BeginBatch
  \/ StartStatement
  \/ TranslateNext
  \/ Translate
  \/ ApplyNext
  \/ FinishStatement
  \/ Commit
  \/ Rollback
  \/ PrepareSelect
  \/ ExecuteSelect

Spec == Init /\ [][Next]_sparqlVars
-----------------------------------------------------------------------------
\* A query answers what SPARQL defines for the data there is when it runs, in the
\* graphs there were when it was translated, where CLEAR, ADD, MOVE and COPY have not
\* left the fulltext indexes behind; it fails only if one of the graphs is gone or
\* its constraints do not permit it (tracker_sparql_execute_cursor, and all of the
\* translation).
AnswerExact ==
  [][answer'.known /\ answer # answer' /\ store.fts = TextOf(store.data) =>
       IF answer'.failed THEN \/ ~(statement.graphs \subseteq store.graphs)
                              \/ ~Permitted(Selects[statement.q])
       ELSE /\ Permitted(Selects[statement.q])
            /\ CorrectAnswer(answer', Selects[statement.q], Seen.data, statement.graphs)]_sparqlVars

\* A statement leaves what SPARQL Update defines for its operations one after the
\* other, whatever it was translated for, and fails only where one of them has to
\* (tracker_sparql_execute_update).
UpdateExact ==
  /\ run.step = "statement" =>
       /\ ~expected.failed
       /\ trans.data = expected.data /\ trans.graphs = expected.graphs
  /\ trans.failed => expected.failed

\* A translation of the current generation was made for the current graphs, so that
\* comparing generations is enough (tracker_sparql_needs_update).
TranslationsCurrent ==
  /\ statement.generation = store.generation => statement.graphs = store.graphs
  /\ run.step = "statement" =>
       \A u \in DOMAIN Updates : prepared[u].generation = trans.generation =>
         \A i \in DOMAIN prepared[u].groups :
           LET w == prepared[u].groups[i].where
           IN  w # NoWhere => w.x.graphs = trans.graphs

\* The fulltext indexes that fts:match reads hold the fulltext values of the data
\* ("will match the resources matching the given text string",
\* docs/reference/sparql-and-tracker.md): what tracker_data_manager_clear_graph and
\* tracker_data_manager_copy_graph have to keep up.
FulltextCurrent == run.step = "idle" => store.fts = TextOf(store.data)
=============================================================================
