----------------------------- MODULE TrackerData ----------------------------
(***************************************************************************)
(* Transactions of the local triple store: begin, the statements of an     *)
(* update, the flushes they cause, commit, rollback, a crash, and the      *)
(* clean-up done when the store is closed (core/tracker-data-update.c,     *)
(* apply_update of core/tracker-sparql.c, core/tracker-data-manager.c).    *)
(* The caller serialises transactions (see DirectConnection), so there is  *)
(* one writer.                                                             *)
(***************************************************************************)
EXTENDS UpdateBuffer

CONSTANTS
  Workloads,      \* sets of statements; the updates of a behaviour use one set
  Silent,         \* the statements that appear as INSERT/DELETE SILENT too
  ClearGraph,     \* the statement CLEAR, if a workload has it
  UpdateLogSize,  \* UPDATE_LOG_SIZE, 64 in the code
  MaxOps          \* bound on the statements of a behaviour

Statements == UNION Workloads \ {ClearGraph}

\* What a statement is about, depending on its kind.
WellFormed(st) ==
  /\ st.s \in Uri
  /\ \/ /\ st.kind \in {"INSERT", "LOAD", "DELETE", "REPLACE"}
        /\ st.p \in Prop /\ st.o \in ValueOf(st.p)
     \/ st.kind \in {"INSERT_TYPE", "DELETE_TYPE"} /\ st.o \in Class
     \/ st.kind = "REPLACE_NULL" /\ st.p \in Prop
     \/ st.kind = "SET_RESOURCE" /\ st.p \in Prop /\ st.os \in Seq(ValueOf(st.p))

ASSUME StatementsAssumption ==
  /\ \A st \in Statements : WellFormed(st)
  /\ Silent \subseteq Statements

ASSUME BoundsAssumption == UpdateLogSize \in Nat \ {0} /\ MaxOps \in Nat

VARIABLES
  db,         \* what the writable connection sees
  committed,  \* what is durable, and what readers see
  buf,        \* the update buffer
  inTx,       \* TrackerData.in_transaction
  events,     \* resources in the event caches of the notifiers
  ops,        \* statements run so far, for the bound
  work        \* the statements the clients of this behaviour use

vars == <<db, committed, buf, inTx, events, ops, work>>

-----------------------------------------------------------------------------
(***************************************************************************)
(* The effect of one statement on the context.                             *)
(***************************************************************************)
\* Mutant: only changes of new resources are dispatched.
DispatchNew(x, s) == IF ~x.ok \/ ~x.buf.res[s].create THEN x ELSE Notified(x, s)

\* statement_cb looks at the types the resource has in memory.
Dispatch(x, s) == IF ~x.ok \/ TypesOf(x, s) = << >> THEN x ELSE Notified(x, s)

\* tracker_data_insert_statement, of a SPARQL update or of a deserializer, for
\* which implicit_create is set.
RunInsert(x, st, implicit) ==
  LET y == Switch(EnsureObject(EnsureResource(x, st.s), st.p, st.o), st.s)
  IN  Dispatch(InsertMetadata(y, st.s, st.p, st.o, implicit), st.s)

RunInsertType(x, st) ==
  CreateService(Switch(EnsureResource(x, st.s), st.s), st.s, st.o)

\* tracker_data_delete_statement; the subject is looked up, never created.
RunDelete(x, st) ==
  IF st.s \notin x.db.uris THEN x
  ELSE LET y == Switch(EnsureObject(x, st.p, st.o), st.s)
       IN  Dispatch(DeleteMetadata(y, st.s, st.p, st.o), st.s)

RunDeleteType(x, st) ==
  IF st.s \notin x.db.uris THEN x ELSE DeleteType(Switch(x, st.s), st.s, st.o)

\* tracker_data_update_statement, the INSERT OR REPLACE of a value.
RunReplace(x, st) ==
  LET y == Switch(EnsureObject(EnsureResource(x, st.s), st.p, st.o), st.s)
      z == DeleteSingleValued(MarkFts(y, st.s, {st.p}), st.s, st.p)
  IN  Dispatch(InsertMetadata(z, st.s, st.p, st.o, FALSE), st.s)

\* tracker_data_update_statement, the INSERT OR REPLACE of NULL.
RunReplaceNull(x, st) ==
  LET y == Switch(EnsureResource(x, st.s), st.s)
  IN  Logged(MarkFts(y, st.s, {st.p}),
             ClearRefs(st.s, st.p) \o << MultiClear(st.s, st.p) >>)

\* One value of update_resource_single: the value tracker_resource_set_* was
\* given overwrites those stored.
SetValue(x, st, o) ==
  LET e == EnsureObject(x, st.p, o)
      r == IF st.s \in x.buf.fresh THEN e ELSE DeleteAll(e, st.s, st.p)
  IN  Dispatch(InsertMetadata(r, st.s, st.p, o, FALSE), st.s)

SetValues(x, st) == FoldLeft(LAMBDA y, o : SetValue(y, st, o), x, st.os)

\* update_resource_single: the types, then each value of the property st.p, here
\* the values st.os.
RunSetResource(x, st) ==
  LET typed == CreateService(Switch(EnsureResource(x, st.s), st.s),
                             st.s, Domain[st.p])
  IN  [SetValues(typed, st) EXCEPT !.buf.fresh = @ \ {st.s}]

Perform(x, st) ==
  CASE st.kind = "INSERT"       -> RunInsert(x, st, FALSE)
    [] st.kind = "LOAD"         -> RunInsert(x, st, TRUE)
    [] st.kind = "INSERT_TYPE"  -> RunInsertType(x, st)
    [] st.kind = "DELETE"       -> RunDelete(x, st)
    [] st.kind = "DELETE_TYPE"  -> RunDeleteType(x, st)
    [] st.kind = "REPLACE"      -> RunReplace(x, st)
    [] st.kind = "REPLACE_NULL" -> RunReplaceNull(x, st)
    [] st.kind = "SET_RESOURCE" -> RunSetResource(x, st)

Context == [db |-> db, buf |-> buf, events |-> events, ok |-> TRUE]

-----------------------------------------------------------------------------
Init ==
  /\ db = EmptyDb /\ committed = EmptyDb
  /\ buf = EmptyBuffer
  /\ inTx = FALSE
  /\ events = {}
  /\ ops = 0
  /\ work \in Workloads

\* tracker_data_begin_transaction
Begin ==
  /\ ~inTx
  /\ inTx' = TRUE
  /\ UNCHANGED <<db, committed, buf, events, ops>>

\* tracker_data_rollback_transaction, also the ROLLBACK callbacks.
Undo ==
  /\ db' = committed
  /\ buf' = EmptyBuffer
  /\ inTx' = FALSE
  /\ events' = {}
  /\ UNCHANGED committed

\* apply_update_op, of a statement that is not silent. An error ends the update
\* and its transaction.
Run(st) ==
  LET x == Perform(Context, st)
  IN  /\ inTx /\ ops < MaxOps
      /\ ops' = ops + 1
      /\ IF x.ok
         THEN /\ db' = x.db /\ buf' = x.buf /\ events' = x.events
              /\ UNCHANGED <<committed, inTx>>
         ELSE Undo

\* apply_update_op, of a silent statement: a savepoint, the statement, a flush;
\* errors return to the savepoint. Only the database knows of the savepoint.
RunSilent(st) ==
  LET x == Perform(Context, st)
      f == Flush(x.db, x.buf)
  IN  /\ inTx /\ ops < MaxOps
      /\ ops' = ops + 1
      /\ events' = x.events
      /\ db' = IF x.ok /\ f # SqlError THEN f ELSE db
      /\ buf' = IF x.ok THEN Flushed(x.buf) ELSE x.buf
      /\ UNCHANGED <<committed, inTx>>

FlushOrUndo ==
  LET f == Flush(db, buf)
  IN  IF f = SqlError THEN Undo
      ELSE /\ db' = f
           /\ buf' = Flushed(buf)
           /\ UNCHANGED <<committed, inTx, events>>

\* tracker_data_update_buffer_might_flush, at the end of a group of statements.
EndGroup ==
  /\ inTx
  /\ Len(buf.log) >= UpdateLogSize
  /\ FlushOrUndo
  /\ UNCHANGED ops

\* apply_update, before the WHERE clause of a group is evaluated.
Where ==
  /\ inTx
  /\ FlushOrUndo
  /\ UNCHANGED ops

\* tracker_data_manager_clear_graph: the tables of the graph are emptied.
Emptied(d) ==
  [uris |-> d.uris, rows |-> {}, vals |-> {}, copies |-> {}, refs |-> << >>,
   fts |-> d.fts]

\* apply_update_op: a flush first.
Clear ==
  LET f == Flush(db, buf)
  IN  /\ ClearGraph \in work /\ inTx /\ ops < MaxOps
      /\ ops' = ops + 1
      /\ IF f = SqlError THEN Undo
         ELSE /\ db' = Emptied(f)
              /\ buf' = Flushed(buf)
              /\ UNCHANGED <<committed, inTx, events>>

\* tracker_data_commit_transaction
Commit ==
  LET f == Flush(db, buf)
  IN  /\ inTx
      /\ IF f = SqlError THEN Undo
         ELSE /\ db' = f /\ committed' = f
              /\ buf' = Flushed(buf)
              /\ inTx' = FALSE
              /\ events' = {}
      /\ UNCHANGED ops

\* A parse error or a cancelled load, or a COMMIT SQLite refuses.
Rollback ==
  /\ inTx
  /\ Undo
  /\ UNCHANGED ops

\* The process dies; SQLite rolls back what was not committed.
Crash ==
  /\ Undo
  /\ UNCHANGED ops

\* Mutant: the clean-up takes ids with one reference left for unused.
ReopenSweeps ==
  LET used == {x \in DOMAIN committed.refs : committed.refs[x] > 1}
      kept == [committed EXCEPT !.uris = @ \cap used]
  IN  /\ ~inTx
      /\ db' = kept /\ committed' = kept
      /\ buf' = EmptyBuffer
      /\ UNCHANGED <<inTx, events, ops>>

\* data_manager_perform_cleanup: ids without a Refcount row are deleted.
Swept(d) ==
  [uris |-> d.uris \cap DOMAIN d.refs, rows |-> d.rows, vals |-> d.vals,
   copies |-> d.copies, refs |-> d.refs, fts |-> d.fts]

\* tracker_data_manager_dispose; then the store is opened again.
Reopen ==
  LET kept == Swept(committed)
  IN  /\ ~inTx
      /\ db' = kept /\ committed' = kept
      /\ buf' = EmptyBuffer
      /\ UNCHANGED <<inTx, events, ops>>

Next ==
  /\ \/ Begin
     \/ \E st \in work \cap Statements : Run(st)
     \/ \E st \in work \cap Silent : RunSilent(st)
     \/ EndGroup
     \/ Where
     \/ Clear
     \/ Commit
     \/ Rollback
     \/ Crash
     \/ Reopen
  /\ UNCHANGED work

Spec == Init /\ [][Next]_vars

-----------------------------------------------------------------------------
(***************************************************************************)
(* Properties.                                                             *)
(***************************************************************************)
Settled == Flush(db, buf)      \* the tables once the pending log is executed

\* Whether no statement of this behaviour is silent.
Loud == work \cap Silent = {}

\* The database and the buffer are of the shape the operators expect, and the
\* columns of a single-valued property hold one value.
TypeOK ==
  /\ \A d \in {db, committed} :
       /\ d.uris \subseteq Uri
       /\ d.rows \subseteq Uri \X Class
       /\ \A t \in d.vals :
            \/ t \in Uri \X {RdfType} \X Class
            \/ t[1] \in Uri /\ t[2] \in Prop /\ t[3] \in ValueOf(t[2])
       /\ DOMAIN d.refs \subseteq Node
       /\ \A s \in Uri, p \in Prop \ Multi : Cardinality(ValuesOf(d, s, p)) <= 1
  /\ buf.fresh \subseteq Uri /\ buf.cache \subseteq Uri
  /\ DOMAIN buf.res \subseteq Uri
  /\ inTx \in BOOLEAN /\ events \subseteq Uri /\ ops \in 0..MaxOps

\* No resource is referenced more often than its Refcount row says: closing the
\* store must not delete the Resource row of an id some table still holds.
RefcountCovers == \A x \in Node : References(db, x) <= Refcount(db, x)

\* Every id in the tables maps to a URI in the Resource table, also after the
\* clean-up, and so does every id the buffer hands out, unless a silent error has
\* taken a row back behind the back of the buffer.
NoDanglingIds ==
  Loud =>
    /\ \A t \in db.vals : {t[1], t[3]} \cap Uri \subseteq db.uris
    /\ buf.cache \subseteq db.uris

\* A resource has a row in the table of each class it is an instance of, is an
\* instance of all their superclasses, and has values only of properties whose
\* domain is one of its classes.
ClassInference ==
  /\ \A s \in Uri, c \in Class : <<s, c>> \in db.rows <=> c \in TypesIn(db, s)
  /\ \A s \in Uri : \A c \in TypesIn(db, s) : ClassesAbove(c) \subseteq TypesIn(db, s)
  /\ \A t \in db.vals : t[2] # RdfType => Domain[t[2]] \in TypesIn(db, t[1])

\* A domain index is a copy of the column it replicates.
DomainIndexesMatch ==
  \A p \in Prop : \A c \in DomainIndexes[p], s \in Uri :
    <<s, c>> \in db.rows => CopyOf(db, s, c, p) = ValuesOf(db, s, p)

\* The fulltext index has the content of the fulltext properties.
FtsMatches == db.fts = {t \in db.vals : t[2] \in FullText}

\* The types the buffer holds of a resource are those the tables will have once
\* the pending log is executed; after a silent error nothing corrects them.
BufferedTypesCurrent ==
  Loud /\ Settled # SqlError =>
    \A s \in DOMAIN buf.res :
      /\ Range(buf.res[s].types) = TypesIn(Settled, s)
      /\ Len(buf.res[s].types) = Cardinality(TypesIn(Settled, s))

\* CLEAR and the replacement by NULL remove data without a word to the notifiers.
Unannounced == {st \in UNION Workloads : st.kind \in {"CLEAR", "REPLACE_NULL"}}

\* Every resource whose data a commit changes has been announced to notifiers, as
\* long as clients use none of these two statements.
ChangesAnnounced ==
  [][work \cap Unannounced = {} =>
       \A s \in Uri :
         {t \in committed'.vals : t[1] = s} # {t \in committed.vals : t[1] = s}
           => s \in events]_vars
=============================================================================
