----------------------------- MODULE UpdateLog ------------------------------
(***************************************************************************)
(* The update log of the store (core/tracker-data-update.c): the entries   *)
(* statements are decomposed into, and what the SQL statement of each      *)
(* entry does to the tables when the log is flushed.  One graph.           *)
(*                                                                         *)
(* A database is a record                                                  *)
(*   uris   the Resource table,                                            *)
(*   rows   the rows <<s, c>> of the class tables,                         *)
(*   vals   the values <<s, p, o>>: columns of class tables for the        *)
(*          single-valued properties, tables of their own for the          *)
(*          multi-valued ones, rdf:type among them,                        *)
(*   copies the columns <<s, c, p, o>> replicated by domain indexes,       *)
(*   refs   the Refcount table, a function on the ids that have a row,     *)
(*   fts    the fulltext index: the values it was told to contain.         *)
(***************************************************************************)
EXTENDS Ontology

CONSTANT SqlError       \* the outcome of a flush one of whose entries fails

EmptyDb == [uris |-> {}, rows |-> {}, vals |-> {}, copies |-> {},
            refs |-> << >>, fts |-> {}]

ValuesOf(db, s, p) == {o \in Object : <<s, p, o>> \in db.vals}
TypesIn(db, s)     == ValuesOf(db, s, RdfType)

-----------------------------------------------------------------------------
(***************************************************************************)
(* The Refcount table.  A trigger deletes a row that an UPDATE (not an     *)
(* INSERT) brings to 0.                                                    *)
(***************************************************************************)
UpdateRefs(refs, X, n) ==
  LET gone == {x \in X : refs[x] + n = 0}
  IN  [x \in DOMAIN refs \ gone |-> IF x \in X THEN refs[x] + n ELSE refs[x]]

\* UPDATE ... WHERE ID = x: nothing when there is no row.
BumpRefs(refs, X, n) == UpdateRefs(refs, X \cap DOMAIN refs, n)

\* INSERT ... ON CONFLICT DO UPDATE.
UpsertRefs(refs, X, n) ==
  LET new    == X \ DOMAIN refs
      bumped == BumpRefs(refs, X, n)
  IN  [x \in new \cup DOMAIN bumped |-> IF x \in new THEN n ELSE bumped[x]]

-----------------------------------------------------------------------------
(***************************************************************************)
(* The SQL function SparqlUpdateValue, for a single-valued column: the set *)
(* old has the stored value or is empty, new likewise.                     *)
(***************************************************************************)
NewColumn(how, old, new) ==
  CASE how = "INSERT"          -> IF old = {} THEN new ELSE old
    [] how = "INSERT_FAILABLE" -> IF old = {} THEN new ELSE old
    [] how = "DELETE"          -> old \ new
    [] how = "RESET"           -> new

ColumnConflict(how, old, new) == how = "INSERT" /\ old # {} /\ old # new

SetColumn(db, s, p, new) ==
  [db EXCEPT !.vals = {t \in @ : t[1] # s \/ t[2] # p} \cup {<<s, p, o>> : o \in new}]

SetCopy(db, s, c, p, new) ==
  [db EXCEPT !.copies = {t \in @ : <<t[1], t[2], t[3]>> # <<s, c, p>>}
                          \cup {<<s, c, p, o>> : o \in new}]

CopyOf(db, s, c, p) == {o \in Object : <<s, c, p, o>> \in db.copies}

\* Deletes the row of s in the table of class c with all its columns.
DropRow(db, s, c) ==
  [db EXCEPT !.rows = @ \ {<<s, c>>},
             !.vals = {t \in @ : \/ t[1] # s
                                 \/ t[2] = RdfType
                                 \/ t[2] \in Multi
                                 \/ Domain[t[2]] # c},
             !.copies = {t \in @ : t[1] # s \/ t[2] # c}]

-----------------------------------------------------------------------------
(***************************************************************************)
(* Entries, one constructor per kind of log entry the code appends.        *)
(***************************************************************************)
ClassInsert(s, c)       == [op |-> "CLASS_INSERT", id |-> s, class |-> c, cols |-> << >>]
ClassDelete(s, c)       == [op |-> "CLASS_DELETE", id |-> s, class |-> c]
ClassUpdate(s, p, how, new) ==
  [op |-> "CLASS_UPDATE", id |-> s, class |-> Domain[p],
   cols |-> << [prop |-> p, how |-> how, new |-> new] >>]
MultiInsert(s, p, o)    == [op |-> "MULTI_INSERT", id |-> s, prop |-> p, obj |-> o]
MultiDelete(s, p, o)    == [op |-> "MULTI_DELETE", id |-> s, prop |-> p, obj |-> o]
MultiClear(s, p)        == [op |-> "MULTI_CLEAR", id |-> s, prop |-> p]
Ref(x, n)               == [op |-> "REF", id |-> x, n |-> n]
RefClear(s, p)          == [op |-> "REF_CLEAR", id |-> s, prop |-> p]
RefClearSubject(s, p)   == [op |-> "REF_CLEAR_SUBJECT", id |-> s, prop |-> p]
RefDrop(s, p, o)        == [op |-> "REF_DROP", id |-> s, prop |-> p, obj |-> o]
RefDropSubject(s, p, o) == [op |-> "REF_DROP_SUBJECT", id |-> s, prop |-> p, obj |-> o]
PropagateDelete(s, p, q) ==
  [op |-> "PROPAGATE_DELETE", id |-> s, prop |-> p, dest |-> q]
IndexCopy(s, p, c, how) ==
  [op |-> "INDEX_COPY", id |-> s, prop |-> p, class |-> c, how |-> how]

\* tracker_data_flush_log_chunk: does executing entry e on db raise an error?
EntryFails(db, e) ==
  \/ e.op = "CLASS_INSERT" /\ <<e.id, e.class>> \in db.rows
  \/ /\ e.op = "CLASS_UPDATE"
     /\ <<e.id, e.class>> \in db.rows
     /\ \E i \in DOMAIN e.cols :
          ColumnConflict(e.cols[i].how, ValuesOf(db, e.id, e.cols[i].prop), e.cols[i].new)
  \/ /\ e.op = "INDEX_COPY"
     /\ <<e.id, e.class>> \in db.rows
     /\ ColumnConflict(e.how, CopyOf(db, e.id, e.class, e.prop),
                       ValuesOf(db, e.id, e.prop))

\* The columns of a CLASS_INSERT are inserted whatever they were logged for,
\* those of a CLASS_UPDATE go through SparqlUpdateValue.
SetColumns(db, e) ==
  FoldLeft(LAMBDA d, c : SetColumn(d, e.id, c.prop, c.new), db, e.cols)
UpdateColumns(db, e) ==
  FoldLeft(LAMBDA d, c : SetColumn(d, e.id, c.prop,
                           NewColumn(c.how, ValuesOf(d, e.id, c.prop), c.new)),
           db, e.cols)

\* tracker_data_ensure_update_statement: what the SQL of entry e does to db.
EntryEffect(db, e) ==
  CASE e.op = "CLASS_INSERT" ->
         SetColumns([db EXCEPT !.rows = @ \cup {<<e.id, e.class>>}], e)
    [] e.op = "CLASS_DELETE" -> DropRow(db, e.id, e.class)
    [] e.op = "CLASS_UPDATE" ->
         IF <<e.id, e.class>> \in db.rows THEN UpdateColumns(db, e) ELSE db
    [] e.op = "MULTI_INSERT" ->
         [db EXCEPT !.vals = @ \cup {<<e.id, e.prop, e.obj>>}]
    [] e.op = "MULTI_DELETE" ->
         [db EXCEPT !.vals = @ \ {<<e.id, e.prop, e.obj>>}]
    [] e.op = "MULTI_CLEAR" ->
         IF e.prop \in Multi
         THEN SetColumn(db, e.id, e.prop, {})
         ELSE DropRow(db, e.id, Domain[e.prop])
    [] e.op = "REF" ->
         [db EXCEPT !.refs = IF e.n >= 0 THEN UpsertRefs(@, {e.id}, e.n)
                                         ELSE BumpRefs(@, {e.id}, e.n)]
    [] e.op = "REF_CLEAR" ->
         [db EXCEPT !.refs = UpsertRefs(@, ValuesOf(db, e.id, e.prop), -1)]
    [] e.op = "REF_CLEAR_SUBJECT" ->
         [db EXCEPT !.refs =
            BumpRefs(@, {e.id}, -Cardinality(ValuesOf(db, e.id, e.prop)))]
    [] e.op = "REF_DROP" ->
         [db EXCEPT !.refs =
            UpsertRefs(@, ValuesOf(db, e.id, e.prop) \cap {e.obj}, -1)]
    [] e.op = "REF_DROP_SUBJECT" ->
         [db EXCEPT !.refs =
            BumpRefs(@, {e.id}, -Cardinality(ValuesOf(db, e.id, e.prop) \cap {e.obj}))]
    [] e.op = "PROPAGATE_DELETE" ->
         SetColumn(db, e.id, e.dest,
                   ValuesOf(db, e.id, e.dest) \ ValuesOf(db, e.id, e.prop))
    [] e.op = "INDEX_COPY" ->
         IF <<e.id, e.class>> \in db.rows
         THEN SetCopy(db, e.id, e.class, e.prop,
                      NewColumn(e.how, CopyOf(db, e.id, e.class, e.prop),
                                ValuesOf(db, e.id, e.prop)))
         ELSE db

Execute(db, e) ==
  IF db = SqlError \/ EntryFails(db, e) THEN SqlError ELSE EntryEffect(db, e)

\* tracker_data_flush_log: the entries in order, up to the first that fails.
Replay(db, log) == FoldLeft(Execute, db, log)

-----------------------------------------------------------------------------
(***************************************************************************)
(* Appending to the log.  Later changes of the same thing go into a pend-  *)
(* ing entry, in its place: a reference count into the entry of that id,   *)
(* a literal column without superproperties into the last pending insert   *)
(* or update of that class row, unless that one has the column already.    *)
(***************************************************************************)
\* The entry of class_updates for the row of s in class c, 0 when there is none.
RowEntry(log, s, c) ==
  LET ofRow == {i \in DOMAIN log :
                  /\ log[i].op \in {"CLASS_INSERT", "CLASS_UPDATE", "CLASS_DELETE"}
                  /\ log[i].id = s /\ log[i].class = c}
      last  == Max(ofRow \cup {0})
  IN  IF last # 0 /\ log[last].op = "CLASS_DELETE" THEN 0 ELSE last

\* Mutant: the pending count is overwritten by the change.
AppendRefOverwrites(log, e) ==
  IF \E i \in DOMAIN log : log[i].op = "REF" /\ log[i].id = e.id
  THEN [i \in DOMAIN log |->
          IF log[i].op = "REF" /\ log[i].id = e.id THEN e ELSE log[i]]
  ELSE Append(log, e)

\* log_entry_for_resource_refcount; the sign of the count says whether the entry
\* is a TRACKER_LOG_REF_INC or a TRACKER_LOG_REF_DEC.
AppendRef(log, e) ==
  IF \E i \in DOMAIN log : log[i].op = "REF" /\ log[i].id = e.id
  THEN [i \in DOMAIN log |->
          IF log[i].op = "REF" /\ log[i].id = e.id
          THEN [log[i] EXCEPT !.n = @ + e.n] ELSE log[i]]
  ELSE Append(log, e)

\* log_entry_for_single_value_property
AppendColumn(log, e) ==
  LET p == e.cols[1].prop
      i == RowEntry(log, e.id, e.class)
  IN  IF \/ p \in Links \/ SuperProps[p] # << >> \/ i = 0
         \/ \E k \in DOMAIN log[i].cols : log[i].cols[k].prop = p
      THEN Append(log, e)
      ELSE [log EXCEPT ![i].cols = @ \o e.cols]

\* log_entry_for_class: a row already being inserted is not inserted twice.
AppendClass(log, e) ==
  LET i == RowEntry(log, e.id, e.class)
  IN  IF i # 0 /\ log[i].op = e.op THEN log ELSE Append(log, e)

AppendEntry(log, e) ==
  CASE e.op = "REF" -> AppendRef(log, e)
    [] e.op = "CLASS_UPDATE" -> AppendColumn(log, e)
    [] e.op \in {"CLASS_INSERT", "CLASS_DELETE"} -> AppendClass(log, e)
    [] OTHER -> Append(log, e)

AppendEntries(log, es) == FoldLeft(AppendEntry, log, es)

-----------------------------------------------------------------------------
(***************************************************************************)
(* What the tables should add up to.                                       *)
(***************************************************************************)
\* The references to x: two per class row of x and its rdf:type value, one per
\* multi-valued link x has, and one for each value that is x.
References(db, x) ==
  2 * Cardinality(TypesIn(db, x))
  + Cardinality({t \in db.vals : t[1] = x /\ t[2] \in Multi \cap Links})
  + Cardinality({t \in db.vals : t[3] = x})

Refcount(db, x) == IF x \in DOMAIN db.refs THEN db.refs[x] ELSE 0

FullTextValues(db, s) == {t \in db.vals : t[1] = s /\ t[2] \in FullText}
=============================================================================
