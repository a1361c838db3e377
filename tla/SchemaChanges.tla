---------------------------- MODULE SchemaChanges ----------------------------
(***************************************************************************)
(* How the tables of one graph follow a list of ontology changes           *)
(* (tracker-data-manager.c).  A graph is                                   *)
(*   ok       FALSE once a statement failed: the transaction is to be      *)
(*            rolled back,                                                 *)
(*   tables   <<class>> or <<class, property>> -> columns in order, their  *)
(*            types, and rows (functions from "ID" and the columns),       *)
(*   indexes  name -> the table, its columns, whether it is unique,        *)
(*   view     the <<table, column>> pairs of the fulltext view,            *)
(*   terms    <<id, property, value>>: what the fulltext index knows,      *)
(*   counted  whether Refcount has its trigger, refs the rows of Refcount, *)
(*   stale    update_fts of tracker_data_manager_apply_db_changes.         *)
(***************************************************************************)
EXTENDS Ontologies, FiniteSetsExt

EmptyGraph ==
  [ok |-> TRUE, tables |-> << >>, indexes |-> << >>, view |-> {}, terms |-> {},
   counted |-> FALSE, refs |-> << >>, stale |-> FALSE]

Xsd == {"xsd:string", "xsd:integer", "xsd:boolean", "xsd:double", "xsd:date", "xsd:dateTime"}
Text == {"xsd:string", "rdf:langString"}

\* A value of a column; a negative number stands for a text that is no number.
Cell(type, n) == [type |-> type, n |-> n]
Null == Cell("NULL", 0)
Id(n) == Cell("INTEGER", n)

\* CAST (value AS type)
Cast(v, type) ==
  IF v = Null THEN v ELSE Cell(type, IF v.n < 0 /\ type # "TEXT" THEN 0 ELSE v.n)

IsResource(r) == r.range \notin Xsd \cup Text
\* property_get_sql_representation
SqlType(r) ==
  IF r.range \in Text THEN "TEXT"
  ELSE IF r.range = "xsd:double" THEN "REAL" ELSE "INTEGER"

TableOf(r, p) == IF r.multi THEN <<r.domain, p>> ELSE <<r.domain>>

-----------------------------------------------------------------------------
(***************************************************************************)
(* The SQL statements: can is what the statement needs to succeed.         *)
(***************************************************************************)
Execute(s, can, after) ==
  IF ~s.ok THEN s ELSE IF can THEN after ELSE [s EXCEPT !.ok = FALSE]

HasTable(s, t) == t \in DOMAIN s.tables
HasColumn(s, t, c) == HasTable(s, t) /\ c \in Range(s.tables[t].columns)
IndexedColumn(s, t, c) ==
  \E n \in DOMAIN s.indexes : s.indexes[n].on = t /\ c \in s.indexes[n].columns
UniqueIndexes(s, t) ==
  {s.indexes[n].columns : n \in {m \in DOMAIN s.indexes : s.indexes[m].on = t /\ s.indexes[m].unique}}
Duplicates(rows, cs) ==
  \E r, q \in rows : /\ r # q
                     /\ \A c \in cs : r[c] = q[c] /\ r[c] # Null

CreateTable(s, t, columns, type) ==
  Execute(s, ~HasTable(s, t),
    [s EXCEPT !.tables = @ @@ (t :> [columns |-> columns, type |-> type, rows |-> {}])])

\* The indexes of a table go with it.
DropTable(s, t) ==
  Execute(s, HasTable(s, t),
    [s EXCEPT !.tables = Restrict(@, DOMAIN @ \ {t}),
              !.indexes = Restrict(@, {n \in DOMAIN @ : @[n].on # t})])

AddColumn(s, t, c, type) ==
  Execute(s, HasTable(s, t) /\ ~HasColumn(s, t, c),
    [s EXCEPT !.tables[t] =
       [columns |-> Append(@.columns, c), type |-> @.type @@ (c :> type),
        rows |-> {r @@ (c :> Null) : r \in @.rows}]])

\* No index may use the column, and the fulltext view must still make sense.
DropColumn(s, t, c) ==
  Execute(s, /\ HasColumn(s, t, c) /\ ~IndexedColumn(s, t, c)
             /\ \A v \in s.view : HasColumn(s, v[1], v[2]) /\ v # <<t, c>>,
    [s EXCEPT !.tables[t] =
       [columns |-> SelectSeq(@.columns, LAMBDA d : d # c),
        type |-> Restrict(@.type, DOMAIN @.type \ {c}),
        rows |-> {Restrict(r, DOMAIN r \ {c}) : r \in @.rows}]])

\* A quoted name that is no column of the table is a constant to SQLite.
MakeIndex(s, name, t, names, unique) ==
  LET columns == names \cap (Range(s.tables[t].columns) \cup {"ID"}) IN
  Execute(s, /\ name \notin DOMAIN s.indexes /\ HasTable(s, t)
             /\ unique => ~Duplicates(s.tables[t].rows, columns),
    [s EXCEPT !.indexes = @ @@
       (name :> [on |-> t, columns |-> columns, unique |-> unique])])

DropIndex(s, name) ==
  Execute(s, name \in DOMAIN s.indexes,
    [s EXCEPT !.indexes = Restrict(@, DOMAIN @ \ {name})])

\* INSERT OR IGNORE of rows that give some of the columns of t: a row is ignored
\* where its ID (of a class) or the columns of a unique index are taken.
InsertOrIgnore(s, t, rows) ==
  LET blank == [c \in Range(s.tables[t].columns) |-> Null]
      keys == UniqueIndexes(s, t) \cup IF Len(t) = 1 THEN {{"ID"}} ELSE {}
      taken(r, there) == \E q \in there : q = r \/ \E cs \in keys : Duplicates({q, r}, cs)
      insert(r, there) == IF taken(r, there) THEN there ELSE there \cup {r}
  IN  Execute(s, HasTable(s, t),
        [s EXCEPT !.tables[t].rows = FoldSet(insert, @, {r @@ blank : r \in rows})])

\* UPDATE t SET c = value of the row, one row after the other: a unique index
\* is kept at each.
SetColumn(s, t, c, value) ==
  LET next(r) == value[r["ID"]]
      taken(r) == \E q \in s.tables[t].rows \ {r} :
                    next(r) = IF q["ID"].n < r["ID"].n THEN next(q) ELSE q[c]
  IN  Execute(s, /\ HasColumn(s, t, c)
                 /\ {c} \in UniqueIndexes(s, t) =>
                      \A r \in s.tables[t].rows : next(r) = Null \/ ~taken(r),
        [s EXCEPT !.tables[t].rows = {[r EXCEPT ![c] = next(r)] : r \in @}])

\* The value column c of table t has for an id; the greatest of several.
ValueFor(s, t, c) ==
  LET ids == {r["ID"] : r \in UNION {s.tables[u].rows : u \in DOMAIN s.tables}}
      of(i) == {r[c] : r \in {q \in s.tables[t].rows : q["ID"] = i}}
  IN  [i \in ids |-> IF of(i) = {} THEN Null
                     ELSE CHOOSE v \in of(i) : \A w \in of(i) : w.n <= v.n]

-----------------------------------------------------------------------------
(***************************************************************************)
(* Refcount follows the rows that are copied and dropped: one for every    *)
(* distinct value of the column.  A NULL among the values gets a row of    *)
(* its own from SQLite, with the next free id, when its turn comes.        *)
(***************************************************************************)
ColumnIds(s, t, c) == {r[c].n : r \in {q \in s.tables[t].rows : q[c] # Null}}
InOrder(rows) == SetToSortSeq(rows, LAMBDA r, q : r["ID"].n < q["ID"].n)

Counted(s, t, c) ==
  LET key(refs, r) == IF r[c] = Null THEN Max(DOMAIN refs \cup {0}) + 1 ELSE r[c].n
      all == FoldLeft(LAMBDA refs, r : refs @@ (key(refs, r) :> 0), s.refs, InOrder(s.tables[t].rows))
  IN  [i \in DOMAIN all |-> IF i \in ColumnIds(s, t, c) THEN all[i] + 1 ELSE all[i]]

\* A name that is no column of the table is a text, and no text is an id.
IncreaseRefcount(s, t, c) ==
  Execute(s, HasTable(s, t) /\ (HasColumn(s, t, c) \/ c = "ID" \/ s.tables[t].rows = {}),
    [s EXCEPT !.refs = Counted(s, t, c)])

\* A count that reaches zero leaves with its row (trigger_Refcount).
DecreaseRefcount(s, t, c) ==
  LET less(i) == i \in ColumnIds(s, t, c)
      left == [i \in DOMAIN s.refs |-> IF less(i) THEN s.refs[i] - 1 ELSE s.refs[i]]
  IN  Execute(s, HasColumn(s, t, c) \/ (HasTable(s, t) /\ c = "ID"),
        [s EXCEPT !.refs = Restrict(left, {i \in DOMAIN left : less(i) => left[i] # 0})])

\* Mutant: copied links count for nothing.
IncreaseIfResourceNot(s, r, t, c) == s

IncreaseIfResource(s, r, t, c) == IF IsResource(r) THEN IncreaseRefcount(s, t, c) ELSE s

DecreaseIfResource(s, r, t, c) == IF IsResource(r) THEN DecreaseRefcount(s, t, c) ELSE s

-----------------------------------------------------------------------------
(***************************************************************************)
(* Tables, columns and indexes of classes and properties; r is the record  *)
(* of property p, c the class whose table it is (its domain or a class     *)
(* with a domain index).                                                   *)
(***************************************************************************)
CreateClassTable(s, o, c) ==
  LET own == SelectSeq(o.properties,
               LAMBDA p : o.property[p].domain = c /\ ~o.property[p].multi)
  IN  IF c \in Xsd THEN s
      ELSE CreateTable(s, <<c>>, own, [p \in Range(own) |-> SqlType(o.property[p])])

DropClassTable(s, c) ==
  IF c \in Xsd THEN s ELSE DropTable(DecreaseRefcount(s, <<c>>, "ID"), <<c>>)

AddPropertyColumn(s, r, c, p) == AddColumn(s, <<c>>, p, SqlType(r))

RemovePropertyColumn(s, r, c, p) ==
  DropColumn(DecreaseIfResource(s, r, <<c>>, p), <<c>>, p)

ChangeColumnType(s, r, c, p) ==
  LET old == ValueFor(s, <<c>>, p)
      new == [i \in DOMAIN old |-> Cast(old[i], SqlType(r))]
  IN  SetColumn(AddPropertyColumn(RemovePropertyColumn(s, r, c, p), r, c, p), <<c>>, p, new)

CreateMultiTable(s, r, c, p) ==
  MakeIndex(CreateTable(s, <<c, p>>, <<p>>, p :> SqlType(r)),
            <<c, p, "ID", "ID">>, <<c, p>>, {"ID", p}, TRUE)

DropMultiTable(s, r, c, p) ==
  DropTable(DropIndex(DecreaseIfResource(s, r, <<c, p>>, p), <<c, p, "ID", "ID">>), <<c, p>>)

\* The values are inserted anew: two of one resource must not become equal.
ChangeMultiType(s, r, c, p) ==
  LET old == s.tables[<<c, p>>].rows
      cast(q) == [q EXCEPT ![p] = Cast(@, SqlType(r))]
      new == {cast(q) : q \in old}
      t == CreateMultiTable(DropMultiTable(s, r, c, p), r, c, p)
  IN  Execute(t, Cardinality(new) = Cardinality(old), InsertOrIgnore(t, <<c, p>>, new))

IndexName(r, p) == IF r.multi THEN <<r.domain, p, "ID">> ELSE <<r.domain, p>>
CreateIndex(s, r, p) ==
  MakeIndex(s, IndexName(r, p), TableOf(r, p), {IF r.multi THEN "ID" ELSE p}, FALSE)
DropPropertyIndex(s, r, p) == DropIndex(s, IndexName(r, p))

\* Both columns are looked for in the table of the first property's domain.
CreateSecondaryIndex(s, r, p) ==
  MakeIndex(s, <<r.domain, p, r.secondary>>, <<r.domain>>, {p, r.secondary}, FALSE)
DropSecondaryIndex(s, r, p) == DropIndex(s, <<r.domain, p, r.secondary>>)

CreateUniqueIndex(s, r, p) ==
  MakeIndex(s, <<r.domain, p, "unique">>, TableOf(r, p), {p}, TRUE)
DropUniqueIndex(s, r, p) == DropIndex(s, <<r.domain, p, "unique">>)

-----------------------------------------------------------------------------
(***************************************************************************)
(* Copies of rows and values to superclasses, superproperties and domain   *)
(* indexes.                                                                *)
(***************************************************************************)
CopyFromClass(s, c, target) ==
  InsertOrIgnore(IncreaseRefcount(s, <<c>>, "ID"), <<target>>,
                 {Restrict(r, {"ID"}) : r \in s.tables[<<c>>].rows})

CopySingle(s, r, c, p, target, q) ==
  SetColumn(IncreaseIfResource(s, r, <<c>>, p), <<target>>, q, ValueFor(s, <<c>>, p))

\* The rows of property p in table t, as rows of a table of property q.
AsRows(s, t, p, q) ==
  {("ID" :> r["ID"]) @@ (q :> r[p]) : r \in {x \in s.tables[t].rows : x[p] # Null}}

CopyMulti(s, r, c, p, target, q) ==
  InsertOrIgnore(IncreaseIfResource(s, r, <<c, p>>, p), <<target, q>>, AsRows(s, <<c, p>>, p, q))

\* The references are looked for in the class table, which has no such column.
CopyMultiToSingle(s, r, c, p, target, q) ==
  SetColumn(IncreaseIfResource(s, r, <<c>>, p), <<target>>, q, ValueFor(s, <<c, p>>, p))

CopySingleToMulti(s, r, c, p, target, q) ==
  InsertOrIgnore(IncreaseIfResource(s, r, <<c>>, p), <<target, q>>, AsRows(s, <<c>>, p, q))

CopyProperty(s, r, p, target, q) ==
  LET d == target.domain IN
  IF r.multi THEN IF target.multi THEN CopyMulti(s, r, r.domain, p, d, q)
                                  ELSE CopyMultiToSingle(s, r, r.domain, p, d, q)
  ELSE IF target.multi THEN CopySingleToMulti(s, r, r.domain, p, d, q)
                       ELSE CopySingle(s, r, r.domain, p, d, q)

-----------------------------------------------------------------------------
(***************************************************************************)
(* The fulltext index.                                                     *)
(***************************************************************************)
FtsProperties(o) == {p \in DOMAIN o.property : o.property[p].fulltext}
HasFts(o) == FtsProperties(o) # {}

Contents(s) ==
  UNION {{<<r["ID"].n, v[2], r[v[2]]>> : r \in {x \in s.tables[v[1]].rows : x[v[2]] # Null}}
         : v \in s.view}

\* tracker_data_manager_init_fts: view and table, the index is left empty.
InitFts(s, o) ==
  LET view == {<<TableOf(o.property[p], p), p>> : p \in FtsProperties(o)}
  IN  IF ~HasFts(o) THEN s
      ELSE Execute(s, s.view = {} /\ \A v \in view : HasColumn(s, v[1], v[2]),
                   [s EXCEPT !.view = view, !.terms = {}])

RebuildFts(s) == Execute(s, s.view # {}, [s EXCEPT !.terms = Contents(s)])

UpdateFts(s, o) == IF HasFts(o) THEN RebuildFts(InitFts(s, o)) ELSE s

DeleteFts(s) == Execute(s, TRUE, [s EXCEPT !.view = {}, !.terms = {}])

-----------------------------------------------------------------------------
(***************************************************************************)
(* tracker_data_manager_apply_db_change: db is the ontology the database   *)
(* has, cur the one it gets.                                               *)
(***************************************************************************)
\* Classes and properties in the order of the ontology: get_superclasses and
\* get_superproperties, whose order makes no difference to the copies.
SuperClassesOf(o, c) == SelectSeq(o.classes, LAMBDA d : d \in ClassesOver(o, {c}))
SuperPropertiesOf(o, p) == SelectSeq(o.properties, LAMBDA q : q \in PropertiesOver(o, {p}))

NewSuperclass(s, o, c, d) ==
  FoldLeft(LAMBDA x, target : CopyFromClass(x, c, target), s, SuperClassesOf(o, d))

NewDomainIndex(s, r, c, p) ==
  IF r.multi THEN CopyMulti(CreateMultiTable(s, r, c, p), r, r.domain, p, c, p)
             ELSE CopySingle(AddPropertyColumn(s, r, c, p), r, r.domain, p, c, p)

RemoveProperty(s, r, c, p) ==
  IF r.multi THEN DropMultiTable(s, r, c, p) ELSE RemovePropertyColumn(s, r, c, p)

DropDomainIndex(s, r, c, p) == RemoveProperty(s, r, c, p)

NewPropertyTable(s, r, p) ==
  IF r.multi THEN CreateMultiTable(s, r, r.domain, p) ELSE AddPropertyColumn(s, r, r.domain, p)

NewSuperproperty(s, o, p, q) ==
  FoldLeft(LAMBDA x, t : CopyProperty(x, o.property[p], p, o.property[t], t),
           s, SuperPropertiesOf(o, q))

NewSecondaryIndex(s, o, p) ==
  LET r == o.property[p]
  IN  Execute(s, ~r.multi /\ ~o.property[r.secondary].multi, CreateSecondaryIndex(s, r, p))

StaleFts(s) == IF s.stale THEN s ELSE [DeleteFts(s) EXCEPT !.stale = TRUE]

Number == {"xsd:integer", "xsd:double"}
Convertible(old, new) ==
  /\ old # new
  /\ old \in Number \cup {"xsd:string"}
  /\ new \in Number \cup {"xsd:string", "xsd:boolean"}

ChangeRange(s, db, cur, p) ==
  LET r == cur.property[p]
      change(x, c) == IF r.multi THEN ChangeMultiType(x, r, c, p) ELSE ChangeColumnType(x, r, c, p)
  IN  Execute(s, Convertible(db.property[p].range, r.range),
              FoldLeft(change, s, Append(r.indexes, r.domain)))

ChangeCardinality(s, r, p) ==
  LET d == r.domain
  IN  Execute(s, r.multi,
        RemovePropertyColumn(
          CopySingleToMulti(CreateMultiTable(s, r, d, p), r, d, p, d, p), r, d, p))

NewUnique(s, db, r, p) == Execute(s, ~HasProperty(db, p), CreateUniqueIndex(s, r, p))

ApplyChange(s, ch, db, cur) ==
  LET o == IF ch.side = "db" THEN db ELSE cur
      n == ch.name
      m == ch.other
  IN  CASE ch.type = "CLASS_NEW" -> CreateClassTable(s, o, n)
        [] ch.type = "CLASS_DELETE" -> DropClassTable(s, n)
        [] ch.type = "SUPERCLASS_NEW" -> NewSuperclass(s, o, n, m)
        [] ch.type = "DOMAIN_INDEX_NEW" -> NewDomainIndex(s, o.property[m], n, m)
        [] ch.type = "DOMAIN_INDEX_DELETE" -> DropDomainIndex(s, o.property[m], n, m)
        [] ch.type = "PROPERTY_NEW" -> NewPropertyTable(s, o.property[n], n)
        [] ch.type = "PROPERTY_DELETE" -> RemoveProperty(s, o.property[n], o.property[n].domain, n)
        [] ch.type = "SUPERPROPERTY_NEW" -> NewSuperproperty(s, o, n, m)
        [] ch.type = "INDEX_NEW" -> CreateIndex(s, o.property[n], n)
        [] ch.type = "INDEX_DELETE" -> DropPropertyIndex(s, o.property[n], n)
        [] ch.type = "SECONDARY_INDEX_NEW" -> NewSecondaryIndex(s, o, n)
        [] ch.type = "SECONDARY_INDEX_DELETE" -> DropSecondaryIndex(s, o.property[n], n)
        [] ch.type = "FTS_INDEX" -> StaleFts(s)
        [] ch.type = "RANGE" -> ChangeRange(s, db, cur, n)
        [] ch.type = "DOMAIN" -> Execute(s, FALSE, s)
        [] ch.type = "CARDINALITY" -> ChangeCardinality(s, o.property[n], n)
        [] ch.type = "UNIQUE_NEW" -> NewUnique(s, db, o.property[n], n)
        [] ch.type = "UNIQUE_DELETE" -> DropUniqueIndex(s, o.property[n], n)
        [] OTHER -> s      \* superclasses and superproperties keep what they have

WithFts(s, cur) == IF s.stale THEN [InitFts(s, cur) EXCEPT !.stale = FALSE] ELSE s

ApplyChanges(s, db, cur) ==
  WithFts(FoldLeft(LAMBDA x, ch : IF x.ok THEN ApplyChange(x, ch, db, cur) ELSE x,
                   [s EXCEPT !.counted = TRUE, !.stale = FALSE], Diff(db, cur)), cur)
=============================================================================
