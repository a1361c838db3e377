----------------------------- MODULE DataManager -----------------------------
(***************************************************************************)
(* Opening, upgrading, using and closing a database file                   *)
(* (tracker-data-manager.c over tracker-db-manager.c).  One process at a   *)
(* time opens the file; it may crash between any two steps.                *)
(*                                                                         *)
(*   file    the database: its format version and metadata, the triples    *)
(*           that describe its ontology, the Resource table (id -> name),  *)
(*           the graphs with their tables, and the locale and tokenizer    *)
(*           its indexes were last built for.  A database of an old format *)
(*           keeps its named graphs in files of their own (attached),      *)
(*   marker  whether the .corrupted file lies beside it,                   *)
(*   conn    the data manager of the process,                              *)
(*   spent   how often the workload did each of the things it bounds.      *)
(***************************************************************************)
EXTENDS SchemaChanges

CONSTANTS
  Stock,             \* the triples of the stock ontology
  OntologyData,      \* name of ontology data -> its triples
  NoData,            \* the connection is opened without ontology data
  Openings,          \* [data, readonly, env]: how processes open the file
  Facts,             \* resources that can be added: name, class, values
  OldFiles,          \* databases earlier versions left behind
  GraphNames,        \* the named graphs
  MaxOpens, MaxFacts, MaxFaults

VARIABLES file, marker, conn, spent
vars == <<file, marker, conn, spent>>

DB_VERSION_UNKNOWN == 0
DB_VERSION_3_0 == 25
DB_VERSION_3_3 == 26
DB_VERSION_3_7 == 29
DB_VERSION_3_10 == 31
DB_VERSION_3_10_B == 32
DB_VERSION_NOW == DB_VERSION_3_10_B
DefaultGraph == "main"
RdfType == "rdf:type"
RdfsResource == "rdfs:Resource"

Absent ==
  [exists |-> FALSE, version |-> DB_VERSION_UNKNOWN, checksum |-> NoName,
   locale |-> NoName, tokenizer |-> NoName, stored |-> << >>, resource |-> << >>,
   anonymous |-> FALSE, graphs |-> {}, state |-> << >>, attached |-> << >>,
   sorted |-> NoName, tokens |-> NoName, damage |-> {}]
Created == [Absent EXCEPT !.exists = TRUE]

Closed ==
  [phase |-> "closed", data |-> NoData, readonly |-> FALSE, env |-> << >>,
   create |-> FALSE, db |-> EmptyOntology, apply |-> FALSE,
   work |-> Absent, ontology |-> EmptyOntology, repaired |-> FALSE, found |-> FALSE]

-----------------------------------------------------------------------------
(***************************************************************************)
(* The Resource and Graph tables.                                          *)
(***************************************************************************)
Names(f) == Range(f.resource)
IdOf(f, n) == CHOOSE i \in DOMAIN f.resource : f.resource[i] = n
InIdOrder(f) ==
  LET top == Max(DOMAIN f.resource \cup {0})
      used == SelectSeq([i \in 1..top |-> i], LAMBDA i : i \in DOMAIN f.resource)
  IN  [k \in DOMAIN used |-> f.resource[used[k]]]

\* tracker_data_update_ensure_resource for a sequence of names: SQLite gives a
\* name that has none the greatest id + 1.
EnsureResources(f, names) ==
  LET known == Names(f)
      new == SelectSeq([i \in DOMAIN names |-> i],
               LAMBDA i : /\ names[i] \notin known
                          /\ \A j \in 1..(i - 1) : names[j] # names[i])
      top == Max(DOMAIN f.resource \cup {0})
  IN  [f EXCEPT !.resource = @ @@ [i \in (top + 1)..(top + Len(new)) |-> names[new[i - top]]]]

EnsureGraph(f, g) ==
  LET e == EnsureResources(f, <<g>>)
  IN  [e EXCEPT !.graphs = @ \cup {g},
                !.state = IF g \in DOMAIN @ THEN @ ELSE @ @@ (g :> EmptyGraph)]

EnsureOntologyIds(f, o) ==
  EnsureResources(f, o.classes \o o.properties)

\* create_full_ontology_deserializer, and what is loaded from it.
Rdf(data) == Stock \o OntologyData[data]
OntologyOf == [data \in DOMAIN OntologyData |-> LoadFromRdf(Rdf(data))]
\* A checksum is told by the first data that has it.
ChecksumOf ==
  [data \in DOMAIN OntologyData |->
     CHOOSE d \in DOMAIN OntologyData : OntologyOf[d].checksum = OntologyOf[data].checksum]

Sound(f) == \A g \in f.graphs : f.state[g].ok
DbOntology(f) == LoadFromDatabase(f.stored, InIdOrder(f))

-----------------------------------------------------------------------------
(***************************************************************************)
(* The parts of the transaction that opens a database.                     *)
(***************************************************************************)
\* The rows of table t of an attached file, by position of the column.
ByPosition(to, from) ==
  {("ID" :> r["ID"]) @@
   [c \in Range(to.columns) |->
      r[from.columns[CHOOSE i \in DOMAIN to.columns : to.columns[i] = c]]] : r \in from.rows}

\* What lies in the tables of the ontology's own classes and properties.
ClassTables(o) == {<<c>> : c \in DOMAIN o.class \ Xsd}
MultiTables(o) ==
  {<<o.property[p].domain, p>> : p \in {q \in DOMAIN o.property : o.property[q].multi}}

\* Mutant: only the tables of the classes are copied.
CopyAttachedClasses(s, old, o) ==
  [s EXCEPT !.tables = [t \in DOMAIN s.tables |->
                          IF t \in ClassTables(o)
                          THEN [s.tables[t] EXCEPT !.rows = ByPosition(s.tables[t], old.tables[t])]
                          ELSE s.tables[t]],
            !.refs = old.refs]

CopyAttached(s, old, o) ==
  LET copied == ClassTables(o) \cup MultiTables(o) IN
  Execute(s, \A t \in copied : /\ t \in DOMAIN old.tables
                               /\ Len(old.tables[t].columns) = Len(s.tables[t].columns),
    [s EXCEPT !.tables = [t \in DOMAIN s.tables |->
                            IF t \in copied
                            THEN [s.tables[t] EXCEPT !.rows = ByPosition(s.tables[t], old.tables[t])]
                            ELSE s.tables[t]],
              !.refs = old.refs])

\* A named graph moves from its own file into this one.
Unify(f, g, o) ==
  [f EXCEPT !.state[g] =
     IF g \notin DOMAIN f.attached THEN [EmptyGraph EXCEPT !.ok = FALSE]
     ELSE RebuildFts(CopyAttached(ApplyChanges(EmptyGraph, EmptyOntology, o), f.attached[g], o))]

\* tracker_data_manager_update_from_version
MainFromVersion(main, v, o) ==
  LET viewed == IF v < DB_VERSION_3_7 THEN UpdateFts(DeleteFts(main), o) ELSE main
  IN  [viewed EXCEPT !.counted = @ \/ v < DB_VERSION_3_10]

UpdateFromVersion(f, o) ==
  LET named == IF f.version < DB_VERSION_3_10_B THEN f.graphs \ {DefaultGraph} ELSE {}
  IN  [FoldSet(LAMBDA g, x : Unify(x, g, o), f, named) EXCEPT
         !.state[DefaultGraph] = MainFromVersion(@, f.version, o),
         !.version = DB_VERSION_NOW,
         !.anonymous = @ \/ f.version < DB_VERSION_3_3]

\* A triple of the ontology data joins those that are stored: the value of a
\* property of one value gives way (tracker_data_update_statement).
SingleValued ==
  {"rdfs:domain", "rdfs:range", "nrl:maxCardinality", "nrl:indexed", "nrl:secondaryIndex",
   "nrl:fulltextIndexed", "nrl:weight", "nrl:notify", "nrl:prefix", "nrl:lastModified"}
Updated(stored, t) ==
  IF t \in Range(stored) THEN stored
  ELSE Append(SelectSeq(stored, LAMBDA u : t[2] \notin SingleValued \/ u[1] # t[1] \/ u[2] # t[2]), t)

\* tracker_data_manager_import_ontology: all about the classes and properties
\* that go or stay is deleted first.  Only a directory can be read again.
ImportOntology(f, db, cur, rdf) ==
  LET deleted == {c \in DOMAIN db.class : ~HasClass(cur, c)}
                 \cup {p \in DOMAIN db.property : ~HasProperty(cur, p)}
      replaced == deleted \cup DOMAIN cur.class \cup DOMAIN cur.property
      left == SelectSeq(f.stored, LAMBDA t : t[1] \notin replaced)
      named == EnsureResources(f, [i \in DOMAIN rdf |-> rdf[i][1]])
  IN  [named EXCEPT !.stored = FoldLeft(Updated, left, rdf)]

Stamped(f, data) == [f EXCEPT !.checksum = ChecksumOf[data]]

\* Mutant: the named graphs keep the tables they have.
ApplyOntologyToDefault(f, db, cur, data) ==
  Stamped(ImportOntology([EnsureOntologyIds(f, cur) EXCEPT
                            !.state[DefaultGraph] = ApplyChanges(@, db, cur)],
                         db, cur, Rdf(data)), data)

ApplyOntology(f, db, cur, data) ==
  Stamped(ImportOntology([EnsureOntologyIds(f, cur) EXCEPT
                            !.state = [g \in DOMAIN @ |->
                               IF g \in f.graphs THEN ApplyChanges(@[g], db, cur) ELSE @[g]]],
                         db, cur, Rdf(data)), data)

ApplyLocale(f, create, locale) ==
  IF ~create /\ f.locale = locale THEN f
  ELSE [f EXCEPT !.locale = locale, !.sorted = locale]

\* A creation does not note the tokenizer: the next opening rebuilds.
ApplyTokenizer(f, create, o, tokenizer) ==
  IF create THEN [f EXCEPT !.tokens = tokenizer]
  ELSE IF f.tokenizer = tokenizer THEN f
  ELSE [f EXCEPT !.tokenizer = tokenizer, !.tokens = tokenizer,
          !.state = [g \in DOMAIN @ |-> IF g \in f.graphs /\ HasFts(o) THEN RebuildFts(@[g])
                                        ELSE @[g]]]

-----------------------------------------------------------------------------
(***************************************************************************)
(* Opening.                                                                *)
(***************************************************************************)

\* tracker_db_manager_new: the file is created before anything is in it.
OpenFile(how) ==
  /\ conn.phase = "closed" /\ spent.opens < MaxOpens
  /\ spent' = [spent EXCEPT !.opens = @ + 1]
  /\ LET new == [Closed EXCEPT !.data = how.data, !.readonly = how.readonly, !.env = how.env]
         readonly == how.readonly
         refused == \/ ~file.exists /\ readonly
                    \/ /\ file.exists
                       /\ \/ file.version < DB_VERSION_3_0
                          \/ readonly /\ file.version < DB_VERSION_NOW
                          \/ file.version > DB_VERSION_NOW
     IN  /\ conn' = [new EXCEPT !.phase = IF refused THEN "refused" ELSE "opening",
                                !.create = ~file.exists /\ ~readonly]
         /\ file' = IF ~file.exists /\ ~readonly THEN Created ELSE file
  /\ UNCHANGED marker

\* tracker_db_manager_rollback_db_creation
Fail(c) ==
  /\ conn' = [c EXCEPT !.phase = "refused", !.work = Absent]
  /\ file' = IF c.create THEN Absent ELSE file

LoadReadonly ==
  /\ conn.phase = "opening" /\ conn.readonly
  /\ conn' = [conn EXCEPT !.phase = "open", !.ontology = DbOntology(file)]
  /\ UNCHANGED <<file, marker, spent>>

LoadCreated ==
  /\ conn.phase = "opening" /\ conn.create
  /\ IF conn.data = NoData THEN Fail(conn)
     ELSE conn' = [conn EXCEPT !.phase = "comparing"] /\ UNCHANGED file
  /\ UNCHANGED <<marker, spent>>

\* tracker_db_manager_needs_repair: the marker goes before the repair.
LoadExisting ==
  /\ conn.phase = "opening" /\ ~conn.readonly /\ ~conn.create
  /\ conn' = [conn EXCEPT !.phase = IF marker THEN "repairing" ELSE "comparing",
                          !.db = DbOntology(file)]
  /\ marker' = FALSE
  /\ UNCHANGED <<file, spent>>

\* tracker_data_manager_attempt_repair, tracker_db_manager_check_integrity
AttemptRepair(f, o) ==
  LET left == f.damage \ ({"index"} \cup IF HasFts(o) THEN {"fts"} ELSE {})
      rebuilt == [g \in DOMAIN f.state |->
                    IF "fts" \in f.damage /\ HasFts(o) /\ g \in f.graphs
                    THEN RebuildFts(f.state[g]) ELSE f.state[g]]
  IN  [file |-> [f EXCEPT !.damage = left, !.state = rebuilt], sound |-> left = {}]

Repair ==
  /\ conn.phase = "repairing"
  /\ LET r == AttemptRepair(file, conn.db)
     IN  /\ file' = r.file
         /\ marker' = ~r.sound
         /\ conn' = IF r.sound THEN [conn EXCEPT !.phase = "comparing", !.repaired = TRUE]
                    ELSE [conn EXCEPT !.phase = "refused"]
  /\ UNCHANGED spent

CompareOntology ==
  /\ conn.phase = "comparing"
  /\ IF conn.data # NoData /\ ~OntologyOf[conn.data].ok THEN Fail(conn)
     ELSE /\ conn' = [conn EXCEPT !.phase = "applying",
                        !.apply = /\ conn.data # NoData
                                  /\ conn.create \/ file.checksum # ChecksumOf[conn.data]]
          /\ UNCHANGED file
  /\ UNCHANGED <<marker, spent>>

\* The ontology the connection ends up with.
NewOntology(c) == IF c.apply THEN OntologyOf[c.data].onto ELSE c.db

\* The file as the transaction leaves it, one step after the other.
InFormat(f, c) ==
  IF c.create THEN [f EXCEPT !.version = DB_VERSION_NOW, !.anonymous = TRUE]
  ELSE IF f.version # DB_VERSION_NOW THEN UpdateFromVersion(f, c.db) ELSE f

OfOntology(f, c) == IF c.apply THEN ApplyOntology(f, c.db, NewOntology(c), c.data) ELSE f

Applied(f, c) ==
  ApplyTokenizer(
    ApplyLocale(OfOntology(InFormat(EnsureGraph(f, DefaultGraph), c), c), c.create, c.env.locale),
    c.create, NewOntology(c), c.env.tokenizer)

Finish(after) ==
  IF Sound(after)
  THEN /\ conn' = [conn EXCEPT !.phase = "applied", !.work = after, !.ontology = NewOntology(conn)]
       /\ UNCHANGED file
  ELSE Fail(conn)

ApplyUpdates ==
  /\ conn.phase = "applying"
  /\ Finish(Applied(file, conn))
  /\ UNCHANGED <<marker, spent>>

CommitUpdates ==
  /\ conn.phase = "applied"
  /\ file' = [conn.work EXCEPT !.damage = file.damage]
  /\ conn' = [conn EXCEPT !.phase = "open", !.work = Absent, !.db = EmptyOntology]
  /\ UNCHANGED <<marker, spent>>

-----------------------------------------------------------------------------
(***************************************************************************)
(* Use.                                                                    *)
(***************************************************************************)
Writable == conn.phase = "open" /\ ~conn.readonly

\* tracker_data_manager_create_graph
CreateGraph(g) ==
  /\ Writable /\ g \notin file.graphs
  /\ LET there == IF g \in DOMAIN file.state THEN file.state[g] ELSE EmptyGraph
     IN  file' = EnsureGraph([file EXCEPT !.state =
                   (g :> ApplyChanges(there, EmptyOntology, conn.ontology)) @@ @], g)
  /\ file'.state[g].ok
  /\ UNCHANGED <<marker, conn, spent>>

\* The tables of domain indexes of several values are left behind.
Dropped(s, o) ==
  LET left == DOMAIN s.tables \ (ClassTables(o) \cup MultiTables(o))
  IN  [EmptyGraph EXCEPT !.tables = Restrict(s.tables, left),
         !.indexes = Restrict(s.indexes, {n \in DOMAIN s.indexes : s.indexes[n].on \in left})]

\* tracker_data_manager_drop_graph
DropGraph(g) ==
  /\ Writable /\ g \in file.graphs \ {DefaultGraph}
  /\ file' = [file EXCEPT !.graphs = @ \ {g}, !.state[g] = Dropped(@, conn.ontology)]
  /\ UNCHANGED <<marker, conn, spent>>

\* What fact r says of property p: the values of p and of its subproperties.
Said(f, o, r, p) ==
  LET of(ws) == {w[2] : w \in {x \in ws : p \in PropertiesOver(o, {x[1]})}}
  IN  {Cell(SqlType(o.property[p]), n) : n \in of(r.values)}
      \cup {Id(IdOf(f, m)) : m \in of(r.links)}

TheRow(f, o, r, i, table) ==
  ("ID" :> Id(i)) @@
  [p \in Range(table.columns) |->
     IF Said(f, o, r, p) = {} THEN Null ELSE CHOOSE v \in Said(f, o, r, p) : TRUE]

\* The rows table t gets for fact r about the resource of id i.
RowsFor(f, o, r, i, t, table) ==
  LET classes == ClassesOver(o, {r.class}) IN
  IF t[1] \notin classes THEN {}
  ELSE IF Len(t) = 1 THEN {TheRow(f, o, r, i, table)}
  ELSE IF t[2] = RdfType THEN {("ID" :> Id(i)) @@ (RdfType :> Id(IdOf(f, c))) : c \in classes}
  ELSE {("ID" :> Id(i)) @@ (t[2] :> v) : v \in Said(f, o, r, t[2])}

\* How often the tables of a graph name id j once fact r is told of id i: a row
\* of a class and its rdf:type count for the resource, a link for both ends.
References(f, o, r, i, j) ==
  LET classes == ClassesOver(o, {r.class})
      links == UNION {{<<p, w[2]>> : p \in PropertiesOver(o, {w[1]})} : w \in r.links}
      multi == {l \in links : o.property[l[1]].multi}
  IN  (IF j = i THEN 2 * Cardinality(classes) + Cardinality(multi) ELSE 0)
      + Cardinality(classes \cap {f.resource[j]})
      + Cardinality({l \in links : l[2] = f.resource[j]})

\* The ontology has the words of fact r, and no number is given as a text.
Sayable(o, r) ==
  /\ HasClass(o, r.class)
  /\ \A w \in r.values \cup r.links :
       HasProperty(o, w[1]) /\ HasSuperclass(o, r.class, o.property[w[1]].domain)
  /\ \A w \in r.values : w[2] < 0 => SqlType(o.property[w[1]]) = "TEXT"

\* Graph g with the fact told, in file f that has the ids it needs.
Told(f, g, o, r) ==
  LET i == IdOf(f, r.name)
      s == f.state[g]
      count == [j \in DOMAIN f.resource |->
                  (IF j \in DOMAIN s.refs THEN s.refs[j] ELSE 0) + References(f, o, r, i, j)]
      told == [s EXCEPT
        !.tables = [t \in DOMAIN @ |->
                      [@[t] EXCEPT !.rows = @ \cup RowsFor(f, o, r, i, t, s.tables[t])]],
        !.refs = Restrict(count, {j \in DOMAIN count : count[j] > 0})]
  IN  [told EXCEPT !.terms = @ \cup {c \in Contents(told) : c[1] = i}]

Known(f, r) == EnsureResources(f, <<r.name>> \o SetToSeq({w[2] : w \in r.links}))

\* An update adds a resource the graph does not know, in a transaction of its own.
AddFact(g, r) ==
  /\ Writable /\ g \in file.graphs /\ spent.facts < MaxFacts
  /\ Sayable(conn.ontology, r)
  /\ LET f == Known(file, r)
         s == Told(f, g, conn.ontology, r)
     IN  /\ \A q \in file.state[g].tables[<<RdfsResource>>].rows : q["ID"] # Id(IdOf(f, r.name))
         /\ \A n \in DOMAIN s.indexes :
              LET x == s.indexes[n] IN x.unique => ~Duplicates(s.tables[x.on].rows, x.columns)
         /\ file' = [f EXCEPT !.state[g] = s]
  /\ spent' = [spent EXCEPT !.facts = @ + 1]
  /\ UNCHANGED <<marker, conn>>

-----------------------------------------------------------------------------
(***************************************************************************)
(* Closing, crashes and corruption.                                        *)
(***************************************************************************)
Referenced(f) ==
  LET told == f.graphs \cup UNION {{t[1], t[3]} : t \in Range(f.stored)}
  IN  UNION {DOMAIN f.state[g].refs : g \in f.graphs}
      \cup {i \in DOMAIN f.resource : f.resource[i] \in told}

\* data_manager_perform_cleanup
Cleaned(f) == [f EXCEPT !.resource = Restrict(@, Referenced(f))]

\* tracker_data_manager_dispose, tracker_db_manager_finalize
Close ==
  /\ conn.phase = "open"
  /\ file' = IF conn.readonly THEN file ELSE Cleaned(file)
  /\ marker' = (marker \/ conn.found)
  /\ conn' = Closed
  /\ UNCHANGED spent

GiveUp ==
  /\ conn.phase = "refused"
  /\ conn' = Closed
  /\ UNCHANGED <<file, marker, spent>>

\* A statement of a read interface meets the damage.
FindCorruption ==
  /\ conn.phase = "open" /\ file.damage # {} /\ ~conn.found
  /\ conn' = [conn EXCEPT !.found = TRUE]
  /\ UNCHANGED <<file, marker, spent>>

\* Faults: the process dies, the medium spoils part of the file.
Crash ==
  /\ conn.phase \notin {"closed", "refused"} /\ spent.faults < MaxFaults
  /\ conn' = Closed
  /\ spent' = [spent EXCEPT !.faults = @ + 1]
  /\ UNCHANGED <<file, marker>>

Spoil(part) ==
  /\ conn.phase = "open" /\ spent.faults < MaxFaults
  /\ file' = [file EXCEPT !.damage = @ \cup {part}]
  /\ conn' = [conn EXCEPT !.repaired = FALSE]
  /\ spent' = [spent EXCEPT !.faults = @ + 1]
  /\ UNCHANGED marker

Init ==
  /\ file \in {Absent} \cup OldFiles
  /\ marker = FALSE
  /\ conn = Closed
  /\ spent = [opens |-> 0, facts |-> 0, faults |-> 0]

Next ==
  \/ \E how \in Openings : OpenFile(how)
  \/ LoadReadonly \/ LoadCreated \/ LoadExisting
  \/ Repair \/ CompareOntology \/ ApplyUpdates \/ CommitUpdates
  \/ \E g \in GraphNames : CreateGraph(g) \/ DropGraph(g)
  \/ \E g \in GraphNames \cup {DefaultGraph} :
       \E r \in Facts : AddFact(g, r)
  \/ Close \/ GiveUp \/ FindCorruption \/ Crash
  \/ \E part \in {"index", "fts", "data"} : Spoil(part)

Spec == Init /\ [][Next]_vars
=============================================================================
