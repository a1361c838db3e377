------------------------------ MODULE MCManager ------------------------------
(***************************************************************************)
(* A database under versions of one ontology, opened by processes of       *)
(* several locales and tokenizers, read-only or not, created anew or left  *)
(* behind by an earlier format.                                            *)
(***************************************************************************)
EXTENDS DataManager

MCNamespaceOf ==
  [n \in {"rdfs:Resource", "rdfs:Class", "rdf:type", "xsd:string", "xsd:integer", "xsd:boolean",
          "A", "B", "C", "K", "n", "p", "q", "s", "t", "u", "w"} |->
     CASE n \in {"rdfs:Resource", "rdfs:Class"} -> "rdfs"
       [] n = "rdf:type" -> "rdf"
       [] n \in Xsd -> "xsd"
       [] OTHER -> "ex"]

Space(n) == << <<n, "rdf:type", "nrl:Namespace">>, <<n, "nrl:prefix", n>> >>
ClassIs(c, supers, indexes) ==
  << <<c, "rdf:type", "rdfs:Class">> >>
  \o [i \in DOMAIN supers |-> <<c, "rdfs:subClassOf", supers[i]>>]
  \o [i \in DOMAIN indexes |-> <<c, "nrl:domainIndex", indexes[i]>>]
PropertyIs(p, domain, range, more) ==
  << <<p, "rdf:type", "rdf:Property">>, <<p, "rdfs:domain", domain>>, <<p, "rdfs:range", range>> >>
  \o [i \in DOMAIN more |-> <<p, more[i][1], more[i][2]>>]

Single == <<"nrl:maxCardinality", "1">>
Fulltext == <<"nrl:fulltextIndexed", "true">>
Indexed == <<"nrl:indexed", "true">>
Under(q) == <<"rdfs:subPropertyOf", q>>
Second(q) == <<"nrl:secondaryIndex", q>>
Unique == <<"rdf:type", "nrl:InverseFunctionalProperty">>

MCStock ==
  Space("rdf") \o Space("rdfs") \o Space("xsd") \o Space("ex")
  \o ClassIs("xsd:string", << >>, << >>) \o ClassIs("xsd:integer", << >>, << >>)
  \o ClassIs("xsd:boolean", << >>, << >>)
  \o ClassIs("rdfs:Resource", << >>, << >>) \o ClassIs("rdfs:Class", <<"rdfs:Resource">>, << >>)
  \o PropertyIs("rdf:type", "rdfs:Resource", "rdfs:Class", << >>)

Common(text) ==
  PropertyIs("t", "A", "xsd:string", <<Single, Fulltext>>)
  \o PropertyIs("n", "B", text, <<Single>>)

\* Two classes: a text, a number kept as text, links, one value of B.
V1 ==
  ClassIs("A", <<"rdfs:Resource">>, << >>) \o ClassIs("B", <<"A">>, << >>)
  \o Common("xsd:string")
  \o PropertyIs("p", "A", "xsd:string", <<Single, Indexed>>)
  \o PropertyIs("q", "A", "rdfs:Resource", << >>)
  \o PropertyIs("s", "B", "xsd:string", <<Single>>)

\* More of everything: superclass, superproperty, domain and secondary indexes.
V2 ==
  ClassIs("K", <<"rdfs:Resource">>, << >>)
  \o ClassIs("A", <<"rdfs:Resource", "K">>, << >>) \o ClassIs("B", <<"A">>, << >>)
  \o ClassIs("C", <<"B">>, << >>)
  \o Common("xsd:integer")
  \o PropertyIs("p", "A", "xsd:string", <<Single, Indexed, Second("t")>>)
  \o PropertyIs("w", "A", "rdfs:Resource", << >>)
  \o PropertyIs("q", "A", "rdfs:Resource", <<Under("w")>>)
  \o PropertyIs("s", "B", "xsd:string", <<Single>>)
  \o PropertyIs("u", "C", "xsd:string", <<Single, Unique>>)
  \o << <<"B", "nrl:domainIndex", "p">>, <<"C", "nrl:domainIndex", "t">> >>

\* Classes, properties and indexes go, s may have several values.
V3 ==
  ClassIs("A", <<"rdfs:Resource">>, << >>) \o ClassIs("B", <<"A">>, << >>)
  \o Common("xsd:integer")
  \o PropertyIs("p", "A", "xsd:string", <<Single, Indexed>>)
  \o PropertyIs("q", "A", "rdfs:Resource", << >>)
  \o PropertyIs("s", "B", "xsd:string", << >>)

\* The domain of p changes.
V4 ==
  ClassIs("A", <<"rdfs:Resource">>, << >>) \o ClassIs("B", <<"A">>, << >>)
  \o Common("xsd:string") \o PropertyIs("p", "B", "xsd:string", <<Single, Indexed>>)

\* The superclass is defined too late.
V5 == ClassIs("B", <<"A">>, << >>) \o ClassIs("A", <<"rdfs:Resource">>, << >>)

MCData == "v1" :> V1 @@ "v2" :> V2 @@ "v3" :> V3 @@ "v4" :> V4 @@ "v5" :> V5

MCFacts ==
  {[name |-> "x", class |-> "B", links |-> {<<"q", "y">>},
    values |-> {<<"p", 1>>, <<"n", 7>>, <<"s", 3>>}],
   [name |-> "z", class |-> "A", links |-> {<<"q", "y">>}, values |-> {<<"t", 1>>}]}

English == [locale |-> "en", tokenizer |-> "1"]
German == [locale |-> "de", tokenizer |-> "2"]
How(data, readonly, env) == [data |-> data, readonly |-> readonly, env |-> env]
MCOpenings ==
  {How(v, FALSE, English) : v \in DOMAIN MCData}
  \cup {How("v2", FALSE, German), How("none", FALSE, German), How("none", TRUE, English)}

-----------------------------------------------------------------------------
(***************************************************************************)
(* Databases of earlier formats: made by V1, one named graph in a file of  *)
(* its own.                                                                *)
(***************************************************************************)
OldOntology == OntologyOf["v1"].onto
MadeBy(data) ==
  Applied(Created, [Closed EXCEPT !.data = data, !.create = TRUE, !.apply = TRUE, !.env = English])

AsOld(f, r, version) ==
  [f EXCEPT !.version = version, !.anonymous = version >= DB_VERSION_3_3,
            !.tokenizer = English.tokenizer,
            !.state = (DefaultGraph :> [Told(f, DefaultGraph, OldOntology, r) EXCEPT
                                          !.counted = version >= DB_VERSION_3_10])
                      @@ ("g" :> EmptyGraph),
            !.attached = "g" :> Told(f, "g", OldOntology, r)]

OldFile(version) ==
  LET r == CHOOSE r \in MCFacts : r.name = "x"
  IN  AsOld(EnsureGraph(Known([MadeBy("v1") EXCEPT !.state = @ @@
                ("g" :> ApplyChanges(EmptyGraph, EmptyOntology, OldOntology))], r), "g"),
            r, version)
MCOldFiles == {OldFile(v) : v \in {DB_VERSION_3_0, DB_VERSION_3_10}}

-----------------------------------------------------------------------------
(***************************************************************************)
(* What the tables say, and what an ontology change should make of it.     *)
(***************************************************************************)
Members(s, c) ==
  IF <<c>> \in DOMAIN s.tables THEN {r["ID"] : r \in s.tables[<<c>>].rows} ELSE {}
ValuesIn(s, o, p) ==
  {<<r["ID"], r[p]>> : r \in {x \in s.tables[TableOf(o.property[p], p)].rows : x[p] # Null}}

\* Superclasses and superproperties take over what is known below them.
MembersAfter(s, db, cur, c) ==
  Members(s, c) \cup UNION {Members(s, d) : d \in {e \in DOMAIN cur.class \cap DOMAIN db.class :
                                                     c \in ClassesOver(cur, {e})}}
ValuesAfter(s, db, cur, p) ==
  {<<v[1], Cast(v[2], SqlType(cur.property[p]))>> :
     v \in UNION {ValuesIn(s, db, q) : q \in {r \in DOMAIN cur.property \cap DOMAIN db.property :
                                               p \in PropertiesOver(cur, {r})}}}

OnlyValue(vs, i) ==
  LET own == {v[2] : v \in {w \in vs : w[1] = i}}
  IN  IF own = {} THEN Null ELSE CHOOSE v \in own : TRUE

\* The rows of table t in a graph that knows these members and values.
RowsOf(t, columns, members, values) ==
  IF Len(t) = 1
  THEN {("ID" :> i) @@ [p \in columns |-> OnlyValue(values[p], i)] : i \in members[t[1]]}
  ELSE {("ID" :> v[1]) @@ (t[2] :> v[2]) : v \in {w \in values[t[2]] : w[1] \in members[t[1]]}}

SameSchema(s, fresh) ==
  /\ s.counted /\ s.indexes = fresh.indexes /\ s.view = fresh.view
  /\ DOMAIN s.tables = DOMAIN fresh.tables
  /\ \A t \in DOMAIN s.tables :
       /\ Range(s.tables[t].columns) = Range(fresh.tables[t].columns)
       /\ s.tables[t].type = fresh.tables[t].type

\* A graph made for the ontology as it was written.
Fresh == [data \in DOMAIN OntologyData |->
            ApplyChanges(EmptyGraph, EmptyOntology, OntologyOf[data].onto)]

\* The contents of graph g before an opening, wherever they lie.
Before(f, g) == IF g \in DOMAIN f.attached /\ f.version < DB_VERSION_3_10_B
                THEN f.attached[g] ELSE f.state[g]

\* docs/reference/ontologies.md: what cannot be applied to existing data.
Incompatible(db, cur) ==
  \E p \in DOMAIN db.property \cap DOMAIN cur.property :
    LET old == db.property[p]
        new == cur.property[p]
    IN  \/ old.domain # new.domain
        \/ old.multi /\ ~new.multi
        \/ new.unique /\ ~old.unique
        \/ old.range # new.range /\ ~Convertible(old.range, new.range)

-----------------------------------------------------------------------------
(***************************************************************************)
(* Properties.                                                             *)
(***************************************************************************)
\* However a database came to its ontology, the tables, columns and indexes of
\* each of its graphs are those of a graph made for that ontology, and the next
\* opening will read that very ontology from it.  A writer's indexes are sorted
\* and tokenized as it expects, and whole if the file was marked as corrupted.
SchemaFresh ==
  conn.phase = "open" =>
    /\ \A g \in file.graphs : SameSchema(file.state[g], Fresh[file.checksum])
    /\ Diff(DbOntology(file), OntologyOf[file.checksum].onto) = << >>
    /\ file.version = DB_VERSION_NOW /\ file.anonymous
    /\ ~conn.readonly => /\ file.sorted = conn.env.locale
                         /\ HasFts(conn.ontology) => file.tokens = conn.env.tokenizer
    /\ conn.repaired => file.damage = {}

\* An opening that commits changes the data of no graph but as the ontology
\* change says: what is still in the ontology is kept, converted to the new
\* range, and known of the superclasses, superproperties and domain indexes.
UpgradeExact ==
  [][conn.phase = "applied" /\ conn'.phase = "open" /\ ~conn.create =>
       \A g \in file.graphs :
         LET s == Before(file, g)
             o == conn.ontology
             members == [c \in DOMAIN o.class |-> MembersAfter(s, conn.db, o, c)]
             values == [p \in DOMAIN o.property |-> ValuesAfter(s, conn.db, o, p)]
         IN  \A t \in DOMAIN file'.state[g].tables :
               LET table == file'.state[g].tables[t]
               IN  table.rows = RowsOf(t, Range(table.columns), members, values)]_vars

\* Every id in a table has its name in the Resource table, whatever rows the
\* changes copied and dropped and whatever closing cleaned up.
NoDanglingIds ==
  LET o == OntologyOf[file.checksum].onto
      links == {p \in DOMAIN o.property : IsResource(o.property[p])}
  IN  \A g \in file.graphs : \A t \in DOMAIN file.state[g].tables :
        LET table == file.state[g].tables[t]
            ids == {"ID"} \cup (Range(table.columns) \cap links)
        IN  \A r \in table.rows : \A c \in ids :
              r[c] # Null => r[c].n \in DOMAIN file.resource

\* A change of the ontology is refused if and only if it is one of those the
\* documentation names; an opening is refused for no other fault of the code.
RefusedForCause ==
  /\ conn.phase = "refused" =>
       \/ ~file.exists
       \/ file.version < (IF conn.readonly THEN DB_VERSION_NOW ELSE DB_VERSION_3_0)
       \/ conn.data # NoData /\ ~OntologyOf[conn.data].ok
       \/ "data" \in file.damage
       \/ conn.apply /\ Incompatible(conn.db, NewOntology(conn))
  /\ conn.phase = "applied" /\ conn.apply => ~Incompatible(conn.db, NewOntology(conn))
=============================================================================
