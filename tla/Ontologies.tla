------------------------------ MODULE Ontologies ------------------------------
(***************************************************************************)
(* Where the ontology of a database comes from and how two versions of it  *)
(* differ: tracker-ontologies-rdf.c reads the RDF description,             *)
(* tracker-ontologies-introspect.c what an existing database says of       *)
(* itself, tracker-ontologies-diff.c lists the changes between the two.    *)
(*                                                                         *)
(* An ontology maps the names of its classes and properties to records,    *)
(* and keeps their order: that of the definitions in the RDF, that of the  *)
(* ids in a database.  A triple is <<subject, predicate, object>>, all     *)
(* strings.                                                                *)
(***************************************************************************)
EXTENDS Integers, Sequences, FiniteSets, TLC, Functions, SequencesExt

CONSTANT NamespaceOf      \* name of a class or property -> its namespace

NoName == ""
NewClass == [supers |-> << >>, indexes |-> << >>, notify |-> FALSE]
NewProperty ==
  [domain |-> NoName, range |-> NoName, multi |-> TRUE, indexed |-> FALSE,
   secondary |-> NoName, fulltext |-> FALSE, weight |-> "1", unique |-> FALSE,
   supers |-> << >>, indexes |-> << >>]

EmptyOntology ==
  [classes |-> << >>, class |-> << >>, properties |-> << >>, property |-> << >>,
   prefix |-> << >>, ontologies |-> {}]

AddClass(o, c, rec) ==
  [o EXCEPT !.classes = Append(@, c), !.class = @ @@ (c :> rec)]
AddProperty(o, p, rec) ==
  [o EXCEPT !.properties = Append(@, p), !.property = @ @@ (p :> rec)]

HasClass(o, c) == c \in DOMAIN o.class
HasProperty(o, p) == p \in DOMAIN o.property
\* A name has a shorthand once its namespace is known, even without prefix.
HasShorthand(o, n) == NamespaceOf[n] \in DOMAIN o.prefix

SubjectsOf(ts, p, v) == {t[1] : t \in {u \in Range(ts) : u[2] = p /\ u[3] = v}}
ObjectsOf(ts, s, p) ==
  LET hits == SelectSeq(ts, LAMBDA t : t[1] = s /\ t[2] = p)
  IN  [i \in DOMAIN hits |-> hits[i][3]]

-----------------------------------------------------------------------------
(***************************************************************************)
(* tracker_ontologies_rdf_load_triple, one operator per kind of triple.    *)
(* A result is the ontology with a verdict; a triple that is skipped is    *)
(* not part of the checksum and no error.                                  *)
(***************************************************************************)
Good(o) == [onto |-> o, verdict |-> "good"]
Bad(o) == [onto |-> o, verdict |-> "bad"]
Skipped(o) == [onto |-> o, verdict |-> "skipped"]

DefineClass(o, c) ==
  IF HasClass(o, c) \/ ~HasShorthand(o, c) THEN Skipped(o)
  ELSE Good(AddClass(o, c, NewClass))

DefineProperty(o, p) ==
  IF HasProperty(o, p) \/ ~HasShorthand(o, p) THEN Skipped(o)
  ELSE Good(AddProperty(o, p, NewProperty))

DefineUnique(o, p) ==
  IF HasProperty(o, p) THEN Good([o EXCEPT !.property[p].unique = TRUE]) ELSE Bad(o)

DefineNamespace(o, n) ==
  IF n \in DOMAIN o.prefix THEN Skipped(o)
  ELSE Good([o EXCEPT !.prefix = @ @@ (n :> NoName)])

DefineOntology(o, n) ==
  IF n \in o.ontologies THEN Skipped(o)
  ELSE Good([o EXCEPT !.ontologies = @ \cup {n}])

SetType(o, s, v) ==
  CASE v = "rdfs:Class" -> DefineClass(o, s)
    [] v = "rdf:Property" -> DefineProperty(o, s)
    [] v = "nrl:InverseFunctionalProperty" -> DefineUnique(o, s)
    [] v = "nrl:Namespace" -> DefineNamespace(o, s)
    [] v = "nrl:Ontology" -> DefineOntology(o, s)
    [] OTHER -> Good(o)

SetSuperClass(o, c, d) ==
  IF HasClass(o, c) /\ HasClass(o, d)
  THEN Good([o EXCEPT !.class[c].supers = Append(@, d)]) ELSE Bad(o)

SetNotify(o, c, v) ==
  IF HasClass(o, c) THEN Good([o EXCEPT !.class[c].notify = (v = "true")]) ELSE Bad(o)

SetDomainIndex(o, c, p) ==
  IF ~HasClass(o, c) \/ ~HasProperty(o, p) \/ o.property[p].domain = c THEN Bad(o)
  ELSE Good([o EXCEPT !.class[c].indexes = Append(@, p),
                      !.property[p].indexes = Append(@, c)])

SetSuperProperty(o, p, q) ==
  IF HasProperty(o, p) /\ HasProperty(o, q)
  THEN Good([o EXCEPT !.property[p].supers = Append(@, q)]) ELSE Bad(o)

SetDomain(o, p, c) ==
  IF HasProperty(o, p) /\ HasClass(o, c)
  THEN Good([o EXCEPT !.property[p].domain = c]) ELSE Bad(o)

SetRange(o, p, c) ==
  IF HasProperty(o, p) /\ HasClass(o, c)
  THEN Good([o EXCEPT !.property[p].range = c]) ELSE Bad(o)

SetMaxCardinality(o, p, n) ==
  IF HasProperty(o, p) /\ n # "0"
  THEN Good([o EXCEPT !.property[p].multi = (n # "1")]) ELSE Bad(o)

SetIndexed(o, p, v) ==
  IF HasProperty(o, p)
  THEN Good([o EXCEPT !.property[p].indexed = (v = "true")]) ELSE Bad(o)

\* Only what precedes counts: nrl:indexed and nrl:maxCardinality must be known.
SetSecondaryIndex(o, p, q) ==
  IF /\ HasProperty(o, p) /\ HasProperty(o, q) /\ p # q
     /\ o.property[p].indexed
     /\ ~o.property[p].multi /\ ~o.property[q].multi
  THEN Good([o EXCEPT !.property[p].secondary = q]) ELSE Bad(o)

SetFulltext(o, p, v) ==
  IF HasProperty(o, p)
  THEN Good([o EXCEPT !.property[p].fulltext = (v = "true")]) ELSE Bad(o)

SetWeight(o, p, n) ==
  IF HasProperty(o, p) THEN Good([o EXCEPT !.property[p].weight = n]) ELSE Bad(o)

SetPrefix(o, n, v) ==
  IF n \in DOMAIN o.prefix THEN Good([o EXCEPT !.prefix[n] = v]) ELSE Skipped(o)

Described(o, s, p, v) ==
  CASE p = "rdf:type" -> SetType(o, s, v)
    [] p = "rdfs:subClassOf" -> SetSuperClass(o, s, v)
    [] p = "nrl:notify" -> SetNotify(o, s, v)
    [] p = "nrl:domainIndex" -> SetDomainIndex(o, s, v)
    [] p = "rdfs:subPropertyOf" -> SetSuperProperty(o, s, v)
    [] p = "rdfs:domain" -> SetDomain(o, s, v)
    [] p = "rdfs:range" -> SetRange(o, s, v)
    [] p = "nrl:maxCardinality" -> SetMaxCardinality(o, s, v)
    [] p = "nrl:indexed" -> SetIndexed(o, s, v)
    [] p = "nrl:secondaryIndex" -> SetSecondaryIndex(o, s, v)
    [] p = "nrl:fulltextIndexed" -> SetFulltext(o, s, v)
    [] p = "nrl:weight" -> SetWeight(o, s, v)
    [] p = "nrl:prefix" -> SetPrefix(o, s, v)
    [] OTHER -> Good(o)

\* The checksum is the triples it is made of; the first error ends the load.
LoadTriple(x, t) ==
  IF ~x.ok THEN x
  ELSE LET r == Described(x.onto, t[1], t[2], t[3])
       IN  [onto |-> r.onto, ok |-> r.verdict # "bad",
            checksum |-> IF r.verdict = "skipped" THEN x.checksum ELSE Append(x.checksum, t)]

LoadTriples(rdf) ==
  FoldLeft(LoadTriple, [onto |-> EmptyOntology, ok |-> TRUE, checksum |-> << >>], rdf)

-----------------------------------------------------------------------------
(***************************************************************************)
(* check_ontology_completeness.                                            *)
(***************************************************************************)
\* The classes above those of S, and S.
ClassesOver(o, S) ==
  LET up[n \in 0..Len(o.classes)] ==
        IF n = 0 THEN S
        ELSE LET below == up[n - 1]
             IN  below \cup UNION {Range(o.class[c].supers) : c \in below}
  IN  up[Len(o.classes)]

PropertiesOver(o, S) ==
  LET up[n \in 0..Len(o.properties)] ==
        IF n = 0 THEN S
        ELSE LET below == up[n - 1]
             IN  below \cup UNION {Range(o.property[p].supers) : p \in below}
  IN  up[Len(o.properties)]

HasSuperclass(o, c, d) == d \in ClassesOver(o, {c})

PropertyInherits(o, p) ==
  \A q \in Range(o.property[p].supers) :
    o.property[q].domain # NoName =>
      HasSuperclass(o, o.property[p].domain, o.property[q].domain)

ClassInherits(o, c) == c \notin ClassesOver(o, Range(o.class[c].supers))

IndexesInherited(o, c) ==
  \A p \in Range(o.class[c].indexes) : HasSuperclass(o, c, o.property[p].domain)

Complete(o) ==
  /\ \A p \in DOMAIN o.property :
       /\ o.property[p].domain # NoName /\ o.property[p].range # NoName
       /\ PropertyInherits(o, p)
  /\ \A c \in DOMAIN o.class : ClassInherits(o, c) /\ IndexesInherited(o, c)
  /\ \A n \in DOMAIN o.prefix : o.prefix[n] # NoName

LoadFromRdf(rdf) ==
  LET x == LoadTriples(rdf)
  IN  [x EXCEPT !.ok = @ /\ Complete(x.onto)]

-----------------------------------------------------------------------------
(***************************************************************************)
(* tracker_ontologies_load_from_database: stored are the triples about     *)
(* classes and properties, ids their names in the order of their ids.      *)
(***************************************************************************)
About(ts, s) == SelectSeq(ts, LAMBDA t : t[1] = s)
LastOf(ts, s, p, default) ==
  LET vs == ObjectsOf(ts, s, p) IN IF vs = << >> THEN default ELSE vs[Len(vs)]

StoredClass(own, c) ==
  [supers |-> ObjectsOf(own, c, "rdfs:subClassOf"),
   indexes |-> ObjectsOf(own, c, "nrl:domainIndex"),
   notify |-> LastOf(own, c, "nrl:notify", "false") = "true"]

\* The weight is not loaded; a secondary index is found if it was loaded before.
StoredProperty(own, p, before, holders) ==
  LET second == LastOf(own, p, "nrl:secondaryIndex", NoName)
  IN  [domain |-> LastOf(own, p, "rdfs:domain", NoName),
       range |-> LastOf(own, p, "rdfs:range", NoName),
       multi |-> LastOf(own, p, "nrl:maxCardinality", "0") # "1",
       indexed |-> LastOf(own, p, "nrl:indexed", "false") = "true",
       secondary |-> IF second \in before THEN second ELSE NoName,
       fulltext |-> LastOf(own, p, "nrl:fulltextIndexed", "false") = "true",
       weight |-> NewProperty.weight,
       unique |-> "nrl:InverseFunctionalProperty" \in Range(ObjectsOf(own, p, "rdf:type")),
       supers |-> ObjectsOf(own, p, "rdfs:subPropertyOf"),
       indexes |-> holders]

StoredNamespaces(ts) ==
  [n \in SubjectsOf(ts, "rdf:type", "nrl:Namespace") |->
     LastOf(ts, n, "nrl:prefix", NoName)]

LoadFromDatabase(ts, ids) ==
  LET classes == SubjectsOf(ts, "rdf:type", "rdfs:Class")
      properties == SubjectsOf(ts, "rdf:type", "rdf:Property")
      cs == SelectSeq(ids, LAMBDA n : n \in classes)
      ps == SelectSeq(ids, LAMBDA n : n \in properties)
      before(p) == {ps[i] : i \in 1..(SelectInSeq(ps, LAMBDA q : q = p) - 1)}
      kept == SelectSeq(ts, LAMBDA t : t[2] = "nrl:domainIndex")
      holders(p) == LET hits == SelectSeq(kept, LAMBDA t : t[3] = p)
                    IN  [i \in DOMAIN hits |-> hits[i][1]]
  IN  [classes |-> cs, class |-> [c \in classes |-> StoredClass(About(ts, c), c)],
       properties |-> ps,
       property |-> [p \in properties |->
                       StoredProperty(About(ts, p), p, before(p), holders(p))],
       prefix |-> StoredNamespaces(ts),
       ontologies |-> SubjectsOf(ts, "rdf:type", "nrl:Ontology")]

-----------------------------------------------------------------------------
(***************************************************************************)
(* tracker_ontologies_diff.  A change names the class or property it is    *)
(* about, a second one where there is one, and the ontology ("db" or       *)
(* "current") the attributes of the first are taken from.  NULL is the     *)
(* empty ontology.                                                         *)
(***************************************************************************)
Change(type, side, name, other) ==
  [type |-> type, side |-> side, name |-> name, other |-> other]
ChangesOf(type, side, name, others) ==
  [i \in DOMAIN others |-> Change(type, side, name, others[i])]
Alone(type, side, name) == << Change(type, side, name, NoName) >>
Given(test, changes) == IF test THEN changes ELSE << >>
Missing(seq, there) == SelectSeq(seq, LAMBDA n : n \notin Range(there))

ClassAdded(db, c) == Given(~HasClass(db, c), Alone("CLASS_NEW", "current", c))

\* Mutant: a column is added even where its table is created with it.
PropertyAddedAlways(db, cur, p) ==
  LET r == cur.property[p]
  IN  Given(~HasProperty(db, p),
        Alone("PROPERTY_NEW", "current", p)
        \o ChangesOf("SUPERPROPERTY_NEW", "current", p, r.supers)
        \o Given(r.unique, Alone("UNIQUE_NEW", "current", p))
        \o Given(r.indexed, Alone("INDEX_NEW", "current", p))
        \o Given(r.secondary # NoName, Alone("SECONDARY_INDEX_NEW", "current", p))
        \o Given(r.fulltext, Alone("FTS_INDEX", "current", p)))

\* A single-valued property of a new class is a column of the new table.
PropertyAdded(db, cur, p) ==
  LET r == cur.property[p]
  IN  Given(~HasProperty(db, p),
        Given(r.multi \/ HasClass(db, r.domain), Alone("PROPERTY_NEW", "current", p))
        \o ChangesOf("SUPERPROPERTY_NEW", "current", p, r.supers)
        \o Given(r.unique, Alone("UNIQUE_NEW", "current", p))
        \o Given(r.indexed, Alone("INDEX_NEW", "current", p))
        \o Given(r.secondary # NoName, Alone("SECONDARY_INDEX_NEW", "current", p))
        \o Given(r.fulltext, Alone("FTS_INDEX", "current", p)))

ClassInherited(db, cur, c) ==
  Given(~HasClass(db, c),
    ChangesOf("SUPERCLASS_NEW", "current", c, cur.class[c].supers)
    \o ChangesOf("DOMAIN_INDEX_NEW", "current", c, cur.class[c].indexes))

ClassKept(db, cur, c) ==
  LET old == db.class[c]
      new == cur.class[c]
  IN  ChangesOf("SUPERCLASS_DELETE", "db", c, Missing(old.supers, new.supers))
      \o ChangesOf("SUPERCLASS_NEW", "current", c, Missing(new.supers, old.supers))
      \o ChangesOf("DOMAIN_INDEX_DELETE", "db", c, Missing(old.indexes, new.indexes))
      \o ChangesOf("DOMAIN_INDEX_NEW", "current", c, Missing(new.indexes, old.indexes))

\* The changes that only remove what an existing property had.
PropertyStripped(old, new, p) ==
  LET turned == old.multi # new.multi
  IN  ChangesOf("SUPERPROPERTY_DELETE", "db", p, Missing(old.supers, new.supers))
      \o Given(old.indexed /\ (turned \/ ~new.indexed), Alone("INDEX_DELETE", "current", p))
      \o Given(old.secondary # NoName /\ (turned \/ old.secondary # new.secondary),
               Alone("SECONDARY_INDEX_DELETE", "db", p))
      \o Given(old.unique /\ (turned \/ ~new.unique), Alone("UNIQUE_DELETE", "current", p))

PropertyExtended(old, new, p) ==
  LET turned == old.multi # new.multi
  IN  Given(new.unique /\ (turned \/ ~old.unique), Alone("UNIQUE_NEW", "current", p))
      \o Given(new.secondary # NoName /\ (turned \/ old.secondary # new.secondary),
               Alone("SECONDARY_INDEX_NEW", "current", p))
      \o Given(new.indexed /\ (turned \/ ~old.indexed), Alone("INDEX_NEW", "current", p))
      \o ChangesOf("SUPERPROPERTY_NEW", "current", p, Missing(new.supers, old.supers))

PropertyKept(db, cur, p) ==
  LET old == db.property[p]
      new == cur.property[p]
      turned == old.multi # new.multi
  IN  PropertyStripped(old, new, p)
      \o Given(old.fulltext # new.fulltext \/ (turned /\ new.fulltext),
               Alone("FTS_INDEX", "current", p))
      \o Given(old.range # new.range, Alone("RANGE", "current", p))
      \o Given(old.domain # new.domain, Alone("DOMAIN", "current", p))
      \o Given(turned, Alone("CARDINALITY", "current", p))
      \o PropertyExtended(old, new, p)

PropertyDeleted(db, p) ==
  LET r == db.property[p]
  IN  Given(r.fulltext, Alone("FTS_INDEX", "db", p))
      \o Given(r.secondary # NoName, Alone("SECONDARY_INDEX_DELETE", "db", p))
      \o Given(r.indexed, Alone("INDEX_DELETE", "db", p))
      \o Given(r.unique, Alone("UNIQUE_DELETE", "db", p))
      \o ChangesOf("SUPERPROPERTY_DELETE", "db", p, r.supers)
      \o Alone("PROPERTY_DELETE", "db", p)

ClassDeleted(db, c) ==
  ChangesOf("DOMAIN_INDEX_DELETE", "db", c, db.class[c].indexes)
  \o ChangesOf("SUPERCLASS_DELETE", "db", c, db.class[c].supers)
  \o Alone("CLASS_DELETE", "db", c)

Diff(db, cur) ==
  LET each(names, changes) == FlattenSeq([i \in DOMAIN names |-> changes[names[i]]])
      kept(o, n) == HasClass(o, n) \/ HasProperty(o, n)
  IN  each(cur.classes, [c \in DOMAIN cur.class |-> ClassAdded(db, c)])
      \o each(cur.properties, [p \in DOMAIN cur.property |-> PropertyAdded(db, cur, p)])
      \o each(cur.classes, [c \in DOMAIN cur.class |-> ClassInherited(db, cur, c)])
      \o each(SelectSeq(db.classes, LAMBDA c : kept(cur, c)),
              [c \in DOMAIN db.class \cap DOMAIN cur.class |-> ClassKept(db, cur, c)])
      \o each(db.properties,
              [p \in DOMAIN db.property |-> IF kept(cur, p) THEN PropertyKept(db, cur, p)
                                            ELSE PropertyDeleted(db, p)])
      \o each(SelectSeq(db.classes, LAMBDA c : ~kept(cur, c)),
              [c \in DOMAIN db.class |-> ClassDeleted(db, c)])
=============================================================================
