------------------------------ MODULE Ontology ------------------------------
(***************************************************************************)
(* The part of the ontology the write path of the store consults: the      *)
(* classes with their superclasses, the properties with their superproper- *)
(* ties, domain, range and cardinality, the fulltext-indexed properties    *)
(* and the domain indexes (TrackerOntologies, TrackerClass and             *)
(* TrackerProperty in libtinysparql/core).  It is read-only while data is  *)
(* updated, so everything here is a constant or derived from one.          *)
(***************************************************************************)
EXTENDS Integers, Sequences, FiniteSets, Functions, SequencesExt

CONSTANTS
  Uri,            \* the resources updates talk about
  Literal,        \* the literal values of the properties of no resource range
  RdfType,        \* rdf:type, the property every class membership is stored in
  ClassOrder,     \* the classes, in the order of their ids
  SuperClasses,   \* class -> sequence of its direct superclasses
  PropOrder,      \* the properties other than rdf:type, in ontology order
  SuperProps,     \* property -> sequence of its direct superproperties
  Domain,         \* property -> class
  Multi,          \* properties of no nrl:maxCardinality 1
  Links,          \* properties whose range is a resource
  FullText,       \* properties that are nrl:fulltextIndexed
  DomainIndexes   \* property -> set of classes that hold a copy of its column

Class == Range(ClassOrder)
Prop  == Range(PropOrder)
Root  == ClassOrder[1]                      \* rdfs:Resource

Node     == Uri \cup Class                  \* what has a row in Refcount
Object   == Node \cup Literal
ValueOf(p) == IF p \in Links THEN Uri ELSE Literal

\* The elements of a sequence that are in a set, in their order.
Among(seq, S) ==
  LET some[i \in 0..Len(seq)] ==
        IF i = 0 THEN << >>
        ELSE IF seq[i] \in S THEN Append(some[i - 1], seq[i]) ELSE some[i - 1]
  IN  some[Len(seq)]

(***************************************************************************)
(* The recursions of the update code over the two hierarchies always visit *)
(* in one order, which is a constant of the ontology.                      *)
(***************************************************************************)
\* cache_create_service_decomposed: superclasses before the class.
CreateOrder[c \in Class] ==
  FlattenSeq([i \in DOMAIN SuperClasses[c] |-> CreateOrder[SuperClasses[c][i]]])
    \o <<c>>

\* cache_insert_metadata_decomposed, delete_all_helper: superproperties first.
SupersFirst[p \in Prop] ==
  FlattenSeq([i \in DOMAIN SuperProps[p] |-> SupersFirst[SuperProps[p][i]]])
    \o <<p>>

\* delete_metadata_decomposed, delete_single_valued: the property first.
SupersLast[p \in Prop] ==
  <<p>> \o
  FlattenSeq([i \in DOMAIN SuperProps[p] |-> SupersLast[SuperProps[p][i]]])

ClassesAbove(c) == Range(CreateOrder[c])
PropsAbove(p)   == Range(SupersFirst[p])
ClassesBelow(c) == {d \in Class : c \in ClassesAbove(d)}

(***************************************************************************)
(* What tracker-ontologies and the shipped ontologies guarantee: every     *)
(* class descends from rdfs:Resource, the domain of a superproperty is the *)
(* domain of the property or one of its superclasses, ranges agree (no     *)
(* conversion of a resource into a string), a domain index is set by a     *)
(* subclass on a single-valued property. The hierarchies have no cycles,   *)
(* so that each recursion over them ends with a sequence.                  *)
(***************************************************************************)
ASSUME OntologyShape ==
  /\ ClassOrder \in Seq(Class) /\ PropOrder \in Seq(Prop)
  /\ SuperClasses \in [Class -> Seq(Class)]
  /\ SuperProps \in [Prop -> Seq(Prop)]
  /\ Domain \in [Prop -> Class]
  /\ Multi \subseteq Prop /\ Links \subseteq Prop /\ FullText \subseteq Prop \ Links
  /\ RdfType \notin Prop
  /\ DomainIndexes \in [Prop -> SUBSET Class]

ASSUME OntologyHierarchy ==
  /\ CreateOrder \in [Class -> Seq(Class)]
  /\ SupersFirst \in [Prop -> Seq(Prop)] /\ SupersLast \in [Prop -> Seq(Prop)]
  /\ \A c \in Class : Root \in ClassesAbove(c)
  /\ \A p \in Prop : Range(SupersLast[p]) = PropsAbove(p)
  /\ \A p \in Prop : \A q \in PropsAbove(p) :
       /\ Domain[q] \in ClassesAbove(Domain[p])
       /\ (q \in Links) = (p \in Links)
  /\ \A p \in Prop : DomainIndexes[p] \subseteq ClassesBelow(Domain[p]) \ {Domain[p]}
  /\ \A p \in Multi : PropsAbove(p) \subseteq Multi
  /\ \A p \in Multi : DomainIndexes[p] = {}

\* The ids of resources, of classes and literals are told apart.
ASSUME IdsDistinct == Uri \cap (Class \cup Literal) = {}
=============================================================================
