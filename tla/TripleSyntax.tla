---------------------------- MODULE TripleSyntax -----------------------------
(***************************************************************************)
(* Triples and property paths as requests write them, and the plain        *)
(* triples and binary paths they are translated to (the rules from         *)
(* TriplesSameSubject to VarOrTerm of core/tracker-sparql.c).              *)
(*                                                                         *)
(* A written triple is a record with its subject s and its property list   *)
(* pl, a sequence of records verb and objects.  Subjects and objects are   *)
(* terms, <<"[]", pl>>, <<"()", nodes>>, <<"anon">> or <<"label", l>>.  A  *)
(* verb is a variable, a property or a path whose "seq", "alt" and         *)
(* "negated" have a sequence of elements; those of "negated" are <<p,      *)
(* inverse>>.                                                              *)
(*                                                                         *)
(* mode is "path" in the triples of a WHERE clause, "select" in templates  *)
(* of CONSTRUCT and for the later properties of a list in a WHERE clause,  *)
(* "update" in updates.  x is the context of the translation.              *)
(***************************************************************************)
EXTENDS TripleBlocks, TLC

CONSTANTS ListClass, ListFirst, ListRest, ListNil

Prop1(p) == <<"prop", p>>

-----------------------------------------------------------------------------
(***************************************************************************)
(* Paths.  Elements of one property are shared by all of the paths of a    *)
(* graph: x.elements has those made so far.  A result has the context and  *)
(* the path.                                                               *)
(***************************************************************************)
Element1(x, p) == <<x.graph, p>>

\* translate_PathPrimary, of a property
PathProperty(x, p) ==
  [x |-> [x EXCEPT !.elements = @ \cup {Element1(x, p)}], path |-> Prop1(p)]

\* translate_PathOneInPropertySet: the element of the property itself is taken if
\* there is one.
OneInSet(x, e) ==
  IF Element1(x, e[1]) \in x.elements THEN Prop1(e[1]) ELSE <<"neg", e[1], e[2]>>

\* intersect_path_elements
Intersected(paths) ==
  FoldLeft(LAMBDA a, b : <<"both", b, a>>, paths[1], Tail(paths))

\* translate_PathNegatedPropertySet
NegatedSet(x, es) ==
  LET all == [i \in DOMAIN es |-> OneInSet(x, es[i])]
      forward == SelectSeq(all, LAMBDA e : e[1] = "neg" /\ ~e[3])
      backward == SelectSeq(all, LAMBDA e : ~(e[1] = "neg" /\ ~e[3]))
  IN  [x |-> x,
       path |-> IF backward = << >> THEN Intersected(forward)
                ELSE IF forward = << >> THEN Intersected(backward)
                ELSE <<"alt", Intersected(forward), Intersected(backward)>>]

\* translate_PathSequence, translate_PathAlternative: of the paths in order.
SequenceOf(paths) ==
  LET n == Len(paths)
  IN  FoldRight(LAMBDA a, b : <<"seq", a, b>>, SubSeq(paths, 1, n - 1), paths[n])
AlternativeOf(paths) ==
  IF Len(paths) = 1 THEN paths[1]
  ELSE FoldLeft(LAMBDA a, b : <<"alt", b, a>>, <<"alt", paths[1], paths[2]>>,
                SubSeq(paths, 3, Len(paths)))

\* translate_Path, translate_PathEltOrInverse, translate_PathMod
RECURSIVE PathOf(_, _)
PathOf(x, path) ==
  LET in(st, e) == LET r == PathOf(st.x, e) IN [x |-> r.x, paths |-> Append(st.paths, r.path)]
      parts == FoldLeft(in, [x |-> x, paths |-> << >>], path[2])
      one == PathOf(x, path[2])
  IN  CASE path[1] = "prop" -> PathProperty(x, path[2])
        [] path[1] = "negated" -> NegatedSet(x, path[2])
        [] path[1] = "seq" -> [x |-> parts.x, path |-> SequenceOf(parts.paths)]
        [] path[1] = "alt" -> [x |-> parts.x, path |-> AlternativeOf(parts.paths)]
        [] path[1] \in {"inv", "plus", "star", "opt"} -> [x |-> one.x, path |-> <<path[1], one.path>>]

\* translate_VerbPath, translate_VerbSimple: a lone property is no path.
Verb(x, verb) ==
  IF IsVar(verb) \/ verb[1] = "prop" THEN [x |-> x, path |-> verb] ELSE PathOf(x, verb)

-----------------------------------------------------------------------------
(***************************************************************************)
(* Nodes.  st has the context, the plain triples so far and the term that  *)
(* stands for the node.                                                    *)
(***************************************************************************)
\* tracker_sparql_generate_anon_bnode
Anon(st, mode) ==
  LET n == st.x.gen + 1
  IN  [st EXCEPT !.x.gen = n,
                 !.term = IF mode = "update" THEN <<"bnode", n>> ELSE Var("_" \o ToString(n))]

\* translate_BlankNode
BlankNode(st, node, mode) ==
  IF node[1] = "anon" THEN Anon(st, mode)
  ELSE [st EXCEPT !.term = IF mode = "update" THEN node ELSE Var("_:" \o node[2])]

Emit(st, s, p, o) == [st EXCEPT !.ts = Append(@, [s |-> s, p |-> p, o |-> o])]

RECURSIVE GraphNode(_, _, _)

\* translate_GraphNode, translate_GraphNodePath
EmitTerm(st, s, p) == Emit(st, s, p, st.term)
ObjectOf(st, s, p, node, mode) == EmitTerm(GraphNode(st, node, mode), s, p)

\* translate_PropertyListNotEmpty, translate_PropertyListPathNotEmpty: the properties
\* after the first are not those of a path rule.
ObjectList(st, v, s, nodes, mode) ==
  FoldLeft(LAMBDA a, node : ObjectOf(a, s, v.path, node, mode), [st EXCEPT !.x = v.x], nodes)
PropertyList(st, s, pl, mode) ==
  LET property(acc, i) ==
        ObjectList(acc, Verb(acc.x, pl[i].verb), s, pl[i].objects,
                IF mode = "path" /\ i > 1 THEN "select" ELSE mode)
  IN  FoldLeft(property, st, [i \in DOMAIN pl |-> i])

\* The nodes of a list, its first one in the cell that the node before it links to.
ListNode(st, cell, node, mode) ==
  ObjectOf(IF mode = "path" THEN st ELSE Emit(st, cell, Prop1(RdfType), Iri(ListClass)),
           cell, Prop1(ListFirst), node, mode)
NextCell(next, cell) == [Emit(next, cell, Prop1(ListRest), next.term) EXCEPT !.term = next.term]
ListNodes(st, nodes, mode) ==
  LET in(acc, node) == [ListNode(acc, acc.term, node, mode) EXCEPT !.term = acc.term]
      add(acc, node) == in(NextCell(Anon(acc, mode), acc.term), node)
  IN  FoldLeft(add, in(st, Head(nodes)), Tail(nodes))
ListEnd(st) == Emit(st, st.term, Prop1(ListRest), Iri(ListNil))

\* translate_Collection, translate_CollectionPath
AtCell(cell, nodes, mode) == [ListEnd(ListNodes(cell, nodes, mode)) EXCEPT !.term = cell.term]
Collection(st, nodes, mode) == AtCell(Anon(st, mode), nodes, mode)

\* translate_BlankNodePropertyList, translate_BlankNodePropertyListPath
AtNode(node, pl, mode) == [PropertyList(node, node.term, pl, mode) EXCEPT !.term = node.term]
BlankNodePropertyList(st, pl, mode) == AtNode(Anon(st, mode), pl, mode)

\* translate_TriplesNode, translate_VarOrTerm
GraphNode(st, node, mode) ==
  CASE node[1] = "[]" -> BlankNodePropertyList(st, node[2], mode)
    [] node[1] = "()" -> Collection(st, node[2], mode)
    [] node[1] \in {"anon", "label"} -> BlankNode(st, node, mode)
    [] node[1] = "about" -> PropertyList(st, st.term, node[2], mode)
    [] OTHER -> [st EXCEPT !.term = node]

\* translate_TriplesSameSubject, translate_TriplesSameSubjectPath: the properties are
\* about the subject that was translated last.
SameSubject(st, t, mode) == GraphNode(GraphNode(st, t.s, mode), <<"about", t.pl>>, mode)

\* translate_TriplesBlock, translate_TriplesTemplate, translate_ConstructTriples
Written(x, ts, mode) ==
  FoldLeft(LAMBDA st, t : SameSubject(st, t, mode), [x |-> x, ts |-> << >>, term |-> NULL], ts)
=============================================================================
