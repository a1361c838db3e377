----------------------------- MODULE Resources -----------------------------
(***************************************************************************)
(* TrackerResource (tracker-resource.c): a description of a resource in    *)
(* memory, whose values may be other resources; the cursor over its        *)
(* statements (tracker-deserializer-resource.c); its form as a GVariant;   *)
(* and the three ways to store it: within a transaction                    *)
(* (tracker-data-update.c), as a batch over D-Bus (tracker-bus-batch.c)    *)
(* and as the text of a SPARQL update.                                     *)
(*                                                                         *)
(* Resources live in a table, from a name to the resource.  A value that   *)
(* is a resource has the type "resource" and the name as its string.  The  *)
(* properties are in the order in which they were first set, one of the    *)
(* orders the hash table may have; nothing depends on which.               *)
(***************************************************************************)
EXTENDS RdfTerms, FiniteSets

NewResource(id) == [id |-> id, props |-> << >>, overwrite |-> { }]
TypeProperty == <<"rdf:", "type">>

PropertyAt(res, prop) == SelectInSeq(res.props, LAMBDA p : p.prop = prop)
WithProperty(res, prop, values, array) ==
  LET entry == [prop |-> prop, values |-> values, array |-> array]
      at == PropertyAt(res, prop)
  IN  [res EXCEPT !.props = IF at = 0 THEN Append(@, entry) ELSE [@ EXCEPT ![at] = entry]]

\* Setting replaces the values and marks the property as overwriting.
SetGvalue(res, prop, value) ==
  [WithProperty(res, prop, <<value>>, FALSE) EXCEPT !.overwrite = @ \union {prop}]

\* Adding appends, and leaves the mark as it is.
AddGvalue(res, prop, value) ==
  LET at == PropertyAt(res, prop)
  IN  WithProperty(res, prop, (IF at = 0 THEN << >> ELSE res.props[at].values) \o <<value>>, TRUE)

SetIdentifier(res, id) == [res EXCEPT !.id = id]
IsBlankNode(res) == res.id = NULL \/ IsBlank(res.id)

\* A resource without an identifier gets one when it is asked for it.
Identifier(table, r) == IF table[r].id = NULL THEN <<Blank, r>> ELSE table[r].id

IsChild(value) == value.type = "resource"
ChildOf(value) == value.str[1]
Relation(r) == Value("resource", <<r>>)

\* The iterator: the values of the properties, one by one.
Items(res) ==
  FlattenSeq([i \in DOMAIN res.props |->
    [j \in DOMAIN res.props[i].values |-> [prop |-> res.props[i].prop, value |-> res.props[i].values[j]]]])

Children(res) == {ChildOf(item.value) : item \in {i \in Range(Items(res)) : IsChild(i.value)}}

RECURSIVE Reached(_, _)
Reached(table, rs) ==
  LET more == rs \union UNION {Children(table[r]) : r \in rs}
  IN  IF more = rs THEN rs ELSE Reached(table, more)

-----------------------------------------------------------------------------
(* The cursor. *)

ExpandNode(namespaces, s) == IF IsBlank(s) THEN s ELSE ExpandUri(namespaces, s)
NodeValue(namespaces, s) == Value(IF IsBlank(s) THEN "bnode" ELSE "uri", ExpandNode(namespaces, s))

\* Strings are expanded as URIs are.
ObjectValue(table, namespaces, value) ==
  CASE IsChild(value) -> NodeValue(namespaces, Identifier(table, ChildOf(value)))
    [] value.type = "uri" -> NodeValue(namespaces, value.str)
    [] value.type = "string" -> Value("string", ExpandNode(namespaces, value.str))
    [] OTHER -> value

ResourceRow(table, namespaces, r, item, g) ==
  Quad(NodeValue(namespaces, Identifier(table, r)), ExpandNode(namespaces, item.prop),
       ObjectValue(table, namespaces, item.value), g)

\* The rest of the cursor from a stack of resources and positions in them: a resource that
\* was not visited yet gives its statements before the one that has it as its value.
RECURSIVE ResourceRows(_, _, _, _, _)
ResourceRows(table, namespaces, g, stack, visited) ==
  IF stack = << >> THEN << >>
  ELSE LET top == Last(stack)
           items == Items(table[top.r])
           item == items[top.at + 1]
           here == Append(Front(stack), [top EXCEPT !.at = @ + 1])
           below == Last(Front(stack))
           rest(st, seen) == ResourceRows(table, namespaces, g, st, seen)
       IN  CASE top.at < Len(items) ->
                  IF IsChild(item.value) /\ ChildOf(item.value) \notin visited
                  THEN rest(Append(here, [r |-> ChildOf(item.value), at |-> 0]),
                            visited \union {ChildOf(item.value)})
                  ELSE <<ResourceRow(table, namespaces, top.r, item, g)>> \o rest(here, visited)
             [] top.at = Len(items) /\ Len(stack) = 1 -> << >>
             [] top.at = Len(items) /\ Len(stack) > 1 ->
                  <<ResourceRow(table, namespaces, below.r, Items(table[below.r])[below.at], g)>>
                  \o rest(Front(stack), visited)

\* (Mutant: the resource at the root does not count as visited.)
RowsOfResourceUnvisited(table, namespaces, r, g) ==
  ResourceRows(table, namespaces, g, <<[r |-> r, at |-> 0]>>, { })

RowsOfResource(table, namespaces, r, g) ==
  ResourceRows(table, namespaces, g, <<[r |-> r, at |-> 0]>>, {r})

-----------------------------------------------------------------------------
(* The variant: a dictionary, in which children are dictionaries in turn. *)

\* Dates have no form, nor has a list of values of several types; and the dictionary of a
\* cycle has no end.
Serializable(table, r) ==
  \A q \in Reached(table, {r}) :
     /\ \A item \in Range(Items(table[q])) : item.value.type # "datetime"
     /\ \A i \in DOMAIN table[q].props :
          Cardinality({v.type : v \in Range(table[q].props[i].values)}) = 1
     /\ q \notin Reached(table, Children(table[q]))
     /\ IsBlankNode(table[q]) => table[q].props # << >>

RECURSIVE Serialize(_, _)

\* (Mutant: an array of one value is written as that value.)
SerializeUnwraps(table, r) ==
  LET variant == [value |-> Unbound, child |-> << >>]
      single(value) == IF IsChild(value) THEN [variant EXCEPT !.child = <<Serialize(table, ChildOf(value))>>]
                       ELSE [variant EXCEPT !.value = value]
      entry(p) == [prop |-> p.prop, array |-> Len(p.values) > 1,
                   values |-> [j \in DOMAIN p.values |-> single(p.values[j])]]
  IN  [id |-> IF IsBlankNode(table[r]) THEN NULL ELSE table[r].id,
       entries |-> [i \in DOMAIN table[r].props |-> entry(table[r].props[i])]]

Serialize(table, r) ==
  LET single(value) == [value |-> IF IsChild(value) THEN Unbound ELSE value,
                        child |-> IF IsChild(value) THEN <<Serialize(table, ChildOf(value))>> ELSE << >>]
      props == table[r].props
  IN  [id |-> IF IsBlankNode(table[r]) THEN NULL ELSE table[r].id,
       entries |-> [i \in DOMAIN props |->
         [prop |-> props[i].prop, array |-> props[i].array,
          values |-> [j \in DOMAIN props[i].values |-> single(props[i].values[j])]]]]

\* Single values are set, the elements of arrays are added.  The result has its children
\* in the place of their names.
RECURSIVE Deserialize(_)
Deserialize(variant) ==
  LET value(v) == IF v.child = << >> THEN [value |-> v.value, child |-> << >>]
                  ELSE [value |-> Unbound, child |-> <<Deserialize(v.child[1])>>]
      load(res, entry) ==
        IF entry.array
        THEN FoldLeft(LAMBDA acc, v : AddGvalue(acc, entry.prop, value(v)), res, entry.values)
        ELSE SetGvalue(res, entry.prop, value(entry.values[1]))
  IN  FoldLeft(load, NewResource(variant.id), variant.entries)

-----------------------------------------------------------------------------
(***************************************************************************)
(* Storing a resource in a set of statements, triples of a subject, a      *)
(* predicate and an object.                                                *)
(***************************************************************************)
Statement3(row) == <<row[1].str, row[2].str, row[3]>>

\* The statement of an item, in which a string is what it is.
ItemStatement(table, namespaces, r, item) ==
  <<ExpandNode(namespaces, Identifier(table, r)), ExpandNode(namespaces, item.prop),
    IF item.value.type = "string" THEN item.value ELSE ObjectValue(table, namespaces, item.value)>>
Reset(store, s, p) == {t \in store : t[1] # s \/ t[2] # p}
SubjectsOf(store) == {t[1] : t \in store}

Overwrites(table, r, prop) == ~IsBlankNode(table[r]) /\ prop \in table[r].overwrite

\* The types of the resource first, then its other properties.
TypesFirst(res) ==
  LET type(item) == item.prop = TypeProperty
  IN  SelectSeq(Items(res), type) \o SelectSeq(Items(res), LAMBDA i : ~type(i))

\* update_resource_single: a property that overwrites is reset in front of each of its
\* values, unless the resource is a new one; a child is stored in front of the statement
\* that has it.  The work in progress is the store and the resources visited.
RECURSIVE UpdateResourceSingle(_, _, _, _)
UpdateResourceSingle(table, namespaces, r, work) ==
  LET subject == ExpandNode(namespaces, Identifier(table, r))
      isNew == subject \notin work.known
      maybeReset(w, item) ==
        IF Overwrites(table, r, item.prop) /\ ~isNew /\ item.prop # TypeProperty
        THEN [w EXCEPT !.store = Reset(@, subject, ExpandNode(namespaces, item.prop))] ELSE w
      child(w, item) ==
        IF IsChild(item.value) THEN UpdateResourceSingle(table, namespaces, ChildOf(item.value), w) ELSE w
      property(w, item) ==
        [child(maybeReset(w, item), item) EXCEPT
           !.store = @ \union {ItemStatement(table, namespaces, r, item)}]
  IN  IF r \in work.visited THEN work
      ELSE FoldLeft(property, [work EXCEPT !.visited = @ \union {r}], TypesFirst(table[r]))

UpdateResource(table, namespaces, r, store) ==
  UpdateResourceSingle(table, namespaces, r,
    [store |-> store, visited |-> { }, known |-> SubjectsOf(store)]).store

\* (Mutant: the related resources keep what they had.)
ClearedRootOnly(table, names, namespaces, r, store) ==
  {t \in store : ~\E p \in table[r].overwrite : <<t[1], t[2]>> = <<names[r], ExpandNode(namespaces, p)>>}

\* What an update leaves of a store in front of the insertion, if names are the subjects
\* of its deletions.
Cleared(table, names, namespaces, r, store) ==
  LET named == {q \in Reached(table, {r}) : ~IsBlankNode(table[q])}
      cleared(q) == {<<names[q], ExpandNode(namespaces, p)>> : p \in table[q].overwrite}
  IN  {t \in store : <<t[1], t[2]>> \notin UNION {cleared(q) : q \in named}}

\* The subject of a deletion is bound to the identifier as it is, or written as a name.
BoundNames(table) == [q \in DOMAIN table |-> Identifier(table, q)]
WrittenNames(table, namespaces) == [q \in DOMAIN table |-> ExpandNode(namespaces, Identifier(table, q))]

\* A batch over D-Bus: deletions for the properties that overwrite, from the resource and
\* those it reaches, and then all statements at once.
BusBatch(table, namespaces, r, store) ==
  Cleared(table, BoundNames(table), namespaces, r, store)
  \union {Statement3(row) : row \in Range(RowsOfResource(table, namespaces, r, Unbound))}

\* A related resource whose name has a prefix that is known, or none, is taken for a class
\* of the ontology, of which nothing is inserted.
IsBuiltinClass(table, namespaces, r) ==
  LET id == Identifier(table, r)
  IN  ~IsBlank(id) /\ (HasPrefix(namespaces, id[1]) \/ Len(id) = 1)

RECURSIVE Inserted(_, _, _)
Inserted(table, namespaces, rs) ==
  LET more == rs \union {q \in UNION {Children(table[r]) : r \in rs} : ~IsBuiltinClass(table, namespaces, q)}
  IN  IF more = rs THEN rs ELSE Inserted(table, namespaces, more)

\* The text of a SPARQL update: none for a resource without properties, and none that can
\* be parsed where a related one has none, whose name is printed with nothing after it.
PrintSparqlUpdate(table, namespaces, r, store) ==
  LET statements(q) == {ItemStatement(table, namespaces, q, item) : item \in Range(Items(table[q]))}
      printed == Inserted(table, namespaces, {r})
  IN  IF \E q \in printed : table[q].props = << >> THEN store
      ELSE Cleared(table, WrittenNames(table, namespaces), namespaces, r, store)
           \union UNION {statements(q) : q \in printed}
=============================================================================
