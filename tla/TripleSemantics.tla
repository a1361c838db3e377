--------------------------- MODULE TripleSemantics ---------------------------
(***************************************************************************)
(* What statements do to a set of triples <<subject, property, value>>,    *)
(* without tables, update log, buffers or reference counts.                *)
(***************************************************************************)
EXTENDS Ontology

CONSTANT Doomed         \* the state of a transaction that can only be aborted

TypesIn(T, s) == {c \in Class : <<s, RdfType, c>> \in T}
Of(T, s, P) == {t \in T : t[1] = s /\ t[2] \in P}

\* Being of a class means being of its superclasses.
WithType(T, s, c) == T \cup {<<s, RdfType, d>> : d \in ClassesAbove(c)}

\* Leaving a class means leaving its subclasses and losing their properties.
WithoutType(T, s, c) ==
  IF c \notin TypesIn(T, s) THEN T
  ELSE {t \in T : \/ t[1] # s
                  \/ t[2] = RdfType /\ t[3] \notin ClassesBelow(c)
                  \/ t[2] # RdfType /\ Domain[t[2]] \notin ClassesBelow(c)}

\* A value holds for the superproperties too; a single-valued superproperty
\* that has another value keeps it.
WithValue(T, s, p, o) ==
  T \cup {<<s, q, o>> : q \in {q \in PropsAbove(p) : q \in Multi \/ Of(T, s, {q}) = {}}}

WithoutValue(T, s, p, o) == T \ {<<s, q, o>> : q \in PropsAbove(p)}

Conflicts(T, s, p, o) ==
  p \notin Multi /\ Of(T, s, {p}) \notin {{}, {<<s, p, o>>}}

\* A statement is refused right away if the subject is not of the domain.
Refused(T, st) ==
  /\ st.kind \in {"INSERT", "REPLACE"}
  /\ Domain[st.p] \notin TypesIn(T, st.s)

Inserted(T, st) ==
  IF Conflicts(T, st.s, st.p, st.o) THEN Doomed ELSE WithValue(T, st.s, st.p, st.o)

\* The triples a list of values leaves when it replaces those of a property.
Overwritten(T, s, p, os) ==
  (T \ Of(T, s, PropsAbove(p)))
    \cup {<<s, q, o>> : q \in PropsAbove(p), o \in Range(os)}

Result(T, st) ==
  CASE st.kind = "INSERT"       -> Inserted(T, st)
    [] st.kind = "LOAD"         -> Inserted(WithType(T, st.s, Domain[st.p]), st)
    [] st.kind = "INSERT_TYPE"  -> WithType(T, st.s, st.o)
    [] st.kind = "DELETE"       -> WithoutValue(T, st.s, st.p, st.o)
    [] st.kind = "DELETE_TYPE"  -> WithoutType(T, st.s, st.o)
    [] st.kind = "REPLACE"      -> Overwritten(T, st.s, st.p, <<st.o>>)
    [] st.kind = "REPLACE_NULL" -> T \ Of(T, st.s, {st.p})
    [] st.kind = "SET_RESOURCE" ->
         Overwritten(WithType(T, st.s, Domain[st.p]), st.s, st.p, st.os)
=============================================================================
