---------------------------- MODULE UpdateBuffer ----------------------------
(***************************************************************************)
(* The update buffer of TrackerData and how the statements of an update    *)
(* are decomposed into it (core/tracker-data-update.c).                    *)
(*                                                                         *)
(* The operators transform a context                                       *)
(*   db      the database as the running transaction sees it,              *)
(*   buf     the buffer: log    pending entries,                           *)
(*                       res    the buffered resources, Uri -> record,     *)
(*                       fresh  new_resources,                             *)
(*                       cache  resource_cache,                            *)
(*   events  the resources statement callbacks were dispatched for,        *)
(*   ok      FALSE once a statement has failed.                            *)
(***************************************************************************)
EXTENDS UpdateLog

EmptyBuffer == [log |-> << >>, res |-> << >>, fresh |-> {}, cache |-> {}]

TypesOf(x, s) == x.buf.res[s].types          \* a sequence, in memory
HasType(x, s, c) == c \in Range(TypesOf(x, s))

Logged(x, es) == [x EXCEPT !.buf.log = AppendEntries(@, es)]
Notified(x, s) == [x EXCEPT !.events = @ \cup {s}]
Failed(x) == [x EXCEPT !.ok = FALSE]

-----------------------------------------------------------------------------
\* tracker_data_update_ensure_resource: the Resource row is inserted at once.
EnsureResource(x, u) ==
  IF u \in x.buf.cache THEN x
  ELSE [x EXCEPT !.db.uris = @ \cup {u},
                 !.buf.cache = @ \cup {u},
                 !.buf.fresh = IF u \in x.db.uris THEN @ ELSE @ \cup {u}]

\* Mutant: literals are given ids too.
EnsureObjectAlways(x, p, o) == EnsureResource(x, o)

\* A link's object is resolved to an id, a literal is a value of its own.
EnsureObject(x, p, o) == IF p \in Links THEN EnsureResource(x, o) ELSE x

\* The buffer of resources with one more.
Buffered(res, s, types) ==
  [u \in DOMAIN res \cup {s} |->
     IF u = s THEN [types |-> types, create |-> types = << >>, fts |-> FALSE] ELSE res[u]]

\* Mutant: the types of a resource that is not new are not read.
SwitchForgetsTypes(x, s) ==
  IF s \in DOMAIN x.buf.res THEN x
  ELSE [x EXCEPT !.buf.res = Buffered(@, s, << >>)]

\* resource_buffer_switch: the types come from the tables the first time the
\* resource is met since the last flush.
Switch(x, s) ==
  IF s \in DOMAIN x.buf.res THEN x
  ELSE LET stored == Among(ClassOrder, TypesIn(x.db, s))
           types  == IF s \in x.buf.fresh THEN << >> ELSE stored
       IN  [x EXCEPT !.buf.res = Buffered(@, s, types)]

\* maybe_update_fts
MarkFts(x, s, P) ==
  [x EXCEPT !.buf.res[s].fts = @ \/ P \cap FullText # {}]

-----------------------------------------------------------------------------
\* One class of cache_create_service_decomposed.
NewType(s, x, c) ==
  IF HasType(x, s, c) THEN x
  ELSE LET indexed == Among(PropOrder, {p \in Prop : c \in DomainIndexes[p]})
           entries ==
             << ClassInsert(s, c), Ref(s, 1),
                MultiInsert(s, RdfType, c), Ref(s, 1), Ref(c, 1) >>
             \o [i \in DOMAIN indexed |-> IndexCopy(s, indexed[i], c, "INSERT")]
           y == [x EXCEPT !.buf.res[s].types = Append(@, c)]
       IN  Notified(Logged(y, entries), s)

\* Mutant: the superclasses are forgotten.
CreateServiceLeafOnly(x, s, c) == NewType(s, x, c)

CreateService(x, s, c) ==
  FoldLeft(LAMBDA y, d : NewType(s, y, d), x, CreateOrder[c])

\* Mutant: the copies of the domain indexes are not written.
IndexCopiesNone(x, s, p, how) == << >>

\* insert_property_domain_indexes, delete_property_domain_indexes
IndexCopies(x, s, p, how) ==
  LET classes == Among(ClassOrder, {c \in DomainIndexes[p] : HasType(x, s, c)})
  IN  [i \in DOMAIN classes |-> IndexCopy(s, p, classes[i], how)]

\* One property of cache_insert_metadata_decomposed. The log drops a reference
\* to a value already stored before it adds one for the value inserted.
InsertValue(s, x, p, o, how) ==
  LET drops == IF x.buf.res[s].create \/ p \notin Links THEN << >>
               ELSE (IF p \in Multi THEN << RefDropSubject(s, p, o) >> ELSE << >>)
                    \o << RefDrop(s, p, o) >>
      value == IF p \in Multi THEN << MultiInsert(s, p, o) >>
                              ELSE << ClassUpdate(s, p, how, {o}) >>
      adds  == IF p \notin Links THEN << >>
               ELSE (IF p \in Multi THEN << Ref(s, 1) >> ELSE << >>) \o << Ref(o, 1) >>
      copies == IF p \in Multi THEN << >> ELSE IndexCopies(x, s, p, "INSERT")
  IN  Logged(x, drops \o value \o adds \o copies)

InsertMetadata(x, s, p, o, implicit) ==
  LET y == IF HasType(x, s, Domain[p]) THEN x
           ELSE IF implicit THEN CreateService(x, s, Domain[p]) ELSE Failed(x)
      z == MarkFts(y, s, PropsAbove(p))
  IN  IF ~y.ok THEN y
      ELSE FoldLeft(LAMBDA w, q :
                      InsertValue(s, w, q, o,
                                  IF q = p THEN "INSERT" ELSE "INSERT_FAILABLE"),
                    z, SupersFirst[p])

\* One property of delete_metadata_decomposed.
DeleteValue(s, x, p, o) ==
  LET drops == IF p \notin Links THEN << >>
               ELSE (IF p \in Multi THEN << RefDropSubject(s, p, o) >> ELSE << >>)
                    \o << RefDrop(s, p, o) >>
      value == IF p \in Multi THEN << MultiDelete(s, p, o) >>
                              ELSE << ClassUpdate(s, p, "DELETE", {o}) >>
      copies == IF p \in Multi THEN << >> ELSE IndexCopies(x, s, p, "DELETE")
  IN  Logged(x, drops \o value \o copies)

\* Mutant: the superproperties keep the value.
DeleteMetadataOnly(x, s, p, o) ==
  DeleteValue(s, MarkFts(x, s, PropsAbove(p)), p, o)

DeleteMetadata(x, s, p, o) ==
  FoldLeft(LAMBDA w, q : DeleteValue(s, w, q, o),
           MarkFts(x, s, PropsAbove(p)), SupersLast[p])

-----------------------------------------------------------------------------
(***************************************************************************)
(* cache_delete_resource_type_full.  Subclasses go before the class; the   *)
(* loop that finds them runs over the array of types it removes from.      *)
(* Result: the types left, and the classes removed in order. Every call    *)
(* but the last goes on to the next type or down to a subclass, so that    *)
(* calls nest no deeper than Nesting.                                      *)
(***************************************************************************)
\* g_ptr_array_remove of a class, which the array has once (BufferedTypesCurrent).
Without(types, c) == Among(types, Class \ {c})

\* The call for class c at position i, deeper[<<d, j, ts>>] being the calls it makes.
RemovalOf(c, i, types, deeper) ==
  IF i > Len(types)
  THEN [types |-> Without(types, c), gone |-> << c >>]
  ELSE IF c \in Range(SuperClasses[types[i]])
       THEN LET sub  == deeper[<<types[i], 1, types>>]
                rest == deeper[<<c, i + 1, sub.types>>]
            IN  [types |-> rest.types, gone |-> sub.gone \o rest.gone]
       ELSE deeper[<<c, i + 1, types>>]

Removal[n \in Nat] ==
  [call \in Class \X (Nat \ {0}) \X Seq(Class) |->
     IF n = 0 THEN [types |-> Without(call[3], call[1]), gone |-> << call[1] >>]
     ELSE RemovalOf(call[1], call[2], call[3], Removal[n - 1])]

Nesting(types) == Len(ClassOrder) * (Len(types) + 1)

TypeRemoval(types, c) ==
  IF c = Root THEN [types |-> << >>, gone |-> Reverse(types)]
  ELSE IF Contains(types, c) THEN Removal[Nesting(types)][<<c, 1, types>>]
  ELSE [types |-> types, gone |-> << >>]

\* log_entry_for_resource_property_clear_refcount, for both ends of a link.
ClearRefs(s, p) ==
  IF p \notin Links THEN << >>
  ELSE (IF p \in Multi THEN << RefClearSubject(s, p) >> ELSE << >>)
       \o << RefClear(s, p) >>

\* The entries that clear the properties props of s.
Cleared(x, s, props) ==
  LET clear(p) == ClearRefs(s, p)
                  \o (IF p \in Multi THEN << MultiClear(s, p) >>
                      ELSE IndexCopies(x, s, p, "DELETE"))
  IN  FoldLeft(LAMBDA es, p : es \o clear(p), << >>, props)

\* The entries that remove class c from s, its properties before its row.
DeleteService(s, x, c) ==
  LET own == Among(PropOrder, {p \in Prop : Domain[p] = c})
      y == MarkFts(x, s, Range(own))
      z == Logged(y, Cleared(x, s, own)
                     \o << Ref(c, -1), Ref(s, -1), MultiDelete(s, RdfType, c),
                           ClassDelete(s, c), Ref(s, -1) >>)
  IN  Notified([z EXCEPT !.buf.res[s].types = Without(@, c)], s)

DeleteType(x, s, c) ==
  FoldLeft(LAMBDA y, d : DeleteService(s, y, d), x, TypeRemoval(TypesOf(x, s), c).gone)

-----------------------------------------------------------------------------
\* delete_all_helper: p is cleared, its superproperties lose what p has.
DeleteAll(x, s, p) ==
  FoldLeft(LAMBDA y, q :
             Logged(y, ClearRefs(s, q) \o
               << IF q # p THEN PropagateDelete(s, p, q)
                  ELSE IF q \in Multi THEN MultiClear(s, q)
                  ELSE ClassUpdate(s, q, "RESET", {}) >>),
           x, SupersFirst[p])

\* delete_single_valued: multi-valued properties are cleared only above a
\* single-valued predicate.
DeleteSingleValued(x, s, p) ==
  FoldLeft(LAMBDA y, q :
             IF q \notin Multi
             THEN Logged(y, ClearRefs(s, q) \o << ClassUpdate(s, q, "RESET", {}) >>)
             ELSE IF p \notin Multi
             THEN Logged(y, ClearRefs(s, q) \o << MultiClear(s, q) >>)
             ELSE y,
           x, SupersLast[p])

\* Mutant: the fulltext content that is replaced stays in the index.
FlushKeepsOldText(db, buf) ==
  LET after == Replay(db, buf.log)
      new   == {s \in DOMAIN buf.res : buf.res[s].fts}
  IN  IF buf.log = << >> THEN db
      ELSE IF after = SqlError THEN SqlError
      ELSE [after EXCEPT !.fts = @ \cup UNION {FullTextValues(after, s) : s \in new}]

-----------------------------------------------------------------------------
(***************************************************************************)
(* tracker_data_update_buffer_flush.  Fulltext content of a buffered       *)
(* resource leaves the index before the log runs and enters it after.      *)
(***************************************************************************)
Flush(db, buf) ==
  LET marked(s) == buf.res[s].fts
      old   == {s \in DOMAIN buf.res : marked(s) /\ ~buf.res[s].create}
      new   == {s \in DOMAIN buf.res : marked(s)}
      cut   == [db EXCEPT !.fts = @ \ UNION {FullTextValues(db, s) : s \in old}]
      after == Replay(cut, buf.log)
  IN  IF buf.log = << >> THEN db
      ELSE IF after = SqlError THEN SqlError
      ELSE [after EXCEPT !.fts = @ \cup UNION {FullTextValues(after, s) : s \in new}]

\* The buffer after a flush: an empty log leaves everything as it was.
Flushed(buf) == IF buf.log = << >> THEN buf ELSE EmptyBuffer
=============================================================================
