-------------------------- MODULE TrackerDataStore --------------------------
(***************************************************************************)
(* TrackerData implements TripleStore: logging, buffering, coalescing and  *)
(* flushing never show.  The triples of the abstract store are those the   *)
(* tables will have once the pending log has been executed; the variable   *)
(* view records them, and constrains nothing.  The promise is made for the *)
(* updates without SILENT: with it the abstract store stays as it is.      *)
(***************************************************************************)
EXTENDS TrackerData

VARIABLE view

\* Only an entry of the log can fail.
View(d, b) ==
  LET s     == Flush(d, b)
      fails == b.log # << >> /\ s = SqlError
  IN  [doomed |-> fails, triples |-> IF fails THEN {} ELSE s.vals]

Store == INSTANCE TripleStore
           WITH Doomed <- SqlError, WithClear <- ClearGraph \in UNION Workloads,
                triples <- IF Loud THEN view.triples ELSE {},
                doomed <- Loud /\ view.doomed,
                stable <- IF Loud THEN committed.vals ELSE {},
                open <- Loud /\ inTx

ViewInit == Init /\ view = View(db, buf)
ViewNext == Next /\ view' = View(db', buf')
ViewSpec == ViewInit /\ [][ViewNext]_<<vars, view>>

\* A statement does what that statement does to the set of triples, and aborts
\* the transaction only if it must.
TakesEffect(st) ==
  Run(st) => \/ Store!Apply(st)
             \/ Store!Abort /\ (view.doomed \/ Store!Refused(view.triples, st))

StatementsTakeEffect ==
  [][Loud => \A st \in work \cap Statements : TakesEffect(st)]_<<vars, view>>

\* Every behaviour of the buffered, logged store is one of the plain set of
\* triples: each statement takes effect, its own, on what earlier statements of
\* the transaction left, a conflict is never committed, a rollback leaves nothing.
ImplementsTripleStore == Store!Spec /\ StatementsTakeEffect

-----------------------------------------------------------------------------
(***************************************************************************)
(* What the documentation says of single kinds of statements.              *)
(***************************************************************************)
\* An INSERT SILENT that fails is silenced; what the update did before it stays
\* (docs/reference/sparql-and-tracker.md).
SilentKeepsEarlierWork ==
  [][\A st \in work \cap Silent :
       RunSilent(st) /\ st.kind \in {"INSERT", "INSERT_TYPE"} /\ ~view.doomed
         => ~view'.doomed /\ view.triples \subseteq view'.triples]_<<vars, view>>
=============================================================================
