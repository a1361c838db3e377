----------------------------- MODULE TripleStore ----------------------------
(***************************************************************************)
(* What the local store promises its callers, without tables, update log,  *)
(* buffers or reference counts: a set of triples that a transaction reads  *)
(* and writes, statement after statement, and that becomes visible at once *)
(* or not at all.  A statement that cannot be honoured may be noticed late *)
(* but never be committed.                                                 *)
(***************************************************************************)
EXTENDS TripleSemantics

CONSTANTS Statements, WithClear     \* whether updates contain CLEAR

VARIABLES triples,      \* what the transaction has written
          doomed,       \* whether it can only be aborted
          stable,       \* what readers see
          open          \* whether a transaction runs

storeVars == <<triples, doomed, stable, open>>

-----------------------------------------------------------------------------
Init == triples = {} /\ ~doomed /\ stable = {} /\ open = FALSE

Begin == ~open /\ open' = TRUE /\ UNCHANGED <<triples, doomed, stable>>

Abort == open' = FALSE /\ triples' = stable /\ ~doomed' /\ UNCHANGED stable

Apply(st) ==
  LET after == IF doomed THEN Doomed ELSE Result(triples, st)
  IN  /\ open
      /\ doomed \/ ~Refused(triples, st)
      /\ doomed' = (after = Doomed)
      /\ triples' = IF after = Doomed THEN {} ELSE after
      /\ UNCHANGED <<stable, open>>

Clear ==
  /\ WithClear /\ open
  /\ ~doomed
  /\ triples' = {}
  /\ UNCHANGED <<doomed, stable, open>>

Commit ==
  /\ open /\ ~doomed
  /\ stable' = triples
  /\ open' = FALSE
  /\ UNCHANGED <<triples, doomed>>

Next ==
  \/ Begin
  \/ Abort
  \/ Commit
  \/ Clear
  \/ \E st \in Statements : Apply(st)

Spec == Init /\ [][Next]_storeVars
=============================================================================
