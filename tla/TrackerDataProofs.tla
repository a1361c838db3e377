-------------------------- MODULE TrackerDataProofs -------------------------
(***************************************************************************)
(* Theorems about the transactions of TrackerData, for any ontology, any   *)
(* statements and any size of the log.                                     *)
(***************************************************************************)
EXTENDS TrackerDataStore, TLAPS, FiniteSetTheorems, WellFoundedInduction

\* Outside transactions nothing is pending, and the writable connection sees what
\* readers see.
Quiet == ~inTx => db = committed /\ buf.log = << >>

LEMMA QuietInit == Init => Quiet
  BY DEF Init, Quiet, EmptyBuffer

\* What each kind of step does to the transaction. An error is an Undo.
LEMMA Steps ==
  ASSUME [Next]_vars
  PROVE  \/ Undo
         \/ inTx /\ inTx' /\ committed' = committed
         \/ ~inTx /\ inTx' /\ UNCHANGED <<db, committed, buf>>
         \/ Commit
         \/ Reopen
         \/ UNCHANGED vars
<1>1. CASE Begin
  BY <1>1 DEF Begin
<1>2. ASSUME NEW st \in work \cap Statements, Run(st)
      PROVE  Undo \/ (inTx /\ inTx' /\ committed' = committed)
  BY <1>2 DEF Run
<1>3. ASSUME NEW st \in work \cap Silent, RunSilent(st)
      PROVE  inTx /\ inTx' /\ committed' = committed
  BY <1>3 DEF RunSilent
<1>4. CASE EndGroup \/ Where
  BY <1>4 DEF EndGroup, Where, FlushOrUndo
<1>5. CASE Clear
  BY <1>5 DEF Clear
<1>6. CASE Rollback \/ Crash
  BY <1>6 DEF Rollback, Crash
<1>7. QED
  BY <1>1, <1>2, <1>3, <1>4, <1>5, <1>6 DEF Next

LEMMA QuietStep == Quiet /\ [Next]_vars => Quiet'
<1> SUFFICES ASSUME Quiet, [Next]_vars PROVE Quiet'
  OBVIOUS
<1>1. CASE Undo
  BY <1>1 DEF Undo, Quiet, EmptyBuffer
<1>2. CASE inTx'
  BY <1>2 DEF Quiet
<1>3. CASE Commit
  BY <1>1, <1>3 DEF Commit, Quiet, Flushed, EmptyBuffer
<1>4. CASE Reopen
  BY <1>4 DEF Reopen, Quiet, EmptyBuffer
<1>5. CASE UNCHANGED vars
  BY <1>5 DEF Quiet, vars
<1>6. QED
  BY <1>1, <1>2, <1>3, <1>4, <1>5, Steps

\* Nothing is pending and nothing is hidden outside transactions.
THEOREM QuietOutside == Spec => []Quiet
<1>1. QED
  BY QuietInit, QuietStep, PTL DEF Spec

-----------------------------------------------------------------------------
(***************************************************************************)
(* The transactions of TrackerData are those of TripleStore, if each of    *)
(* its statements is: this is all that depends on the ontology, on the log *)
(* and on the tables.                                                      *)
(***************************************************************************)
Recorded == Quiet /\ view = View(db, buf)

\* Without a log the view is what the tables hold.
LEMMA ViewWithoutLog ==
  ASSUME NEW d, NEW b, b.log = << >>
  PROVE  View(d, b) = [doomed |-> FALSE, triples |-> d.vals]
  BY DEF View, Flush

\* A flush that succeeds writes what is in the view, and leaves it.
LEMMA ViewAfterFlush ==
  ASSUME NEW d, NEW b, NEW f, f = Flush(d, b), f # SqlError
  PROVE  /\ View(d, b) = [doomed |-> FALSE, triples |-> f.vals]
         /\ View(f, Flushed(b)) = View(d, b)
<1>1. View(d, b) = [doomed |-> FALSE, triples |-> f.vals]
  BY DEF View
<1>2. Flushed(b).log = << >>
  BY DEF Flushed, EmptyBuffer
<1>3. QED
  BY <1>1, <1>2, ViewWithoutLog

LEMMA RecordedInit == ViewInit => Recorded
  BY QuietInit DEF ViewInit, Recorded

LEMMA RecordedStep == Recorded /\ [ViewNext]_<<vars, view>> => Recorded'
<1> SUFFICES ASSUME Recorded, [ViewNext]_<<vars, view>> PROVE Recorded'
  OBVIOUS
<1>1. Quiet'
  BY QuietStep DEF Recorded, ViewNext
<1>2. CASE ViewNext
  BY <1>1, <1>2 DEF ViewNext, Recorded
<1>3. CASE UNCHANGED <<vars, view>>
  BY <1>1, <1>3 DEF Recorded, vars
<1>4. QED
  BY <1>2, <1>3

\* An error, a rollback or a crash leaves what is committed.
LEMMA UndoAborts ==
  ASSUME Loud, Loud', Undo, view' = View(db', buf')
  PROVE  Store!Abort
<1>1. view' = [doomed |-> FALSE, triples |-> committed.vals]
  BY ViewWithoutLog DEF Undo, EmptyBuffer
<1>2. QED
  BY <1>1 DEF Undo, Store!Abort

\* A flush within the transaction does not show.
LEMMA FlushStutters ==
  ASSUME Loud, Loud', view = View(db, buf), view' = View(db', buf'), inTx, FlushOrUndo
  PROVE  [Store!Next]_Store!storeVars
<1> DEFINE f == Flush(db, buf)
<1>1. CASE f = SqlError
  BY <1>1, UndoAborts DEF FlushOrUndo, Store!Next
<1>2. CASE f # SqlError
  <2>1. db' = f /\ buf' = Flushed(buf) /\ UNCHANGED <<committed, inTx>>
    BY <1>2 DEF FlushOrUndo
  <2>2. View(f, Flushed(buf)) = View(db, buf)
    BY <1>2, ViewAfterFlush
  <2> HIDE DEF f
  <2>3. view' = view
    BY <2>1, <2>2
  <2>4. QED
    BY <2>1, <2>3 DEF Store!storeVars
<1>3. QED
  BY <1>1, <1>2

LEMMA ClearClears ==
  ASSUME Loud, Loud', work \in Workloads, view = View(db, buf), view' = View(db', buf'), Clear
  PROVE  [Store!Next]_Store!storeVars
<1> DEFINE f == Flush(db, buf)
<1>1. CASE f = SqlError
  BY <1>1, UndoAborts DEF Clear, Store!Next
<1>2. CASE f # SqlError
  <2>1. /\ ClearGraph \in UNION Workloads /\ inTx
        /\ db' = Emptied(f) /\ buf' = Flushed(buf) /\ UNCHANGED <<committed, inTx>>
    BY <1>2 DEF Clear
  <2>2. view = [doomed |-> FALSE, triples |-> f.vals]
    BY <1>2, ViewAfterFlush
  <2>3. view' = [doomed |-> FALSE, triples |-> {}]
    <3>1. buf'.log = << >> /\ db'.vals = {}
      BY <2>1 DEF Flushed, EmptyBuffer, Emptied
    <3>2. QED
      BY <3>1, ViewWithoutLog
  <2> HIDE DEF f
  <2>4. Store!Clear
    BY <2>1, <2>2, <2>3 DEF Store!Clear
  <2>5. QED
    BY <2>4 DEF Store!Next
<1>3. QED
  BY <1>1, <1>2

LEMMA CommitCommits ==
  ASSUME Loud, Loud', view = View(db, buf), view' = View(db', buf'), Commit
  PROVE  [Store!Next]_Store!storeVars
<1> DEFINE f == Flush(db, buf)
<1>1. CASE f = SqlError
  BY <1>1, UndoAborts DEF Commit, Store!Next
<1>2. CASE f # SqlError
  <2>1. inTx /\ db' = f /\ committed' = f /\ buf' = Flushed(buf) /\ ~inTx'
    BY <1>2 DEF Commit
  <2>2. view = [doomed |-> FALSE, triples |-> f.vals] /\ View(f, Flushed(buf)) = view
    BY <1>2, ViewAfterFlush
  <2> HIDE DEF f
  <2>3. Store!Commit
    BY <2>1, <2>2 DEF Store!Commit
  <2>4. QED
    BY <2>3 DEF Store!Next
<1>3. QED
  BY <1>1, <1>2

\* Each step of the buffered store is one of the abstract store, or none.
LEMMA StoreStep ==
  ASSUME Recorded, Recorded', work \in Workloads, [ViewNext]_<<vars, view>>,
         Loud => \A st \in work \cap Statements : TakesEffect(st)
  PROVE  [Store!Next]_Store!storeVars
<1>1. view = View(db, buf) /\ view' = View(db', buf')
  BY DEF Recorded
<1>2. work' = work /\ (Loud' <=> Loud)
  BY DEF ViewNext, Next, vars, Loud
<1>3. CASE ~Loud
  BY <1>2, <1>3 DEF Store!storeVars
<1>4. CASE Loud /\ Begin
  BY <1>1, <1>2, <1>4 DEF Begin, Store!Begin, Store!Next
<1>5. ASSUME Loud, NEW st \in work \cap Statements, Run(st)
      PROVE  [Store!Next]_Store!storeVars
  BY <1>5 DEF TakesEffect, Store!Next
<1>6. ASSUME Loud, NEW st \in work \cap Silent PROVE FALSE
  BY <1>6 DEF Loud
<1>7. CASE Loud /\ (EndGroup \/ Where)
  BY <1>1, <1>2, <1>7, FlushStutters DEF EndGroup, Where
<1>8. CASE Loud /\ Clear
  BY <1>1, <1>2, <1>8, ClearClears
<1>9. CASE Loud /\ Commit
  BY <1>1, <1>2, <1>9, CommitCommits
<1>10. CASE Loud /\ (Rollback \/ Crash)
  BY <1>1, <1>2, <1>10, UndoAborts DEF Rollback, Crash, Store!Next
<1>11. CASE Loud /\ Reopen
  <2>1. /\ ~inTx /\ db = committed /\ buf.log = << >> /\ buf'.log = << >>
        /\ db' = committed' /\ db'.vals = committed.vals /\ inTx' = inTx
    BY <1>11 DEF Reopen, Swept, EmptyBuffer, Recorded, Quiet
  <2>2. view' = view /\ committed'.vals = committed.vals
    BY <1>1, <2>1, ViewWithoutLog
  <2>3. QED
    BY <1>2, <2>1, <2>2 DEF Store!storeVars
<1>12. CASE UNCHANGED <<vars, view>>
  BY <1>2, <1>12 DEF vars, Store!storeVars
<1>13. QED
  BY <1>3, <1>4, <1>5, <1>6, <1>7, <1>8, <1>9, <1>10, <1>11, <1>12 DEF ViewNext, Next

\* The buffered, logged store refines the plain set of triples, for any ontology
\* and any statements, as soon as each single statement takes its effect on what
\* the pending log stands for: transactions, flushes wherever they fall, CLEAR,
\* failed commits, rollbacks, crashes and clean-ups add nothing to be shown.
THEOREM RefinesTripleStore == ViewSpec /\ StatementsTakeEffect => ImplementsTripleStore
<1>1. ViewInit => Store!Init
  <2> SUFFICES ASSUME ViewInit PROVE Store!Init
    OBVIOUS
  <2>1. view = View(db, buf) /\ db = EmptyDb /\ committed = EmptyDb /\ ~inTx /\ buf.log = << >>
    BY DEF ViewInit, Init, EmptyBuffer
  <2>2. view = [doomed |-> FALSE, triples |-> db.vals]
    BY <2>1, ViewWithoutLog
  <2>3. QED
    BY <2>1, <2>2 DEF Store!Init, EmptyDb
<1>2. ViewSpec => [](Recorded /\ work \in Workloads)
  <2>1. ViewInit => Recorded /\ work \in Workloads
    BY RecordedInit DEF ViewInit, Init
  <2>2. Recorded /\ work \in Workloads /\ [ViewNext]_<<vars, view>>
          => (Recorded /\ work \in Workloads)'
    BY RecordedStep DEF ViewNext, Next, vars
  <2>3. QED
    BY <2>1, <2>2, PTL DEF ViewSpec
<1>3. /\ Recorded /\ work \in Workloads /\ Recorded' /\ [ViewNext]_<<vars, view>>
      /\ [Loud => \A st \in work \cap Statements : TakesEffect(st)]_<<vars, view>>
      => [Store!Next]_Store!storeVars
  <2> SUFFICES ASSUME Recorded, work \in Workloads, Recorded', [ViewNext]_<<vars, view>>,
                      [Loud => \A st \in work \cap Statements : TakesEffect(st)]_<<vars, view>>
               PROVE  [Store!Next]_Store!storeVars
    OBVIOUS
  <2>1. CASE UNCHANGED <<vars, view>>
    BY <2>1 DEF vars, Loud, Store!storeVars
  <2>2. CASE Loud => \A st \in work \cap Statements : TakesEffect(st)
    BY <2>2, StoreStep
  <2>3. QED
    BY <2>1, <2>2
<1>4. QED
  BY <1>1, <1>2, <1>3, PTL DEF ViewSpec, StatementsTakeEffect, ImplementsTripleStore, Store!Spec

-----------------------------------------------------------------------------
(***************************************************************************)
(* The statements of an update are folds: over the classes a resource gets *)
(* with a class, over superproperties, over the entries of the log.  What  *)
(* a fold computes has no name in TLA+ but CHOOSE; that it stays in a set  *)
(* each of its steps stays in is shown once, for a function on the sets of *)
(* positions, and then for each fold that is an instance of it.            *)
(***************************************************************************)
\* Induction on the natural numbers, over a set.
LEMMA Induction ==
  ASSUME NEW T, 0 \in T, \A n \in T \cap Nat : n + 1 \in T
  PROVE  Nat \subseteq T
<1> DEFINE R == OpToRel(<, Nat)
<1> DEFINE M == Nat \ T
<1>1. IsWellFoundedOn(R, Nat)
  BY NatLessThanWellFounded
<1>2. SUFFICES ASSUME M # {} PROVE FALSE
  OBVIOUS
<1>3. PICK x \in M : \A y \in M : ~(<<y, x>> \in R)
  BY <1>1, <1>2, WFMin
<1>4. \A y \in M : ~(y < x)
  BY <1>3 DEF OpToRel
<1>5. x - 1 \in Nat /\ x - 1 \notin M
  BY <1>4
<1>6. x - 1 \in T \cap Nat /\ (x - 1) + 1 = x
  BY <1>5
<1>7. QED
  BY <1>6

\* Max of a set with a greatest element.
LEMMA GreatestOf ==
  ASSUME NEW S, NEW m \in S, S \subseteq Int, \A x \in S : x <= m
  PROVE  Max(S) = m
<1>1. \A x \in S : (\A y \in S : x >= y) => x = m
  OBVIOUS
<1>2. \A y \in S : m >= y
  OBVIOUS
<1>3. QED
  BY <1>1, <1>2 DEF Max

\* Max of a set of positions is its greatest element.
LEMMA GreatestIn ==
  ASSUME NEW n \in Nat, NEW s \in SUBSET (1..n), s # {}
  PROVE  Max(s) \in s /\ \A x \in s : x <= Max(s)
<1> DEFINE T == {m \in Nat : m \in 0..n => \A t \in SUBSET (1..m) : t # {} =>
                          Max(t) \in t /\ \A x \in t : x <= Max(t)}
<1>1. 0 \in T
  <2>1. 1..0 = {}
    OBVIOUS
  <2>2. QED
    BY <2>1
<1>2. ASSUME NEW m \in T \cap Nat PROVE m + 1 \in T
  <2>1. SUFFICES ASSUME m + 1 \in 0..n, NEW t \in SUBSET (1..(m + 1)), t # {}
                 PROVE  Max(t) \in t /\ \A x \in t : x <= Max(t)
    OBVIOUS
  <2>2. CASE m + 1 \in t
    <3>1. t \subseteq Int /\ \A x \in t : x <= m + 1
      OBVIOUS
    <3>2. Max(t) = m + 1
      BY <2>2, <3>1, GreatestOf
    <3>3. QED
      BY <2>2, <3>1, <3>2
  <2>3. CASE m + 1 \notin t
    <3>1. t \in SUBSET (1..m)
      BY <2>3
    <3>2. QED
      BY <2>1, <3>1
  <2>4. QED
    BY <2>2, <2>3
<1>3. Nat \subseteq T
  <2> HIDE DEF T
  <2>1. QED
    BY <1>1, <1>2, Induction
<1>4. QED
  BY <1>3

\* How a fold over a sequence with the positions P is computed: F[<<k, x>>] is what x
\* becomes with the element at k; it maps sets of positions to results.
Stays(F, P, S) == \A k \in P, x \in S : F[<<k, x>>] \in S
Folds(it, base, F, P) ==
  \A s \in SUBSET P : it[s] = IF s = {} THEN base ELSE F[<<Max(s), it[s \ {Max(s)}]>>]
FoldsIn(it, base, F, P, S) ==
  \A s \in SUBSET P :
    IF s = {} THEN it[s] = base
    ELSE it[s \ {Max(s)}] \in S => it[s] = F[<<Max(s), it[s \ {Max(s)}]>>]

\* A fold over n positions is a function, if F stays in S.
LEMMA FoldsExist ==
  ASSUME NEW S, NEW base \in S, NEW F, NEW n \in Nat, Stays(F, 1..n, S)
  PROVE  \E it \in [SUBSET (1..n) -> S] : Folds(it, base, F, 1..n)
<1> USE DEF Stays, Folds
<1> DEFINE Fold(m, it) == \A s \in SUBSET (1..m) :
                            it[s] = IF s = {} THEN base ELSE F[<<Max(s), it[s \ {Max(s)}]>>]
<1> DEFINE Has(m) == \E it \in [SUBSET (1..m) -> S] : Fold(m, it)
<1> DEFINE T == {m \in Nat : m <= n => Has(m)}
<1>1. 0 \in T
  <2>1. 1..0 = {} /\ SUBSET (1..0) = {{}}
    <3>1. 1..0 = {}
      OBVIOUS
    <3>2. QED
      BY <3>1
  <2>2. [s \in SUBSET (1..0) |-> base] \in [SUBSET (1..0) -> S]
    OBVIOUS
  <2>3. Fold(0, [s \in SUBSET (1..0) |-> base])
    BY <2>1
  <2>4. QED
    BY <2>2, <2>3
<1>2. ASSUME NEW m \in T \cap Nat PROVE m + 1 \in T
  <2>1. SUFFICES ASSUME m + 1 <= n PROVE Has(m + 1)
    <3> HIDE DEF Has
    <3>1. QED
      OBVIOUS
  <2>2. PICK f \in [SUBSET (1..m) -> S] : Fold(m, f)
    <3> HIDE DEF Has
    <3>1. Has(m)
      BY <2>1
    <3>2. QED
      BY <3>1 DEF Has
  <2> DEFINE g == [s \in SUBSET (1..(m + 1)) |->
                     IF m + 1 \in s THEN F[<<m + 1, f[s \ {m + 1}]>>] ELSE f[s]]
  <2>3. ASSUME NEW s \in SUBSET (1..(m + 1)), m + 1 \in s
        PROVE  /\ Max(s) = m + 1 /\ s \ {m + 1} \in SUBSET (1..m)
               /\ g[s] = F[<<m + 1, f[s \ {m + 1}]>>] /\ g[s \ {m + 1}] = f[s \ {m + 1}]
    <3>1. s \subseteq Int /\ \A x \in s : x <= m + 1
      OBVIOUS
    <3> HIDE DEF g
    <3>3. Max(s) = m + 1
      BY <2>3, <3>1, GreatestOf
    <3>2. s \ {m + 1} \in SUBSET (1..m) /\ s \ {m + 1} \in SUBSET (1..(m + 1))
      OBVIOUS
    <3> USE DEF g
    <3>4. QED
      BY <2>3, <3>3, <3>2
  <2>4. ASSUME NEW s \in SUBSET (1..(m + 1)), m + 1 \notin s
        PROVE  /\ s \in SUBSET (1..m) /\ g[s] = f[s]
               /\ s \ {Max(s)} \in SUBSET (1..m) /\ g[s \ {Max(s)}] = f[s \ {Max(s)}]
    <3>1. s \in SUBSET (1..m)
      BY <2>4
    <3>2. s \ {Max(s)} \in SUBSET (1..m) /\ s \ {Max(s)} \in SUBSET (1..(m + 1))
          /\ m + 1 \notin s \ {Max(s)}
      BY <2>4, <3>1
    <3>3. QED
      BY <2>4, <3>1, <3>2
  <2>5. g \in [SUBSET (1..(m + 1)) -> S]
    <3>1. ASSUME NEW s \in SUBSET (1..(m + 1)) PROVE g[s] \in S
      <4>1. CASE m + 1 \in s
        BY <2>1, <2>2, <2>3, <4>1
      <4>2. CASE m + 1 \notin s
        BY <2>2, <2>4, <4>2
      <4>3. QED
        BY <4>1, <4>2
    <3>2. QED
      BY <3>1
  <2>6. Fold(m + 1, g)
    <3>1. ASSUME NEW s \in SUBSET (1..(m + 1))
          PROVE  g[s] = IF s = {} THEN base ELSE F[<<Max(s), g[s \ {Max(s)}]>>]
      <4> HIDE DEF g
      <4>1. CASE m + 1 \in s
        BY <2>3, <4>1
      <4>2. CASE m + 1 \notin s
        BY <2>2, <2>4, <4>2
      <4>3. QED
        BY <4>1, <4>2
    <3>2. QED
      BY <3>1
  <2>7. QED
    BY <2>5, <2>6
<1>3. QED
  <2> HIDE DEF Has
  <2>1. Nat \subseteq T
    <3> HIDE DEF T
    <3>1. QED
      BY <1>1, <1>2, Induction
  <2>2. Has(n)
    BY <2>1
  <2>3. QED
    BY <2>2 DEF Has

\* What any such fold computes is in S: It is whatever CHOOSE picked as the fold.
LEMMA FoldsStay ==
  ASSUME NEW S, NEW base \in S, NEW F, NEW P, NEW It, \E n \in Nat : P = 1..n, Stays(F, P, S),
         \A it \in [SUBSET P -> S] : Folds(it, base, F, P) => FoldsIn(It, base, F, P, S)
  PROVE  It[P] \in S
<1>0. PICK n \in Nat : P = 1..n
  OBVIOUS
<1>1. FoldsIn(It, base, F, 1..n, S) /\ Stays(F, 1..n, S)
  BY <1>0, FoldsExist
<1> DEFINE T == {m \in Nat : m <= n => It[1..m] \in S}
<1>2. 0 \in T
  <2>1. 1..0 = {} /\ 1..0 \in SUBSET (1..n)
    OBVIOUS
  <2>2. It[1..0] = base
    BY <1>1, <2>1 DEF FoldsIn
  <2>3. QED
    BY <2>2
<1>3. ASSUME NEW m \in T \cap Nat PROVE m + 1 \in T
  <2>1. SUFFICES ASSUME m + 1 <= n PROVE It[1..(m + 1)] \in S
    OBVIOUS
  <2>2. Max(1..(m + 1)) = m + 1
    <3>1. m + 1 \in 1..(m + 1) /\ 1..(m + 1) \subseteq Int /\ \A x \in 1..(m + 1) : x <= m + 1
      OBVIOUS
    <3>2. QED
      BY <3>1, GreatestOf
  <2>3. (1..(m + 1)) \ {m + 1} = 1..m /\ 1..(m + 1) \in SUBSET (1..n) /\ 1..(m + 1) # {}
    <3>1. m + 1 \in 1..(m + 1)
      OBVIOUS
    <3>2. \A k : k \in (1..(m + 1)) \ {m + 1} <=> k \in 1..m
      OBVIOUS
    <3>3. \A k \in 1..(m + 1) : k \in 1..n
      BY <2>1
    <3>4. QED
      BY <3>1, <3>2, <3>3
  <2>4. It[1..m] \in S
    BY <2>1
  <2>5. It[1..(m + 1)] = F[<<m + 1, It[1..m]>>]
    BY <1>1, <2>2, <2>3, <2>4 DEF FoldsIn
  <2>6. QED
    BY <1>1, <2>1, <2>4, <2>5 DEF Stays
<1>4. Nat \subseteq T
  <2> HIDE DEF T
  <2>1. QED
    BY <1>2, <1>3, Induction
<1>5. QED
  BY <1>0, <1>4

\* The positions of a sequence, and how a fold takes them apart.
LEMMA Positions ==
  ASSUME NEW S, NEW seq \in Seq(S)
  PROVE  /\ \E n \in Nat : DOMAIN seq = 1..n
         /\ \A k \in DOMAIN seq : seq[k] \in S
         /\ \A s \in SUBSET DOMAIN seq :
              s # {} => Max(s) \in DOMAIN seq /\ s \ {Max(s)} \in SUBSET DOMAIN seq
<1>1. Len(seq) \in Nat /\ DOMAIN seq = 1..Len(seq) /\ \A k \in DOMAIN seq : seq[k] \in S
  OBVIOUS
<1>2. QED
  BY <1>1, GreatestIn

\* Replaying entries that each keep a database in D does.
LEMMA ReplayStays ==
  ASSUME NEW D,
         NEW E,
         NEW d \in D,
         NEW log \in Seq(E),
         \A x \in D, e \in E : Execute(x, e) \in D
  PROVE  Replay(d, log) \in D
<1>0. log \in Seq(E)
  OBVIOUS
<1> DEFINE P == DOMAIN log
           Do(x, elt) == Execute(x, elt)
           F == [a \in P \X D |-> Do(a[2], log[a[1]])]
           Step(f) == [z \in SUBSET P |->
             IF z = {} THEN d ELSE Do(f[z \ {Max(z)}], log[Max(z)])]
           It == CHOOSE f : f = Step(f)
<1>1. Replay(d, log) = It[P]
  BY DEF Replay, FoldLeft, MapThenFoldSet
<1>2. /\ \A k \in P : log[k] \in E
      /\ \A z \in SUBSET P : z # {} => Max(z) \in P /\ z \ {Max(z)} \in SUBSET P
  BY ONLY <1>0, Positions
<1>3. \E n \in Nat : P = 1..n
  BY ONLY <1>0, Positions
<1> HIDE DEF P
<1>4. \A k \in P, x \in D :
        F[<<k, x>>] = Do(x, log[k]) /\ F[<<k, x>>] \in D
  BY <1>2
<1> HIDE DEF F, Do
<1>5. Stays(F, P, D)
  BY <1>4 DEF Stays
<1>6. ASSUME NEW it \in [SUBSET P -> D], Folds(it, d, F, P)
      PROVE  FoldsIn(It, d, F, P, D)
  <2>1. it = Step(it)
    BY <1>2, <1>4, <1>6 DEF Folds
  <2>2. It = Step(It)
    BY <2>1
  <2> HIDE DEF It
  <2>3. QED
    BY <1>2, <1>4, <2>2 DEF FoldsIn
<1> HIDE DEF It
<1>7. It[P] \in D
  BY ONLY <1>3, <1>5, <1>6, d \in D, FoldsStay
<1>8. QED
  BY <1>1, <1>7

-----------------------------------------------------------------------------
(***************************************************************************)
(* The log: each entry names resources of a set U, properties, and values  *)
(* of their ranges, and appending to the log keeps that.                   *)
(***************************************************************************)
\* The elements selected from a sequence are of its type.
LEMMA AmongStays ==
  ASSUME NEW S,
         NEW seq \in Seq(S),
         NEW T
  PROVE  Among(seq, T) \in Seq(S)
<1> DEFINE n == Len(seq)
           Val(f, i) == IF i = 0 THEN << >>
                        ELSE IF seq[i] \in T THEN Append(f[i - 1], seq[i]) ELSE f[i - 1]
           Step(f) == [i \in 0..n |-> Val(f, i)]
           Chain(m) == \E f \in [0..m -> Seq(S)] : \A i \in 0..m : f[i] = Val(f, i)
           It == CHOOSE f : f = Step(f)
           Upto == {m \in Nat : m <= n => Chain(m)}
           Reached == {m \in Nat : m <= n => It[m] \in Seq(S)}
<1>1. Among(seq, T) = It[n]
  BY DEF Among
<1>2. n \in Nat /\ \A i \in 1..n : seq[i] \in S
  OBVIOUS
<1> HIDE DEF n
<1>3. Chain(0)
  <2>1. [i \in 0..0 |-> << >>] \in [0..0 -> Seq(S)]
    OBVIOUS
  <2>2. \A i \in 0..0 : [j \in 0..0 |-> << >>][i] = Val([j \in 0..0 |-> << >>], i)
    OBVIOUS
  <2>3. QED
    BY <2>1, <2>2
<1>4. ASSUME NEW m \in Nat, m + 1 <= n, Chain(m) PROVE Chain(m + 1)
  <2>2. PICK f \in [0..m -> Seq(S)] : \A i \in 0..m : f[i] = Val(f, i)
    BY <1>4
  <2> DEFINE last == IF seq[m + 1] \in T THEN Append(f[m], seq[m + 1]) ELSE f[m]
             g == [i \in 0..(m + 1) |-> IF i = m + 1 THEN last ELSE f[i]]
  <2>3. last \in Seq(S)
    BY <1>2, <1>4
  <2> HIDE DEF last
  <2>4. g \in [0..(m + 1) -> Seq(S)] /\ g[m + 1] = last /\ \A i \in 0..m : g[i] = f[i]
    BY <2>3
  <2> HIDE DEF g
  <2>5. g[m + 1] = Val(g, m + 1)
    BY <2>4 DEF last
  <2>6. ASSUME NEW i \in 0..m PROVE g[i] = Val(g, i)
    <3>1. i # 0 => i - 1 \in 0..m
      OBVIOUS
    <3>2. QED
      BY <2>2, <2>4, <3>1
  <2> HIDE DEF Val
  <2>7. \A i \in 0..(m + 1) : i \in 0..m \/ i = m + 1
    BY <1>4
  <2>8. \A i \in 0..(m + 1) : g[i] = Val(g, i)
    BY <2>5, <2>6, <2>7
  <2>9. QED
    BY <2>4, <2>8
<1> HIDE DEF Chain
<1>5. Chain(n)
  <2>1. 0 \in Upto /\ \A m \in Upto \cap Nat : m + 1 \in Upto
    BY <1>2, <1>3, <1>4
  <2> HIDE DEF Upto
  <2>2. Nat \subseteq Upto
    BY <2>1, Induction
  <2> USE DEF Upto
  <2>3. QED
    BY <1>2, <2>2
<1>6. It = Step(It)
  <2>1. PICK f \in [0..n -> Seq(S)] : \A i \in 0..n : f[i] = Val(f, i)
    BY <1>5 DEF Chain
  <2>2. f = Step(f)
    BY <2>1
  <2>3. QED
    BY <2>2
<1> HIDE DEF It
<1>7. \A i \in 0..n : It[i] = Val(It, i)
  BY <1>6
<1>8. 0 \in Reached
  <2>1. It[0] = << >>
    BY <1>2, <1>7
  <2>2. It[0] \in Seq(S)
    BY <2>1
  <2>3. QED
    BY <2>2
<1>9. ASSUME NEW m \in Reached \cap Nat PROVE m + 1 \in Reached
  <2>1. SUFFICES ASSUME m + 1 <= n PROVE It[m + 1] \in Seq(S)
    OBVIOUS
  <2>2. m + 1 \in 0..n /\ m + 1 \in 1..n /\ m + 1 # 0 /\ (m + 1) - 1 = m
    BY <1>2, <2>1
  <2>3. It[m] \in Seq(S) /\ seq[m + 1] \in S
    BY <1>2, <2>1, <2>2
  <2>4. It[m + 1] = IF seq[m + 1] \in T THEN Append(It[m], seq[m + 1]) ELSE It[m]
    BY <1>7, <2>2
  <2>5. QED
    BY <2>3, <2>4
<1>10. QED
  <2> HIDE DEF Reached
  <2>1. Nat \subseteq Reached
    BY <1>8, <1>9, Induction
  <2> USE DEF Reached
  <2>2. QED
    BY <1>1, <1>2, <2>1

\* The kinds of changes SparqlUpdateValue knows.
Hows == {"INSERT", "INSERT_FAILABLE", "DELETE", "RESET"}
\* What a property may have as value, if only the resources of U may be named.
ValueIn(U, p) == IF p = RdfType THEN Class ELSE IF p \in Links THEN U ELSE Literal
\* The values a table may hold.
Triples(U) == {t \in U \X (Prop \cup {RdfType}) \X Object : t[3] \in ValueIn(U, t[2])}

\* What a column may hold.
Singles(U, p) == {X \in SUBSET ValueIn(U, p) : X # {} => \E o \in ValueIn(U, p) : X = {o}}
Columns(U) ==
  {c \in [prop : Prop \ Multi, how : Hows, new : SUBSET Object] :
     c.new \in Singles(U, c.prop)}

\* The entries of the log.
Entries(U) ==
  [op : {"CLASS_INSERT", "CLASS_UPDATE"}, id : U, class : Class, cols : Seq(Columns(U))]
  \cup [op : {"CLASS_DELETE"}, id : U, class : Class]
  \cup {e \in [op : {"MULTI_INSERT"}, id : U, prop : Multi \cup {RdfType}, obj : Object] :
          e.obj \in ValueIn(U, e.prop)}
  \cup [op : {"MULTI_DELETE"}, id : U, prop : Prop \cup {RdfType}, obj : Object]
  \cup [op : {"MULTI_CLEAR"}, id : U, prop : Prop]
  \cup [op : {"REF"}, id : Node, n : Int]
  \cup [op : {"REF_CLEAR", "REF_CLEAR_SUBJECT"}, id : U, prop : Links]
  \cup [op : {"REF_DROP", "REF_DROP_SUBJECT"}, id : U, prop : Links, obj : Object]
  \cup [op : {"PROPAGATE_DELETE"}, id : U, prop : Prop, dest : Prop]
  \cup [op : {"INDEX_COPY"}, id : U, prop : Prop, class : Class, how : Hows]

\* The entry found for a row is one that inserts or updates it.
LEMMA RowEntryIn ==
  ASSUME NEW U \in SUBSET Uri, NEW log \in Seq(Entries(U)), NEW s, NEW c,
         RowEntry(log, s, c) # 0
  PROVE  /\ RowEntry(log, s, c) \in DOMAIN log
         /\ log[RowEntry(log, s, c)].op \in {"CLASS_INSERT", "CLASS_UPDATE"}
<1> DEFINE R == {i \in DOMAIN log :
                  /\ log[i].op \in {"CLASS_INSERT", "CLASS_UPDATE", "CLASS_DELETE"}
                  /\ log[i].id = s /\ log[i].class = c}
<1>1. Max(R \cup {0}) \in R \cup {0}
  <2>1. PICK n \in Nat : DOMAIN log = 1..n
    BY Positions
  <2>2. CASE R = {}
    <3>1. R \cup {0} = {0}
      BY <2>2
    <3>2. 0 \in {0} /\ {0} \subseteq Int /\ \A x \in {0} : x <= 0
      OBVIOUS
    <3> QED
      BY <3>1, <3>2, GreatestOf
  <2>3. CASE R # {}
    <3>1. R \in SUBSET (1..n)
      BY <2>1
    <3> HIDE DEF R
    <3>2. Max(R) \in R
      BY <2>3, <3>1, GreatestIn
    <3>3. \A x \in R : x <= Max(R)
      BY <2>3, <3>1, GreatestIn
    <3>4. Max(R \cup {0}) = Max(R)
      <4> DEFINE m == Max(R)
      <4> HIDE DEF m
      <4>3. R \subseteq Nat
        BY <3>1
      <4>4. m \in R
        BY <3>2 DEF m
      <4>5. \A x \in R : x <= m
        BY <3>3 DEF m
      <4>0. R \subseteq Int /\ m \in Nat /\ \A x \in R : x <= m
        BY <4>3, <4>4, <4>5
      <4>1. R \cup {0} \subseteq Int /\ \A x \in R \cup {0} : x <= Max(R)
        BY <4>0 DEF m
      <4>2. Max(R) \in R \cup {0}
        BY <3>2
      <4>6. QED
        BY <4>1, <4>2, GreatestOf
    <3>5. QED
      BY <3>2, <3>4
  <2>4. QED
    BY <2>2, <2>3
<1>2. QED
  BY <1>1 DEF RowEntry

\* Coalescing a reference count into the log leaves a log.
LEMMA AppendRefStays ==
  ASSUME NEW U \in SUBSET Uri, NEW log \in Seq(Entries(U)), NEW e \in Entries(U), e.op = "REF"
  PROVE  AppendRef(log, e) \in Seq(Entries(U))
<1>1. \A i \in DOMAIN log : log[i].op = "REF" => [log[i] EXCEPT !.n = @ + e.n] \in Entries(U)
  BY DEF Entries
<1>2. QED
  <2>1. Append(log, e) \in Seq(Entries(U))
    OBVIOUS
  <2>2. [i \in DOMAIN log |->
          IF log[i].op = "REF" /\ log[i].id = e.id
          THEN [log[i] EXCEPT !.n = @ + e.n] ELSE log[i]] \in Seq(Entries(U))
    BY <1>1
  <2>3. QED
    BY <2>1, <2>2 DEF AppendRef

\* So does merging a column into a pending row.
LEMMA AppendColumnStays ==
  ASSUME NEW U \in SUBSET Uri, NEW log \in Seq(Entries(U)), NEW e \in Entries(U),
         e.op = "CLASS_UPDATE"
  PROVE  AppendColumn(log, e) \in Seq(Entries(U))
<1> DEFINE i == RowEntry(log, e.id, e.class)
<1>1. CASE i = 0
  BY <1>1 DEF AppendColumn
<1>2. CASE i # 0
  <2>1. i \in DOMAIN log /\ log[i].op \in {"CLASS_INSERT", "CLASS_UPDATE"}
    BY <1>2, RowEntryIn
  <2> HIDE DEF i
  <2>2. [log[i] EXCEPT !.cols = @ \o e.cols] \in Entries(U)
    <3> DEFINE Rows == [op : {"CLASS_INSERT", "CLASS_UPDATE"}, id : U, class : Class,
                        cols : Seq(Columns(U))]
    <3>1. log[i] \in Rows /\ e \in Rows
      BY <2>1 DEF Entries
    <3>2. log[i].cols \o e.cols \in Seq(Columns(U))
      BY <3>1
    <3>3. [log[i] EXCEPT !.cols = log[i].cols \o e.cols] \in Rows
      BY <3>1, <3>2
    <3>4. QED
      BY <3>3 DEF Entries
  <2>3. [log EXCEPT ![i].cols = @ \o e.cols] \in Seq(Entries(U))
    BY <2>1, <2>2
  <2>4. QED
    BY <2>3 DEF AppendColumn, i
<1>3. QED
  BY <1>1, <1>2

\* So does appending any entry,
LEMMA AppendEntryStays ==
  ASSUME NEW U \in SUBSET Uri, NEW log \in Seq(Entries(U)), NEW e \in Entries(U)
  PROVE  AppendEntry(log, e) \in Seq(Entries(U))
  BY AppendRefStays, AppendColumnStays DEF AppendEntry, AppendClass

\* and appending several.
LEMMA AppendEntriesStay ==
  ASSUME NEW U \in SUBSET Uri,
         NEW log \in Seq(Entries(U)),
         NEW es \in Seq(Entries(U))
  PROVE  AppendEntries(log, es) \in Seq(Entries(U))
<1>0. es \in Seq(Entries(U))
  OBVIOUS
<1> DEFINE P == DOMAIN es
           Do(x, elt) == AppendEntry(x, elt)
           F == [a \in P \X Seq(Entries(U)) |-> Do(a[2], es[a[1]])]
           Step(f) == [z \in SUBSET P |->
             IF z = {} THEN log ELSE Do(f[z \ {Max(z)}], es[Max(z)])]
           It == CHOOSE f : f = Step(f)
<1>1. AppendEntries(log, es) = It[P]
  BY DEF AppendEntries, FoldLeft, MapThenFoldSet
<1>2. /\ \A k \in P : es[k] \in Entries(U)
      /\ \A z \in SUBSET P : z # {} => Max(z) \in P /\ z \ {Max(z)} \in SUBSET P
  BY ONLY <1>0, Positions
<1>3. \E n \in Nat : P = 1..n
  BY ONLY <1>0, Positions
<1> HIDE DEF P
<1>4. \A k \in P, x \in Seq(Entries(U)) :
        F[<<k, x>>] = Do(x, es[k]) /\ F[<<k, x>>] \in Seq(Entries(U))
  BY <1>2, AppendEntryStays
<1> HIDE DEF F, Do
<1>5. Stays(F, P, Seq(Entries(U)))
  BY <1>4 DEF Stays
<1>6. ASSUME NEW it \in [SUBSET P -> Seq(Entries(U))], Folds(it, log, F, P)
      PROVE  FoldsIn(It, log, F, P, Seq(Entries(U)))
  <2>1. it = Step(it)
    BY <1>2, <1>4, <1>6 DEF Folds
  <2>2. It = Step(It)
    BY <2>1
  <2> HIDE DEF It
  <2>3. QED
    BY <1>2, <1>4, <2>2 DEF FoldsIn
<1> HIDE DEF It
<1>7. It[P] \in Seq(Entries(U))
  BY ONLY <1>3, <1>5, <1>6, log \in Seq(Entries(U)), FoldsStay
<1>8. QED
  BY <1>1, <1>7

-----------------------------------------------------------------------------
(***************************************************************************)
(* The tables, with R the rows of the Resource table: ids of U and values  *)
(* of the right ranges, and one value of a single-valued property.         *)
(***************************************************************************)
\* A single-valued property has one value.
SingleValues(V) ==
  \A t, u \in V : t[1] = u[1] /\ t[2] = u[2] /\ t[2] \in Prop \ Multi => t = u
\* What the tables may hold together.
Tables(U) == {V \in SUBSET Triples(U) : IsFiniteSet(V) /\ SingleValues(V)}
\* The Refcount table.
Counts == UNION {[N -> Int] : N \in SUBSET Node}
\* The databases with the Resource rows R.
Dbs(R, U) ==
  [uris : {R}, rows : SUBSET (Uri \X Class), vals : Tables(U),
   copies : SUBSET (Uri \X Class \X Prop \X Object), refs : Counts, fts : SUBSET Triples(Uri)]

\* The values read of a property are of its range, and finitely many; at most one of a
\* single-valued property.
LEMMA ValuesIn ==
  ASSUME NEW U \in SUBSET Uri, NEW d, d.vals \in Tables(U), NEW s \in Uri,
         NEW p \in Prop \cup {RdfType}
  PROVE  /\ ValuesOf(d, s, p) \subseteq ValueIn(U, p)
         /\ IsFiniteSet(ValuesOf(d, s, p))
         /\ p \in Prop \ Multi => ValuesOf(d, s, p) \in Singles(U, p)
<1> DEFINE f == [t \in d.vals |-> t[3]]
           I == {t[3] : t \in d.vals}
           O == ValuesOf(d, s, p)
<1>1. O \subseteq ValueIn(U, p)
  BY DEF ValuesOf, Tables, Triples
<1>2. IsFiniteSet(O)
  <2>1. f \in Surjection(d.vals, I)
    BY DEF Surjection
  <2>2. IsFiniteSet(I)
    BY <2>1, FS_Surjection DEF Tables
  <2>3. O \in SUBSET I
    BY DEF ValuesOf
  <2>4. QED
    BY <2>2, <2>3, FS_Subset
<1>3. ASSUME p \in Prop \ Multi, O # {} PROVE \E o \in ValueIn(U, p) : O = {o}
  <2>1. PICK o : o \in O
    BY <1>3
  <2>2. \A q \in O : q = o
    BY <1>3, <2>1 DEF ValuesOf, Tables, SingleValues
  <2>3. QED
    BY <1>1, <2>1, <2>2
<1>4. QED
  BY <1>1, <1>2, <1>3 DEF Singles

\* The Refcount table stays a table under UPDATE and INSERT ON CONFLICT.
LEMMA CountsStay ==
  ASSUME NEW refs \in Counts, NEW X \in SUBSET Node, NEW n \in Int
  PROVE  BumpRefs(refs, X, n) \in Counts /\ UpsertRefs(refs, X, n) \in Counts
<1> DEFINE bumped == BumpRefs(refs, X, n)
           N == DOMAIN refs \ {x \in X \cap DOMAIN refs : refs[x] + n = 0}
<1>1. N \in SUBSET Node /\ refs \in [DOMAIN refs -> Int]
  BY DEF Counts
<1>2. bumped \in [N -> Int]
  BY <1>1 DEF BumpRefs, UpdateRefs
<1> HIDE DEF bumped, N
<1>3. UpsertRefs(refs, X, n) \in [(X \ DOMAIN refs) \cup N -> Int]
  <2>1. DOMAIN bumped = N
    BY <1>2
  <2>2. \A x \in N : bumped[x] \in Int
    BY <1>2
  <2>3. QED
    BY <2>1, <2>2 DEF UpsertRefs, bumped
<1>4. bumped \in Counts
  BY <1>1, <1>2 DEF Counts
<1>5. UpsertRefs(refs, X, n) \in Counts
  BY <1>1, <1>3 DEF Counts
<1>6. QED
  BY <1>4, <1>5 DEF bumped

\* Fewer values are values,
LEMMA TablesShrink ==
  ASSUME NEW U, NEW V \in Tables(U), NEW W \in SUBSET V
  PROVE  W \in Tables(U)
  BY FS_Subset DEF Tables, SingleValues

\* and so is one more, unless it is a second one of a single-valued property.
LEMMA TablesGrow ==
  ASSUME NEW U, NEW V \in Tables(U), NEW t \in Triples(U),
         t[2] \in Prop \ Multi => \A u \in V : u[1] # t[1] \/ u[2] # t[2]
  PROVE  V \cup {t} \in Tables(U)
<1>1. IsFiniteSet(V \cup {t})
  BY FS_AddElement DEF Tables
<1>2. SingleValues(V \cup {t})
  BY DEF SingleValues, Tables
<1>3. QED
  BY <1>1, <1>2 DEF Tables

\* Setting a column.
LEMMA SetColumnStays ==
  ASSUME NEW U \in SUBSET Uri, NEW R, NEW d \in Dbs(R, U), NEW s \in U, NEW p \in Prop \ Multi,
         NEW new \in Singles(U, p)
  PROVE  SetColumn(d, s, p, new) \in Dbs(R, U)
<1> DEFINE V == {t \in d.vals : t[1] # s \/ t[2] # p}
           W == V \cup {<<s, p, o>> : o \in new}
<1>1. V \in Tables(U)
  BY TablesShrink DEF Dbs
<1>2. W \in Tables(U)
  <2>1. CASE new = {}
    <3>1. W = V
      BY <2>1
    <3>2. QED
      BY <1>1, <3>1
  <2>2. ASSUME NEW o \in ValueIn(U, p), new = {o} PROVE W \in Tables(U)
    <3>1. W = V \cup {<<s, p, o>>}
      BY <2>2
    <3>2. <<s, p, o>> \in Triples(U)
      BY DEF Triples, ValueIn, Object, Node
    <3>3. QED
      BY <1>1, <3>1, <3>2, TablesGrow
  <2>3. QED
    BY <2>1, <2>2 DEF Singles
<1>3. SetColumn(d, s, p, new) = [d EXCEPT !.vals = W]
  BY DEF SetColumn
<1> HIDE DEF W
<1>4. QED
  BY <1>2, <1>3 DEF Dbs

\* SparqlUpdateValue returns what a column may hold.
LEMMA NewColumnStays ==
  ASSUME NEW U, NEW p, NEW how \in Hows, NEW old \in Singles(U, p), NEW new \in Singles(U, p)
  PROVE  NewColumn(how, old, new) \in Singles(U, p)
  BY DEF NewColumn, Hows, Singles

\* Setting the copy of a column.
LEMMA SetCopyStays ==
  ASSUME NEW U, NEW R, NEW d \in Dbs(R, U), NEW s \in Uri, NEW c \in Class, NEW p \in Prop,
         NEW new \in SUBSET Object
  PROVE  SetCopy(d, s, c, p, new) \in Dbs(R, U)
  BY DEF SetCopy, Dbs

\* Deleting a row.
LEMMA DropRowStays ==
  ASSUME NEW U, NEW R, NEW d \in Dbs(R, U), NEW s, NEW c
  PROVE  DropRow(d, s, c) \in Dbs(R, U)
<1> DEFINE V == {t \in d.vals : \/ t[1] # s
                                 \/ t[2] = RdfType
                                 \/ t[2] \in Multi
                                 \/ Domain[t[2]] # c}
<1>1. V \in Tables(U)
  BY TablesShrink DEF Dbs
<1>2. DropRow(d, s, c) = [d EXCEPT !.rows = @ \ {<<s, c>>}, !.vals = V,
                                   !.copies = {t \in @ : t[1] # s \/ t[2] # c}]
  BY DEF DropRow
<1> HIDE DEF V
<1>3. QED
  BY <1>1, <1>2 DEF Dbs

\* Inserting a row sets its columns one after the other,
LEMMA SetColumnsStay ==
  ASSUME NEW U \in SUBSET Uri,
         NEW R,
         NEW d \in Dbs(R, U),
         NEW e,
         e.id \in U,
         e.cols \in Seq(Columns(U))
  PROVE  SetColumns(d, e) \in Dbs(R, U)
<1>0. e.cols \in Seq(Columns(U))
  OBVIOUS
<1> DEFINE P == DOMAIN e.cols
           Do(x, elt) == SetColumn(x, e.id, elt.prop, elt.new)
           F == [a \in P \X Dbs(R, U) |-> Do(a[2], e.cols[a[1]])]
           Step(f) == [z \in SUBSET P |->
             IF z = {} THEN d ELSE Do(f[z \ {Max(z)}], e.cols[Max(z)])]
           It == CHOOSE f : f = Step(f)
<1>1. SetColumns(d, e) = It[P]
  BY DEF SetColumns, FoldLeft, MapThenFoldSet
<1>2. /\ \A k \in P : e.cols[k] \in Columns(U)
      /\ \A z \in SUBSET P : z # {} => Max(z) \in P /\ z \ {Max(z)} \in SUBSET P
  BY ONLY <1>0, Positions
<1>3. \E n \in Nat : P = 1..n
  BY ONLY <1>0, Positions
<1> HIDE DEF P
<1>4. \A k \in P, x \in Dbs(R, U) :
        F[<<k, x>>] = Do(x, e.cols[k]) /\ F[<<k, x>>] \in Dbs(R, U)
  <2>1. \A c \in Columns(U) : c.prop \in Prop \ Multi /\ c.new \in Singles(U, c.prop)
    BY DEF Columns
  <2>2. QED
    BY <1>2, <2>1, SetColumnStays
<1> HIDE DEF F, Do
<1>5. Stays(F, P, Dbs(R, U))
  BY <1>4 DEF Stays
<1>6. ASSUME NEW it \in [SUBSET P -> Dbs(R, U)], Folds(it, d, F, P)
      PROVE  FoldsIn(It, d, F, P, Dbs(R, U))
  <2>1. it = Step(it)
    BY <1>2, <1>4, <1>6 DEF Folds
  <2>2. It = Step(It)
    BY <2>1
  <2> HIDE DEF It
  <2>3. QED
    BY <1>2, <1>4, <2>2 DEF FoldsIn
<1> HIDE DEF It
<1>7. It[P] \in Dbs(R, U)
  BY ONLY <1>3, <1>5, <1>6, d \in Dbs(R, U), FoldsStay
<1>8. QED
  BY <1>1, <1>7

\* and updating a row passes each through SparqlUpdateValue.
LEMMA UpdateColumnsStay ==
  ASSUME NEW U \in SUBSET Uri,
         NEW R,
         NEW d \in Dbs(R, U),
         NEW e,
         e.id \in U,
         e.cols \in Seq(Columns(U))
  PROVE  UpdateColumns(d, e) \in Dbs(R, U)
<1>0. e.cols \in Seq(Columns(U))
  OBVIOUS
<1> DEFINE P == DOMAIN e.cols
           Do(x, elt) == SetColumn(x, e.id, elt.prop,
                           NewColumn(elt.how, ValuesOf(x, e.id, elt.prop), elt.new))
           F == [a \in P \X Dbs(R, U) |-> Do(a[2], e.cols[a[1]])]
           Step(f) == [z \in SUBSET P |->
             IF z = {} THEN d ELSE Do(f[z \ {Max(z)}], e.cols[Max(z)])]
           It == CHOOSE f : f = Step(f)
<1>1. UpdateColumns(d, e) = It[P]
  BY DEF UpdateColumns, FoldLeft, MapThenFoldSet
<1>2. /\ \A k \in P : e.cols[k] \in Columns(U)
      /\ \A z \in SUBSET P : z # {} => Max(z) \in P /\ z \ {Max(z)} \in SUBSET P
  BY ONLY <1>0, Positions
<1>3. \E n \in Nat : P = 1..n
  BY ONLY <1>0, Positions
<1> HIDE DEF P
<1>4. \A k \in P, x \in Dbs(R, U) :
        F[<<k, x>>] = Do(x, e.cols[k]) /\ F[<<k, x>>] \in Dbs(R, U)
  <2>1. ASSUME NEW c \in Columns(U), NEW x \in Dbs(R, U)
        PROVE  SetColumn(x, e.id, c.prop, NewColumn(c.how, ValuesOf(x, e.id, c.prop), c.new))
                 \in Dbs(R, U)
    <3>1. /\ c.prop \in Prop \ Multi /\ c.new \in Singles(U, c.prop) /\ c.how \in Hows
          /\ x.vals \in Tables(U) /\ e.id \in Uri
      BY DEF Columns, Dbs
    <3>2. ValuesOf(x, e.id, c.prop) \in Singles(U, c.prop)
      BY <3>1, ValuesIn
    <3>3. QED
      BY <3>1, <3>2, NewColumnStays, SetColumnStays
  <2>2. QED
    BY <1>2, <2>1
<1> HIDE DEF F, Do
<1>5. Stays(F, P, Dbs(R, U))
  BY <1>4 DEF Stays
<1>6. ASSUME NEW it \in [SUBSET P -> Dbs(R, U)], Folds(it, d, F, P)
      PROVE  FoldsIn(It, d, F, P, Dbs(R, U))
  <2>1. it = Step(it)
    BY <1>2, <1>4, <1>6 DEF Folds
  <2>2. It = Step(It)
    BY <2>1
  <2> HIDE DEF It
  <2>3. QED
    BY <1>2, <1>4, <2>2 DEF FoldsIn
<1> HIDE DEF It
<1>7. It[P] \in Dbs(R, U)
  BY ONLY <1>3, <1>5, <1>6, d \in Dbs(R, U), FoldsStay
<1>8. QED
  BY <1>1, <1>7

\* Removing values of a property.
LEMMA DropsStay ==
  ASSUME NEW U \in SUBSET Uri, NEW R, NEW d \in Dbs(R, U), NEW s \in U, NEW p \in Prop,
         NEW new \in SUBSET ValuesOf(d, s, p)
  PROVE  SetColumn(d, s, p, new) \in Dbs(R, U)
<1> DEFINE V == {t \in d.vals : t[1] # s \/ t[2] # p} \cup {<<s, p, o>> : o \in new}
<1>1. V \in SUBSET d.vals
  BY DEF ValuesOf
<1>2. V \in Tables(U)
  BY <1>1, TablesShrink DEF Dbs
<1>3. SetColumn(d, s, p, new) = [d EXCEPT !.vals = V]
  BY DEF SetColumn
<1> HIDE DEF V
<1>4. QED
  BY <1>2, <1>3 DEF Dbs

\* The entries on reference counts.
LEMMA RefsStay ==
  ASSUME NEW U \in SUBSET Uri, NEW R, NEW d \in Dbs(R, U), NEW e \in Entries(U),
         e.op \in {"REF", "REF_CLEAR", "REF_CLEAR_SUBJECT", "REF_DROP", "REF_DROP_SUBJECT"}
  PROVE  EntryEffect(d, e) \in Dbs(R, U)
<1> DEFINE O == ValuesOf(d, e.id, e.prop)
<1>0. U \subseteq Node /\ Uri \subseteq Node /\ Class \subseteq Node
  BY DEF Node
<1>1. d.refs \in Counts /\ d.vals \in Tables(U)
  BY DEF Dbs
<1>2. ASSUME NEW refs \in Counts PROVE [d EXCEPT !.refs = refs] \in Dbs(R, U)
  BY DEF Dbs
<1>3. CASE e.op = "REF"
  <2>1. e.id \in Node /\ e.n \in Int
    BY <1>3 DEF Entries
  <2>2. BumpRefs(d.refs, {e.id}, e.n) \in Counts /\ UpsertRefs(d.refs, {e.id}, e.n) \in Counts
    BY <1>1, <2>1, CountsStay
  <2>3. QED
    BY <1>2, <1>3, <2>2 DEF EntryEffect
<1>4. CASE e.op # "REF"
  <2>1. e.id \in U /\ e.prop \in Links
    BY <1>4 DEF Entries
  <2>2. O \in SUBSET Node /\ IsFiniteSet(O)
    <3>1. Links \subseteq Prop /\ RdfType \notin Prop
      BY OntologyShape
    <3>2. O \subseteq U /\ IsFiniteSet(O)
      BY <1>1, <2>1, <3>1, ValuesIn DEF ValueIn
    <3>3. QED
      BY <1>0, <3>2
  <2>3. /\ O \cap {e.obj} \in SUBSET Node /\ Cardinality(O \cap {e.obj}) \in Nat
        /\ Cardinality(O) \in Nat
    BY <2>2, FS_CardinalityType, FS_Intersection
  <2>4. /\ BumpRefs(d.refs, {e.id}, -Cardinality(O)) \in Counts
        /\ BumpRefs(d.refs, {e.id}, -Cardinality(O \cap {e.obj})) \in Counts
    <3>1. {e.id} \in SUBSET Node /\ -Cardinality(O) \in Int /\ -Cardinality(O \cap {e.obj}) \in Int
      BY <1>0, <2>1, <2>3
    <3>2. QED
      BY <1>1, <3>1, CountsStay
  <2>5. UpsertRefs(d.refs, O, -1) \in Counts /\ UpsertRefs(d.refs, O \cap {e.obj}, -1) \in Counts
    BY <1>1, <2>2, <2>3, CountsStay
  <2> QED
    BY <1>2, <1>4, <2>4, <2>5 DEF EntryEffect
<1>5. QED
  BY <1>3, <1>4

\* No entry of the log takes the tables out of their types,
LEMMA EffectStays ==
  ASSUME NEW U \in SUBSET Uri, NEW R, NEW d \in Dbs(R, U), NEW e \in Entries(U)
  PROVE  EntryEffect(d, e) \in Dbs(R, U)
<1>0. d.vals \in Tables(U) /\ Multi \subseteq Prop /\ Links \subseteq Prop /\ RdfType \notin Prop
  BY OntologyShape DEF Dbs
<1>1. CASE e.op = "CLASS_INSERT"
  <2>1. e.id \in U /\ e.class \in Class /\ e.cols \in Seq(Columns(U))
    BY <1>1 DEF Entries
  <2>2. [d EXCEPT !.rows = @ \cup {<<e.id, e.class>>}] \in Dbs(R, U)
    BY <2>1 DEF Dbs
  <2>3. QED
    BY <1>1, <2>1, <2>2, SetColumnsStay DEF EntryEffect
<1>2. CASE e.op = "CLASS_DELETE"
  BY <1>2, DropRowStays DEF EntryEffect
<1>3. CASE e.op = "CLASS_UPDATE"
  <2>1. e.id \in U /\ e.class \in Class /\ e.cols \in Seq(Columns(U))
    BY <1>3 DEF Entries
  <2>2. QED
    BY <1>3, <2>1, UpdateColumnsStay DEF EntryEffect
<1>4. CASE e.op = "MULTI_INSERT"
  <2>1. /\ <<e.id, e.prop, e.obj>> \in Triples(U)
        /\ e.prop \notin Prop \ Multi
    BY <1>0, <1>4 DEF Entries, Triples
  <2>2. d.vals \cup {<<e.id, e.prop, e.obj>>} \in Tables(U)
    BY <1>0, <2>1, TablesGrow
  <2>3. QED
    BY <1>4, <2>2 DEF EntryEffect, Dbs
<1>5. CASE e.op = "MULTI_DELETE"
  <2>1. d.vals \ {<<e.id, e.prop, e.obj>>} \in Tables(U)
    BY <1>0, TablesShrink
  <2>2. QED
    BY <1>5, <2>1 DEF EntryEffect, Dbs
<1>6. CASE e.op = "MULTI_CLEAR"
  <2>1. e.id \in U /\ e.prop \in Prop
    BY <1>6 DEF Entries
  <2>2. SetColumn(d, e.id, e.prop, {}) \in Dbs(R, U)
    BY <2>1, DropsStay
  <2>3. QED
    BY <1>6, <2>2, DropRowStays DEF EntryEffect
<1>7. CASE e.op \in {"REF", "REF_CLEAR", "REF_CLEAR_SUBJECT", "REF_DROP", "REF_DROP_SUBJECT"}
  BY <1>7, RefsStay
<1>8. CASE e.op = "PROPAGATE_DELETE"
  <2>1. e.id \in U /\ e.dest \in Prop
    BY <1>8 DEF Entries
  <2>2. QED
    BY <1>8, <2>1, DropsStay DEF EntryEffect
<1>9. CASE e.op = "INDEX_COPY"
  <2>1. e.id \in U /\ e.class \in Class /\ e.prop \in Prop /\ e.how \in Hows
    BY <1>9 DEF Entries
  <2>2. NewColumn(e.how, CopyOf(d, e.id, e.class, e.prop), ValuesOf(d, e.id, e.prop))
          \in SUBSET Object
    BY <2>1 DEF NewColumn, Hows, CopyOf, ValuesOf
  <2>3. QED
    BY <1>9, <2>1, <2>2, SetCopyStays DEF EntryEffect
<1>10. e.op \in {"CLASS_INSERT", "CLASS_DELETE", "CLASS_UPDATE", "MULTI_INSERT", "MULTI_DELETE",
                 "MULTI_CLEAR", "REF", "REF_CLEAR", "REF_CLEAR_SUBJECT", "REF_DROP",
                 "REF_DROP_SUBJECT", "PROPAGATE_DELETE", "INDEX_COPY"}
  BY DEF Entries
<1>11. QED
  BY <1>1, <1>2, <1>3, <1>4, <1>5, <1>6, <1>7, <1>8, <1>9, <1>10

\* unless it fails,
LEMMA ExecuteStays ==
  ASSUME NEW U \in SUBSET Uri, NEW R, NEW d \in Dbs(R, U) \cup {SqlError}, NEW e \in Entries(U)
  PROVE  Execute(d, e) \in Dbs(R, U) \cup {SqlError}
  BY EffectStays DEF Execute

\* and neither does the log.
LEMMA ReplayIn ==
  ASSUME NEW U \in SUBSET Uri, NEW R, NEW d \in Dbs(R, U), NEW log \in Seq(Entries(U))
  PROVE  Replay(d, log) \in Dbs(R, U) \cup {SqlError}
  BY ExecuteStays, ReplayStays

\* The buffered resources.
Resources == UNION {[N -> [types : Seq(Class), create : BOOLEAN, fts : BOOLEAN]] : N \in SUBSET Uri}
\* The buffers.
Buffers(U) == [log : Seq(Entries(U)), res : Resources, fresh : SUBSET Uri, cache : SUBSET U]

\* A flush leaves the tables of their types, or fails.
LEMMA FlushIn ==
  ASSUME NEW U \in SUBSET Uri, NEW R, NEW d \in Dbs(R, U), NEW b \in Buffers(U)
  PROVE  Flush(d, b) \in Dbs(R, U) \cup {SqlError}
<1> DEFINE marked(s) == b.res[s].fts
           old == {s \in DOMAIN b.res : marked(s) /\ ~b.res[s].create}
           new == {s \in DOMAIN b.res : marked(s)}
           cut == [d EXCEPT !.fts = @ \ UNION {FullTextValues(d, s) : s \in old}]
           after == Replay(cut, b.log)
           text == UNION {FullTextValues(after, s) : s \in new}
<1>1. cut \in Dbs(R, U)
  BY DEF Dbs
<1>2. Flush(d, b) = IF b.log = << >> THEN d ELSE IF after = SqlError THEN SqlError
                    ELSE [after EXCEPT !.fts = @ \cup text]
  BY DEF Flush
<1> HIDE DEF cut
<1>3. after \in Dbs(R, U) \cup {SqlError}
  BY <1>1, ReplayIn DEF Buffers
<1> HIDE DEF after
<1>4. after \in Dbs(R, U) => text \subseteq Triples(Uri)
  BY DEF Dbs, Tables, Triples, FullTextValues, ValueIn
<1> HIDE DEF text
<1>5. after \in Dbs(R, U) => [after EXCEPT !.fts = @ \cup text] \in Dbs(R, U)
  BY <1>4 DEF Dbs
<1>6. QED
  BY <1>2, <1>3, <1>5

-----------------------------------------------------------------------------
(***************************************************************************)
(* The buffer and the context a statement works on.                        *)
(***************************************************************************)
\* The contexts.
Contexts(R, U) == [db : Dbs(R, U), buf : Buffers(U), events : SUBSET Uri, ok : BOOLEAN]

\* Logging entries of the right types.
LEMMA LoggedStays ==
  ASSUME NEW U \in SUBSET Uri, NEW R, NEW x \in Contexts(R, U), NEW es \in Seq(Entries(U))
  PROVE  Logged(x, es) \in Contexts(R, U)
<1>1. AppendEntries(x.buf.log, es) \in Seq(Entries(U))
  BY AppendEntriesStay DEF Contexts, Buffers
<1>2. QED
  BY <1>1 DEF Logged, Contexts, Buffers

\* Dispatching a change.
LEMMA NotifiedStays ==
  ASSUME NEW U, NEW R, NEW x \in Contexts(R, U), NEW s \in Uri
  PROVE  Notified(x, s) \in Contexts(R, U)
  BY DEF Notified, Contexts

\* Changing one field of a buffered resource.
LEMMA ResourcesStay ==
  ASSUME NEW res \in Resources, NEW s
  PROVE  /\ \A b \in BOOLEAN : [res EXCEPT ![s].fts = b] \in Resources
         /\ \A types \in Seq(Class) : [res EXCEPT ![s].types = types] \in Resources
<1>1. PICK N \in SUBSET Uri :
        res \in [N -> [types : Seq(Class), create : BOOLEAN, fts : BOOLEAN]]
  BY DEF Resources
<1>2. ASSUME NEW b \in BOOLEAN
      PROVE [res EXCEPT ![s].fts = b]
              \in [N -> [types : Seq(Class), create : BOOLEAN, fts : BOOLEAN]]
  BY <1>1
<1>3. ASSUME NEW types \in Seq(Class)
      PROVE [res EXCEPT ![s].types = types]
              \in [N -> [types : Seq(Class), create : BOOLEAN, fts : BOOLEAN]]
  BY <1>1
<1>4. QED
  BY <1>2, <1>3 DEF Resources

\* Marking a resource for the fulltext index.
LEMMA MarkFtsStays ==
  ASSUME NEW U, NEW R, NEW x \in Contexts(R, U), NEW s, NEW P
  PROVE  MarkFts(x, s, P) \in Contexts(R, U)
<1> DEFINE b == x.buf.res[s].fts \/ P \cap FullText # {}
           res == [x.buf.res EXCEPT ![s].fts = b]
<1>1. res \in Resources
  <2>1. x.buf.res \in Resources
    BY DEF Contexts, Buffers
  <2>2. QED
    BY <2>1, ResourcesStay
<1>2. MarkFts(x, s, P) = [x EXCEPT !.buf.res = res]
  BY DEF MarkFts
<1> HIDE DEF res
<1>3. QED
  BY <1>1, <1>2 DEF Contexts, Buffers

\* The entries that create or remove a row of a class,
LEMMA EntriesOfRow ==
  ASSUME NEW U \in SUBSET Uri, NEW s \in U, NEW c \in Class
  PROVE  /\ ClassInsert(s, c) \in Entries(U) /\ ClassDelete(s, c) \in Entries(U)
         /\ MultiInsert(s, RdfType, c) \in Entries(U) /\ MultiDelete(s, RdfType, c) \in Entries(U)
         /\ \A n \in Int : Ref(s, n) \in Entries(U) /\ Ref(c, n) \in Entries(U)
<1>1. << >> \in Seq(Columns(U)) /\ c \in ValueIn(U, RdfType) /\ c \in Object /\ s \in Node
      /\ c \in Node
  BY DEF ValueIn, Object, Node
<1>2. QED
  BY <1>1 DEF Entries, ClassInsert, ClassDelete, MultiInsert, MultiDelete, Ref

\* those that add or remove a value,
LEMMA EntriesOfValue ==
  ASSUME NEW U \in SUBSET Uri, NEW s \in U, NEW p \in Prop, NEW o \in ValueIn(U, p)
  PROVE  /\ p \in Multi => MultiInsert(s, p, o) \in Entries(U)
         /\ MultiDelete(s, p, o) \in Entries(U)
         /\ p \in Links => /\ RefDropSubject(s, p, o) \in Entries(U)
                           /\ RefDrop(s, p, o) \in Entries(U)
                           /\ \A n \in Int : Ref(o, n) \in Entries(U)
         /\ p \notin Multi => \A how \in Hows : ClassUpdate(s, p, how, {o}) \in Entries(U)
<1>1. o \in Object /\ (p \in Links => o \in Node) /\ RdfType \notin Prop
  BY OntologyShape DEF ValueIn, Object, Node
<1>2. /\ p \in Multi => MultiInsert(s, p, o) \in Entries(U)
      /\ MultiDelete(s, p, o) \in Entries(U)
      /\ p \in Links => /\ RefDropSubject(s, p, o) \in Entries(U)
                        /\ RefDrop(s, p, o) \in Entries(U)
                        /\ \A n \in Int : Ref(o, n) \in Entries(U)
  BY <1>1 DEF Entries, MultiInsert, MultiDelete, RefDropSubject, RefDrop, Ref
<1>3. ASSUME p \notin Multi, NEW how \in Hows PROVE ClassUpdate(s, p, how, {o}) \in Entries(U)
  <2>1. {o} \in Singles(U, p) /\ {o} \in SUBSET Object
    BY <1>1 DEF Singles
  <2>2. [prop |-> p, how |-> how, new |-> {o}] \in Columns(U)
    BY <1>3, <2>1 DEF Columns
  <2>3. Domain[p] \in Class
    BY OntologyShape
  <2>4. QED
    BY <2>2, <2>3 DEF Entries, ClassUpdate
<1>4. QED
  BY <1>2, <1>3

\* those that clear a property,
LEMMA EntriesOfProperty ==
  ASSUME NEW U \in SUBSET Uri, NEW s \in U, NEW p \in Prop
  PROVE  /\ MultiClear(s, p) \in Entries(U)
         /\ \A q \in Prop : PropagateDelete(s, p, q) \in Entries(U)
         /\ p \notin Multi => ClassUpdate(s, p, "RESET", {}) \in Entries(U)
         /\ ClearRefs(s, p) \in Seq(Entries(U))
<1>1. /\ MultiClear(s, p) \in Entries(U)
      /\ \A q \in Prop : PropagateDelete(s, p, q) \in Entries(U)
  BY DEF Entries, MultiClear, PropagateDelete
<1>2. ASSUME p \notin Multi PROVE ClassUpdate(s, p, "RESET", {}) \in Entries(U)
  <2>1. [prop |-> p, how |-> "RESET", new |-> {}] \in Columns(U)
    BY <1>2 DEF Columns, Singles, Hows
  <2>2. Domain[p] \in Class
    BY OntologyShape
  <2>3. QED
    BY <2>1, <2>2 DEF Entries, ClassUpdate
<1>3. ClearRefs(s, p) \in Seq(Entries(U))
  <2>1. p \in Links => RefClearSubject(s, p) \in Entries(U) /\ RefClear(s, p) \in Entries(U)
    BY DEF Entries, RefClearSubject, RefClear
  <2>2. QED
    BY <2>1 DEF ClearRefs
<1>4. QED
  BY <1>1, <1>2, <1>3

\* and those that maintain its domain indexes.
LEMMA IndexCopiesStay ==
  ASSUME NEW U \in SUBSET Uri, NEW x, NEW s \in U, NEW p \in Prop, NEW how \in Hows
  PROVE  IndexCopies(x, s, p, how) \in Seq(Entries(U))
<1> DEFINE classes == Among(ClassOrder, {c \in DomainIndexes[p] : HasType(x, s, c)})
<1>1. classes \in Seq(Class)
  BY OntologyShape, AmongStays
<1> HIDE DEF classes
<1>2. \A i \in DOMAIN classes : IndexCopy(s, p, classes[i], how) \in Entries(U)
  BY <1>1 DEF Entries, IndexCopy
<1>3. [i \in DOMAIN classes |-> IndexCopy(s, p, classes[i], how)] \in Seq(Entries(U))
  BY <1>1, <1>2
<1>4. QED
  BY <1>3 DEF IndexCopies, classes

\* A resource becomes an instance of a class,
LEMMA NewTypeStays ==
  ASSUME NEW U \in SUBSET Uri, NEW R, NEW x \in Contexts(R, U), NEW s \in U, NEW c \in Class
  PROVE  NewType(s, x, c) \in Contexts(R, U)
<1> DEFINE indexed == Among(PropOrder, {p \in Prop : c \in DomainIndexes[p]})
           copies == [i \in DOMAIN indexed |-> IndexCopy(s, indexed[i], c, "INSERT")]
           fixed == << ClassInsert(s, c), Ref(s, 1),
                       MultiInsert(s, RdfType, c), Ref(s, 1), Ref(c, 1) >>
           y == [x EXCEPT !.buf.res[s].types = Append(@, c)]
<1>1. CASE HasType(x, s, c)
  BY <1>1 DEF NewType
<1>2. CASE ~HasType(x, s, c)
  <2>1. copies \in Seq(Entries(U))
    <3>1. indexed \in Seq(Prop)
      BY OntologyShape, AmongStays
    <3> HIDE DEF indexed
    <3>2. \A i \in DOMAIN indexed : IndexCopy(s, indexed[i], c, "INSERT") \in Entries(U)
      BY <3>1 DEF Entries, IndexCopy, Hows
    <3>3. QED
      BY <3>1, <3>2
  <2>2. fixed \in Seq(Entries(U))
    BY EntriesOfRow
  <2>3. y \in Contexts(R, U)
    <3>1. x.buf.res \in Resources
      BY DEF Contexts, Buffers
    <3>2. [x.buf.res EXCEPT ![s].types = Append(@, c)] \in Resources
      <4>1. CASE s \in DOMAIN x.buf.res
        <5>1. Append(x.buf.res[s].types, c) \in Seq(Class)
          BY <3>1, <4>1 DEF Resources
        <5>2. QED
          BY <3>1, <5>1, ResourcesStay
      <4>2. CASE s \notin DOMAIN x.buf.res
        BY <3>1, <4>2 DEF Resources
      <4>3. QED
        BY <4>1, <4>2
    <3>3. QED
      BY <3>2 DEF Contexts, Buffers
  <2>4. NewType(s, x, c) = Notified(Logged(y, fixed \o copies), s)
    BY <1>2 DEF NewType
  <2> HIDE DEF fixed, copies, y
  <2>5. fixed \o copies \in Seq(Entries(U))
    BY <2>1, <2>2
  <2>6. QED
    BY <2>3, <2>4, <2>5, LoggedStays, NotifiedStays
<1>3. QED
  BY <1>1, <1>2

\* The orders in which the update code visits the hierarchies.
LEMMA Orders ==
  /\ \A c \in Class : CreateOrder[c] \in Seq(Class)
  /\ \A p \in Prop : SupersFirst[p] \in Seq(Prop) /\ SupersLast[p] \in Seq(Prop)
  BY OntologyHierarchy

\* and of all its superclasses.
LEMMA CreateServiceStays ==
  ASSUME NEW U \in SUBSET Uri,
         NEW R,
         NEW x0 \in Contexts(R, U),
         NEW s \in U,
         NEW c \in Class
  PROVE  CreateService(x0, s, c) \in Contexts(R, U)
<1>0. CreateOrder[c] \in Seq(Class)
  BY Orders
<1> DEFINE P == DOMAIN CreateOrder[c]
           Do(x, elt) == NewType(s, x, elt)
           F == [a \in P \X Contexts(R, U) |-> Do(a[2], CreateOrder[c][a[1]])]
           Step(f) == [z \in SUBSET P |->
             IF z = {} THEN x0 ELSE Do(f[z \ {Max(z)}], CreateOrder[c][Max(z)])]
           It == CHOOSE f : f = Step(f)
<1>1. CreateService(x0, s, c) = It[P]
  BY DEF CreateService, FoldLeft, MapThenFoldSet
<1>2. /\ \A k \in P : CreateOrder[c][k] \in Class
      /\ \A z \in SUBSET P : z # {} => Max(z) \in P /\ z \ {Max(z)} \in SUBSET P
  BY ONLY <1>0, Positions
<1>3. \E n \in Nat : P = 1..n
  BY ONLY <1>0, Positions
<1> HIDE DEF P
<1>4. \A k \in P, x \in Contexts(R, U) :
        F[<<k, x>>] = Do(x, CreateOrder[c][k]) /\ F[<<k, x>>] \in Contexts(R, U)
  BY <1>2, NewTypeStays
<1> HIDE DEF F, Do
<1>5. Stays(F, P, Contexts(R, U))
  BY <1>4 DEF Stays
<1>6. ASSUME NEW it \in [SUBSET P -> Contexts(R, U)], Folds(it, x0, F, P)
      PROVE  FoldsIn(It, x0, F, P, Contexts(R, U))
  <2>1. it = Step(it)
    BY <1>2, <1>4, <1>6 DEF Folds
  <2>2. It = Step(It)
    BY <2>1
  <2> HIDE DEF It
  <2>3. QED
    BY <1>2, <1>4, <2>2 DEF FoldsIn
<1> HIDE DEF It
<1>7. It[P] \in Contexts(R, U)
  BY ONLY <1>3, <1>5, <1>6, x0 \in Contexts(R, U), FoldsStay
<1>8. QED
  BY <1>1, <1>7

-----------------------------------------------------------------------------
(***************************************************************************)
(* Values inserted and deleted, with their superproperties.                *)
(***************************************************************************)
\* A value is inserted,
LEMMA InsertValueStays ==
  ASSUME NEW U \in SUBSET Uri, NEW R, NEW x \in Contexts(R, U), NEW s \in U, NEW p \in Prop,
         NEW o \in ValueIn(U, p), NEW how \in Hows
  PROVE  InsertValue(s, x, p, o, how) \in Contexts(R, U)
<1> DEFINE drops == IF x.buf.res[s].create \/ p \notin Links THEN << >>
                    ELSE (IF p \in Multi THEN << RefDropSubject(s, p, o) >> ELSE << >>)
                         \o << RefDrop(s, p, o) >>
           value == IF p \in Multi THEN << MultiInsert(s, p, o) >>
                                   ELSE << ClassUpdate(s, p, how, {o}) >>
           adds  == IF p \notin Links THEN << >>
                    ELSE (IF p \in Multi THEN << Ref(s, 1) >> ELSE << >>) \o << Ref(o, 1) >>
           copies == IF p \in Multi THEN << >> ELSE IndexCopies(x, s, p, "INSERT")
<1>1. /\ p \in Multi => MultiInsert(s, p, o) \in Entries(U)
      /\ p \in Links => /\ RefDropSubject(s, p, o) \in Entries(U)
                        /\ RefDrop(s, p, o) \in Entries(U)
                        /\ Ref(o, 1) \in Entries(U)
      /\ p \notin Multi => ClassUpdate(s, p, how, {o}) \in Entries(U)
  BY EntriesOfValue
<1>2. Ref(s, 1) \in Entries(U)
  <2>1. s \in Node
    BY DEF Node
  <2>2. QED
    BY <2>1 DEF Entries, Ref
<1>3. copies \in Seq(Entries(U))
  <2>1. IndexCopies(x, s, p, "INSERT") \in Seq(Entries(U))
    BY IndexCopiesStay DEF Hows
  <2>2. QED
    BY <2>1
<1>4. drops \in Seq(Entries(U)) /\ value \in Seq(Entries(U)) /\ adds \in Seq(Entries(U))
  BY <1>1, <1>2
<1>5. InsertValue(s, x, p, o, how) = Logged(x, drops \o value \o adds \o copies)
  BY DEF InsertValue
<1> HIDE DEF drops, value, adds, copies
<1>6. drops \o value \o adds \o copies \in Seq(Entries(U))
  BY <1>3, <1>4
<1>7. QED
  BY <1>5, <1>6, LoggedStays

\* deleted,
LEMMA DeleteValueStays ==
  ASSUME NEW U \in SUBSET Uri, NEW R, NEW x \in Contexts(R, U), NEW s \in U, NEW p \in Prop,
         NEW o \in ValueIn(U, p)
  PROVE  DeleteValue(s, x, p, o) \in Contexts(R, U)
<1> DEFINE drops == IF p \notin Links THEN << >>
                    ELSE (IF p \in Multi THEN << RefDropSubject(s, p, o) >> ELSE << >>)
                         \o << RefDrop(s, p, o) >>
           value == IF p \in Multi THEN << MultiDelete(s, p, o) >>
                                   ELSE << ClassUpdate(s, p, "DELETE", {o}) >>
           copies == IF p \in Multi THEN << >> ELSE IndexCopies(x, s, p, "DELETE")
<1>1. /\ MultiDelete(s, p, o) \in Entries(U)
      /\ p \in Links => /\ RefDropSubject(s, p, o) \in Entries(U)
                        /\ RefDrop(s, p, o) \in Entries(U)
      /\ p \notin Multi => ClassUpdate(s, p, "DELETE", {o}) \in Entries(U)
  BY EntriesOfValue DEF Hows
<1>2. copies \in Seq(Entries(U))
  <2>1. IndexCopies(x, s, p, "DELETE") \in Seq(Entries(U))
    BY IndexCopiesStay DEF Hows
  <2>2. QED
    BY <2>1
<1>3. drops \in Seq(Entries(U)) /\ value \in Seq(Entries(U))
  BY <1>1
<1>4. DeleteValue(s, x, p, o) = Logged(x, drops \o value \o copies)
  BY DEF DeleteValue
<1> HIDE DEF drops, value, copies
<1>5. drops \o value \o copies \in Seq(Entries(U))
  BY <1>2, <1>3
<1>6. QED
  BY <1>4, <1>5, LoggedStays

\* A value of a property is one of each superproperty.
LEMMA ValuesAbove ==
  ASSUME NEW U, NEW p \in Prop, NEW o \in ValueIn(U, p)
  PROVE  /\ \A i \in DOMAIN SupersFirst[p] :
              SupersFirst[p][i] \in Prop /\ o \in ValueIn(U, SupersFirst[p][i])
         /\ \A i \in DOMAIN SupersLast[p] :
              SupersLast[p][i] \in Prop /\ o \in ValueIn(U, SupersLast[p][i])
<1>1. \A q \in PropsAbove(p) : (q \in Links) = (p \in Links)
  BY OntologyHierarchy
<1>2. RdfType \notin Prop /\ Range(SupersLast[p]) = PropsAbove(p)
  BY OntologyShape, OntologyHierarchy
<1>3. \A q \in Prop : q \in PropsAbove(p) => o \in ValueIn(U, q)
  BY <1>1, <1>2 DEF ValueIn
<1>4. /\ \A i \in DOMAIN SupersFirst[p] : SupersFirst[p][i] \in PropsAbove(p)
      /\ \A i \in DOMAIN SupersLast[p] : SupersLast[p][i] \in PropsAbove(p)
  BY <1>2 DEF PropsAbove, Range
<1>5. /\ \A i \in DOMAIN SupersFirst[p] : SupersFirst[p][i] \in Prop
      /\ \A i \in DOMAIN SupersLast[p] : SupersLast[p][i] \in Prop
  BY Orders
<1>6. QED
  BY <1>3, <1>4, <1>5

\* inserted for the property and its superproperties,
LEMMA InsertValuesStay ==
  ASSUME NEW U \in SUBSET Uri,
         NEW R,
         NEW x0 \in Contexts(R, U),
         NEW s \in U,
         NEW p \in Prop,
         NEW o \in ValueIn(U, p)
  PROVE  FoldLeft(LAMBDA w, q : InsertValue(s, w, q, o,
                        IF q = p THEN "INSERT" ELSE "INSERT_FAILABLE"), x0, SupersFirst[p])
           \in Contexts(R, U)
<1>0. SupersFirst[p] \in Seq(Prop)
  BY Orders
<1> DEFINE P == DOMAIN SupersFirst[p]
           Do(x, elt) == InsertValue(s, x, elt, o, IF elt = p THEN "INSERT" ELSE "INSERT_FAILABLE")
           F == [a \in P \X Contexts(R, U) |-> Do(a[2], SupersFirst[p][a[1]])]
           Step(f) == [z \in SUBSET P |->
             IF z = {} THEN x0 ELSE Do(f[z \ {Max(z)}], SupersFirst[p][Max(z)])]
           It == CHOOSE f : f = Step(f)
<1>1. FoldLeft(LAMBDA w, q : InsertValue(s, w, q, o,
                        IF q = p THEN "INSERT" ELSE "INSERT_FAILABLE"), x0, SupersFirst[p]) = It[P]
  BY DEF FoldLeft, MapThenFoldSet
<1>2. /\ \A k \in P : SupersFirst[p][k] \in Prop
      /\ \A z \in SUBSET P : z # {} => Max(z) \in P /\ z \ {Max(z)} \in SUBSET P
  BY ONLY <1>0, Positions
<1>3. \E n \in Nat : P = 1..n
  BY ONLY <1>0, Positions
<1> HIDE DEF P
<1>4. \A k \in P, x \in Contexts(R, U) :
        F[<<k, x>>] = Do(x, SupersFirst[p][k]) /\ F[<<k, x>>] \in Contexts(R, U)
  <2>1. \A k \in P : o \in ValueIn(U, SupersFirst[p][k])
    BY ValuesAbove DEF P
  <2>2. QED
    BY <1>2, <2>1, InsertValueStays DEF Hows
<1> HIDE DEF F, Do
<1>5. Stays(F, P, Contexts(R, U))
  BY <1>4 DEF Stays
<1>6. ASSUME NEW it \in [SUBSET P -> Contexts(R, U)], Folds(it, x0, F, P)
      PROVE  FoldsIn(It, x0, F, P, Contexts(R, U))
  <2>1. it = Step(it)
    BY <1>2, <1>4, <1>6 DEF Folds
  <2>2. It = Step(It)
    BY <2>1
  <2> HIDE DEF It
  <2>3. QED
    BY <1>2, <1>4, <2>2 DEF FoldsIn
<1> HIDE DEF It
<1>7. It[P] \in Contexts(R, U)
  BY ONLY <1>3, <1>5, <1>6, x0 \in Contexts(R, U), FoldsStay
<1>8. QED
  BY <1>1, <1>7
\* or deleted for them.
LEMMA DeleteValuesStay ==
  ASSUME NEW U \in SUBSET Uri,
         NEW R,
         NEW x0 \in Contexts(R, U),
         NEW s \in U,
         NEW p \in Prop,
         NEW o \in ValueIn(U, p)
  PROVE  FoldLeft(LAMBDA w, q : DeleteValue(s, w, q, o), x0, SupersLast[p]) \in Contexts(R, U)
<1>0. SupersLast[p] \in Seq(Prop)
  BY Orders
<1> DEFINE P == DOMAIN SupersLast[p]
           Do(x, elt) == DeleteValue(s, x, elt, o)
           F == [a \in P \X Contexts(R, U) |-> Do(a[2], SupersLast[p][a[1]])]
           Step(f) == [z \in SUBSET P |->
             IF z = {} THEN x0 ELSE Do(f[z \ {Max(z)}], SupersLast[p][Max(z)])]
           It == CHOOSE f : f = Step(f)
<1>1. FoldLeft(LAMBDA w, q : DeleteValue(s, w, q, o), x0, SupersLast[p]) = It[P]
  BY DEF FoldLeft, MapThenFoldSet
<1>2. /\ \A k \in P : SupersLast[p][k] \in Prop
      /\ \A z \in SUBSET P : z # {} => Max(z) \in P /\ z \ {Max(z)} \in SUBSET P
  BY ONLY <1>0, Positions
<1>3. \E n \in Nat : P = 1..n
  BY ONLY <1>0, Positions
<1> HIDE DEF P
<1>4. \A k \in P, x \in Contexts(R, U) :
        F[<<k, x>>] = Do(x, SupersLast[p][k]) /\ F[<<k, x>>] \in Contexts(R, U)
  <2>1. \A k \in P : o \in ValueIn(U, SupersLast[p][k])
    BY ValuesAbove DEF P
  <2>2. QED
    BY <1>2, <2>1, DeleteValueStays
<1> HIDE DEF F, Do
<1>5. Stays(F, P, Contexts(R, U))
  BY <1>4 DEF Stays
<1>6. ASSUME NEW it \in [SUBSET P -> Contexts(R, U)], Folds(it, x0, F, P)
      PROVE  FoldsIn(It, x0, F, P, Contexts(R, U))
  <2>1. it = Step(it)
    BY <1>2, <1>4, <1>6 DEF Folds
  <2>2. It = Step(It)
    BY <2>1
  <2> HIDE DEF It
  <2>3. QED
    BY <1>2, <1>4, <2>2 DEF FoldsIn
<1> HIDE DEF It
<1>7. It[P] \in Contexts(R, U)
  BY ONLY <1>3, <1>5, <1>6, x0 \in Contexts(R, U), FoldsStay
<1>8. QED
  BY <1>1, <1>7
\* cache_insert_metadata_decomposed, whether or not the class is created with it.
LEMMA InsertMetadataStays ==
  ASSUME NEW U \in SUBSET Uri, NEW R, NEW x \in Contexts(R, U), NEW s \in U, NEW p \in Prop,
         NEW o \in ValueIn(U, p), NEW implicit \in BOOLEAN
  PROVE  InsertMetadata(x, s, p, o, implicit) \in Contexts(R, U)
<1> DEFINE y == IF HasType(x, s, Domain[p]) THEN x
                ELSE IF implicit THEN CreateService(x, s, Domain[p]) ELSE Failed(x)
           z == MarkFts(y, s, PropsAbove(p))
           filled == FoldLeft(LAMBDA w, q : InsertValue(s, w, q, o,
                                  IF q = p THEN "INSERT" ELSE "INSERT_FAILABLE"),
                              z, SupersFirst[p])
<1>1. y \in Contexts(R, U)
  <2>1. Domain[p] \in Class
    BY OntologyShape
  <2>2. CreateService(x, s, Domain[p]) \in Contexts(R, U)
    BY <2>1, CreateServiceStays
  <2>3. Failed(x) \in Contexts(R, U)
    BY DEF Failed, Contexts
  <2>4. QED
    BY <2>2, <2>3
<1>2. InsertMetadata(x, s, p, o, implicit) = IF ~y.ok THEN y ELSE filled
  BY DEF InsertMetadata
<1> HIDE DEF y
<1>3. z \in Contexts(R, U)
  BY <1>1, MarkFtsStays
<1> HIDE DEF z
<1>4. filled \in Contexts(R, U)
  BY <1>3, InsertValuesStay
<1> HIDE DEF filled
<1>5. QED
  BY <1>1, <1>2, <1>4

\* delete_metadata_decomposed.
LEMMA DeleteMetadataStays ==
  ASSUME NEW U \in SUBSET Uri, NEW R, NEW x \in Contexts(R, U), NEW s \in U, NEW p \in Prop,
         NEW o \in ValueIn(U, p)
  PROVE  DeleteMetadata(x, s, p, o) \in Contexts(R, U)
<1> DEFINE z == MarkFts(x, s, PropsAbove(p))
<1>1. z \in Contexts(R, U)
  BY MarkFtsStays
<1>2. DeleteMetadata(x, s, p, o)
        = FoldLeft(LAMBDA w, q : DeleteValue(s, w, q, o), z, SupersLast[p])
  BY DEF DeleteMetadata
<1> HIDE DEF z
<1>3. QED
  BY <1>1, <1>2, DeleteValuesStay

\* delete_all_helper.
LEMMA DeleteAllStays ==
  ASSUME NEW U \in SUBSET Uri,
         NEW R,
         NEW x0 \in Contexts(R, U),
         NEW s \in U,
         NEW p \in Prop
  PROVE  DeleteAll(x0, s, p) \in Contexts(R, U)
<1>0. SupersFirst[p] \in Seq(Prop)
  BY Orders
<1> DEFINE P == DOMAIN SupersFirst[p]
           Do(x, elt) == Logged(x, ClearRefs(s, elt) \o
                << IF elt # p THEN PropagateDelete(s, p, elt)
                   ELSE IF elt \in Multi THEN MultiClear(s, elt)
                   ELSE ClassUpdate(s, elt, "RESET", {}) >>)
           F == [a \in P \X Contexts(R, U) |-> Do(a[2], SupersFirst[p][a[1]])]
           Step(f) == [z \in SUBSET P |->
             IF z = {} THEN x0 ELSE Do(f[z \ {Max(z)}], SupersFirst[p][Max(z)])]
           It == CHOOSE f : f = Step(f)
<1>1. DeleteAll(x0, s, p) = It[P]
  BY DEF DeleteAll, FoldLeft, MapThenFoldSet
<1>2. /\ \A k \in P : SupersFirst[p][k] \in Prop
      /\ \A z \in SUBSET P : z # {} => Max(z) \in P /\ z \ {Max(z)} \in SUBSET P
  BY ONLY <1>0, Positions
<1>3. \E n \in Nat : P = 1..n
  BY ONLY <1>0, Positions
<1> HIDE DEF P
<1>4. \A k \in P, x \in Contexts(R, U) :
        F[<<k, x>>] = Do(x, SupersFirst[p][k]) /\ F[<<k, x>>] \in Contexts(R, U)
  <2>1. ASSUME NEW q \in Prop, NEW x \in Contexts(R, U)
        PROVE  Logged(x, ClearRefs(s, q) \o
                 << IF q # p THEN PropagateDelete(s, p, q)
                    ELSE IF q \in Multi THEN MultiClear(s, q)
                    ELSE ClassUpdate(s, q, "RESET", {}) >>) \in Contexts(R, U)
    <3> DEFINE e == IF q # p THEN PropagateDelete(s, p, q)
                    ELSE IF q \in Multi THEN MultiClear(s, q)
                    ELSE ClassUpdate(s, q, "RESET", {})
    <3>1. e \in Entries(U) /\ ClearRefs(s, q) \in Seq(Entries(U))
      BY EntriesOfProperty
    <3> HIDE DEF e
    <3>2. ClearRefs(s, q) \o << e >> \in Seq(Entries(U))
      BY <3>1
    <3>3. Logged(x, ClearRefs(s, q) \o << e >>) \in Contexts(R, U)
      BY <3>2, LoggedStays
    <3>4. QED
      BY <3>3 DEF e
  <2>2. QED
    BY <1>2, <2>1
<1> HIDE DEF F, Do
<1>5. Stays(F, P, Contexts(R, U))
  BY <1>4 DEF Stays
<1>6. ASSUME NEW it \in [SUBSET P -> Contexts(R, U)], Folds(it, x0, F, P)
      PROVE  FoldsIn(It, x0, F, P, Contexts(R, U))
  <2>1. it = Step(it)
    BY <1>2, <1>4, <1>6 DEF Folds
  <2>2. It = Step(It)
    BY <2>1
  <2> HIDE DEF It
  <2>3. QED
    BY <1>2, <1>4, <2>2 DEF FoldsIn
<1> HIDE DEF It
<1>7. It[P] \in Contexts(R, U)
  BY ONLY <1>3, <1>5, <1>6, x0 \in Contexts(R, U), FoldsStay
<1>8. QED
  BY <1>1, <1>7
\* delete_single_valued.
LEMMA DeleteSingleValuedStays ==
  ASSUME NEW U \in SUBSET Uri,
         NEW R,
         NEW x0 \in Contexts(R, U),
         NEW s \in U,
         NEW p \in Prop
  PROVE  DeleteSingleValued(x0, s, p) \in Contexts(R, U)
<1>0. SupersLast[p] \in Seq(Prop)
  BY Orders
<1> DEFINE P == DOMAIN SupersLast[p]
           Do(x, elt) == IF elt \notin Multi
                THEN Logged(x, ClearRefs(s, elt) \o << ClassUpdate(s, elt, "RESET", {}) >>)
                ELSE IF p \notin Multi
                THEN Logged(x, ClearRefs(s, elt) \o << MultiClear(s, elt) >>) ELSE x
           F == [a \in P \X Contexts(R, U) |-> Do(a[2], SupersLast[p][a[1]])]
           Step(f) == [z \in SUBSET P |->
             IF z = {} THEN x0 ELSE Do(f[z \ {Max(z)}], SupersLast[p][Max(z)])]
           It == CHOOSE f : f = Step(f)
<1>1. DeleteSingleValued(x0, s, p) = It[P]
  BY DEF DeleteSingleValued, FoldLeft, MapThenFoldSet
<1>2. /\ \A k \in P : SupersLast[p][k] \in Prop
      /\ \A z \in SUBSET P : z # {} => Max(z) \in P /\ z \ {Max(z)} \in SUBSET P
  BY ONLY <1>0, Positions
<1>3. \E n \in Nat : P = 1..n
  BY ONLY <1>0, Positions
<1> HIDE DEF P
<1>4. \A k \in P, x \in Contexts(R, U) :
        F[<<k, x>>] = Do(x, SupersLast[p][k]) /\ F[<<k, x>>] \in Contexts(R, U)
  <2>1. ASSUME NEW q \in Prop, NEW x \in Contexts(R, U)
        PROVE  /\ Logged(x, ClearRefs(s, q) \o << MultiClear(s, q) >>) \in Contexts(R, U)
               /\ q \notin Multi =>
                    Logged(x, ClearRefs(s, q) \o << ClassUpdate(s, q, "RESET", {}) >>)
                      \in Contexts(R, U)
    <3>1. /\ ClearRefs(s, q) \o << MultiClear(s, q) >> \in Seq(Entries(U))
          /\ q \notin Multi =>
               ClearRefs(s, q) \o << ClassUpdate(s, q, "RESET", {}) >> \in Seq(Entries(U))
      BY EntriesOfProperty
    <3>2. QED
      BY <3>1, LoggedStays
  <2>2. QED
    BY <1>2, <2>1
<1> HIDE DEF F, Do
<1>5. Stays(F, P, Contexts(R, U))
  BY <1>4 DEF Stays
<1>6. ASSUME NEW it \in [SUBSET P -> Contexts(R, U)], Folds(it, x0, F, P)
      PROVE  FoldsIn(It, x0, F, P, Contexts(R, U))
  <2>1. it = Step(it)
    BY <1>2, <1>4, <1>6 DEF Folds
  <2>2. It = Step(It)
    BY <2>1
  <2> HIDE DEF It
  <2>3. QED
    BY <1>2, <1>4, <2>2 DEF FoldsIn
<1> HIDE DEF It
<1>7. It[P] \in Contexts(R, U)
  BY ONLY <1>3, <1>5, <1>6, x0 \in Contexts(R, U), FoldsStay
<1>8. QED
  BY <1>1, <1>7

-----------------------------------------------------------------------------
(***************************************************************************)
(* cache_delete_resource_type_full: the recursion is a function of its     *)
(* depth, defined by the depth below.                                      *)
(***************************************************************************)
\* What cache_delete_resource_type_full returns, for each call.
Removals == [Class \X (Nat \ {0}) \X Seq(Class) -> [types : Seq(Class), gone : Seq(Class)]]
\* Removal[n], when Removal[n - 1] is deeper.
Layer(n, deeper) ==
  [call \in Class \X (Nat \ {0}) \X Seq(Class) |->
     IF n = 0 THEN [types |-> Without(call[3], call[1]), gone |-> << call[1] >>]
     ELSE RemovalOf(call[1], call[2], call[3], deeper)]

\* One level of the recursion of cache_delete_resource_type_full.
LEMMA LayerIn ==
  ASSUME NEW n, NEW deeper, n = 0 \/ deeper \in Removals
  PROVE  Layer(n, deeper) \in Removals
<1> DEFINE V == [types : Seq(Class), gone : Seq(Class)]
<1>1. \A c \in Class, types \in Seq(Class) :
        [types |-> Without(types, c), gone |-> << c >>] \in V
  BY AmongStays DEF Without
<1>2. ASSUME n # 0, NEW c \in Class, NEW i \in Nat \ {0}, NEW types \in Seq(Class)
      PROVE  RemovalOf(c, i, types, deeper) \in V
  <2>1. \A d \in Class, j \in Nat \ {0}, ts \in Seq(Class) : deeper[<<d, j, ts>>] \in V
    BY <1>2 DEF Removals
  <2>2. ASSUME i \in 1..Len(types) PROVE types[i] \in Class
    BY <2>2
  <2>3. CASE i > Len(types)
    BY <1>1, <2>3 DEF RemovalOf
  <2>4. CASE i \in 1..Len(types)
    <3> DEFINE d == types[i]
               sub  == deeper[<<d, 1, types>>]
               rest == deeper[<<c, i + 1, sub.types>>]
    <3>1. sub \in V /\ d \in Class
      BY <2>1, <2>2, <2>4
    <3> HIDE DEF sub
    <3>2. rest \in V
      BY <2>1, <3>1
    <3> HIDE DEF rest
    <3>3. [types |-> rest.types, gone |-> sub.gone \o rest.gone] \in V
      BY <3>1, <3>2
    <3>4. deeper[<<c, i + 1, types>>] \in V
      BY <2>1
    <3>5. QED
      BY <2>4, <3>3, <3>4 DEF RemovalOf, sub, rest
  <2>5. QED
    BY <2>3, <2>4
<1>3. QED
  BY <1>1, <1>2 DEF Layer, Removals

\* The recursion is defined up to any depth,
LEMMA RemovalsBuilt ==
  ASSUME NEW n \in Nat
  PROVE  \E f \in [0..n -> Removals] : \A m \in 0..n : f[m] = Layer(m, f[m - 1])
<1> DEFINE Built(m) == \E f \in [0..m -> Removals] : \A k \in 0..m : f[k] = Layer(k, f[k - 1])
           T == {m \in Nat : Built(m)}
<1>1. 0 \in T
  <2> DEFINE none == Layer(0, 0)
             f == [m \in 0..0 |-> none]
  <2>1. none \in Removals
    BY LayerIn
  <2>2. Layer(0, f[0 - 1]) = none
    BY DEF Layer
  <2> HIDE DEF none
  <2>3. f \in [0..0 -> Removals] /\ \A m \in 0..0 : m = 0 /\ f[m] = none
    BY <2>1
  <2> HIDE DEF f
  <2>4. QED
    BY <2>2, <2>3
<1>2. ASSUME NEW m \in T \cap Nat PROVE m + 1 \in T
  <2>1. PICK f \in [0..m -> Removals] : \A k \in 0..m : f[k] = Layer(k, f[k - 1])
    OBVIOUS
  <2> DEFINE next == Layer(m + 1, f[m])
             g == [k \in 0..(m + 1) |-> IF k = m + 1 THEN next ELSE f[k]]
  <2>2. next \in Removals
    <3>1. f[m] \in Removals
      BY <2>1
    <3>2. QED
      BY <3>1, LayerIn
  <2>3. g \in [0..(m + 1) -> Removals] /\ g[m + 1] = next /\ \A k \in 0..m : g[k] = f[k]
    <3> HIDE DEF next
    <3>1. QED
      BY <2>1, <2>2
  <2> HIDE DEF g
  <2>4. ASSUME NEW k \in 0..(m + 1) PROVE g[k] = Layer(k, g[k - 1])
    <3>1. CASE k = m + 1
      <4>1. g[k - 1] = f[m] /\ k - 1 = m
        BY <2>3, <3>1
      <4>2. QED
        BY <2>3, <3>1, <4>1
    <3>2. CASE k \in 1..m
      BY <2>1, <2>3, <3>2
    <3>3. CASE k = 0
      <4>1. \A x, y : Layer(0, x) = Layer(0, y)
        BY DEF Layer
      <4>2. QED
        BY <2>1, <2>3, <3>3, <4>1
    <3>4. QED
      BY <3>1, <3>2, <3>3
  <2>5. QED
    BY <2>3, <2>4
<1>3. Nat \subseteq T
  <2> HIDE DEF T
  <2>1. QED
    BY <1>1, <1>2, Induction
<1>4. QED
  BY <1>3

\* so that Removal satisfies its equation at each depth,
LEMMA RemovalIs == \A n \in Nat : Removal[n] = Layer(n, Removal[n - 1])
<1> DEFINE Builds(n, f) == f \in [0..n -> Removals] /\ \A m \in 0..n : f[m] = Layer(m, f[m - 1])
           upTo(n) == CHOOSE f : Builds(n, f)
           All == [n \in Nat |-> upTo(n)[n]]
           Step(f) == [n \in Nat |-> Layer(n, f[n - 1])]
<1>1. ASSUME NEW n \in Nat PROVE Builds(n, upTo(n))
  BY RemovalsBuilt
<1>2. ASSUME NEW n \in Nat, NEW k \in Nat, k <= n PROVE upTo(n)[k] = upTo(k)[k]
  <2> DEFINE f == upTo(n)
             g == upTo(k)
             T == {m \in Nat : m <= k => f[m] = g[m]}
  <2>1. Builds(n, f) /\ Builds(k, g)
    BY <1>1
  <2> HIDE DEF f, g, upTo
  <2>2. 0 \in T
    <3>1. f[0] = Layer(0, f[0 - 1]) /\ g[0] = Layer(0, g[0 - 1])
      BY <2>1
    <3>2. \A x, y : Layer(0, x) = Layer(0, y)
      BY DEF Layer
    <3>3. QED
      BY <3>1, <3>2
  <2>3. ASSUME NEW m \in T \cap Nat PROVE m + 1 \in T
    <3>1. SUFFICES ASSUME m + 1 <= k PROVE f[m + 1] = g[m + 1]
      OBVIOUS
    <3>2. m + 1 \in 0..n /\ m + 1 \in 0..k /\ (m + 1) - 1 = m /\ f[m] = g[m]
      BY <1>2, <3>1
    <3>3. f[m + 1] = Layer(m + 1, f[m]) /\ g[m + 1] = Layer(m + 1, g[m])
      BY <2>1, <3>2
    <3>4. QED
      BY <3>2, <3>3
  <2>4. Nat \subseteq T
    <3> HIDE DEF T
    <3>1. QED
      BY <2>2, <2>3, Induction
  <2>5. QED
    BY <2>4 DEF f, g
<1> HIDE DEF upTo
<1>3. ASSUME NEW n \in Nat PROVE All[n] = Layer(n, All[n - 1])
  <2>1. All[n] = Layer(n, upTo(n)[n - 1])
    BY <1>1
  <2>2. CASE n = 0
    <3>1. \A x, y : Layer(0, x) = Layer(0, y)
      BY DEF Layer
    <3>2. QED
      BY <2>1, <2>2, <3>1
  <2>3. CASE n # 0
    <3>1. n - 1 \in Nat /\ n - 1 <= n
      BY <2>3
    <3>2. upTo(n)[n - 1] = upTo(n - 1)[n - 1] /\ All[n - 1] = upTo(n - 1)[n - 1]
      BY <1>2, <3>1
    <3>3. QED
      BY <2>1, <3>2
  <2>4. QED
    BY <2>2, <2>3
<1>4. All = Step(All)
  <2>1. All = [n \in Nat |-> All[n]]
    OBVIOUS
  <2> HIDE DEF All
  <2>2. QED
    BY <1>3, <2>1
<1>5. Removal = CHOOSE f : f = Step(f)
  BY DEF Removal, Layer
<1> HIDE DEF All
<1>6. Removal = Step(Removal)
  BY <1>4, <1>5
<1> HIDE DEF Removal
<1>7. QED
  BY <1>6

\* and returns sequences of classes.
LEMMA RemovalStays == \A n \in Nat : Removal[n] \in Removals
<1> DEFINE T == {n \in Nat : Removal[n] \in Removals}
<1>1. 0 \in T
  BY RemovalIs, LayerIn
<1>2. ASSUME NEW m \in T \cap Nat PROVE m + 1 \in T
  <2>1. (m + 1) - 1 = m /\ m + 1 \in Nat /\ Removal[m] \in Removals
    OBVIOUS
  <2>2. Removal[m + 1] = Layer(m + 1, Removal[m])
    BY <2>1, RemovalIs
  <2>3. QED
    BY <2>1, <2>2, LayerIn
<1>3. Nat \subseteq T
  <2> HIDE DEF T
  <2>1. QED
    BY <1>1, <1>2, Induction
<1>4. QED
  BY <1>3

\* The classes removed with a class.
LEMMA TypeRemovalIn ==
  ASSUME NEW types \in Seq(Class), NEW c \in Class
  PROVE  TypeRemoval(types, c).gone \in Seq(Class)
<1>1. Nesting(types) \in Nat
  <2>1. Len(ClassOrder) \in Nat /\ Len(types) + 1 \in Nat
    BY OntologyShape
  <2>2. QED
    BY <2>1 DEF Nesting
<1>2. Removal[Nesting(types)][<<c, 1, types>>].gone \in Seq(Class)
  <2>1. Removal[Nesting(types)] \in Removals
    BY <1>1, RemovalStays
  <2>2. QED
    BY <2>1 DEF Removals
<1>3. Reverse(types) \in Seq(Class)
  BY DEF Reverse
<1>4. QED
  BY <1>2, <1>3 DEF TypeRemoval

\* Removing a class from the types of a resource, in a sequence,
LEMMA WithoutStays ==
  ASSUME NEW types \in Seq(Class), NEW c
  PROVE  Without(types, c) \in Seq(Class)
  BY AmongStays DEF Without

\* and in the buffer.
LEMMA TypesStay ==
  ASSUME NEW U \in SUBSET Uri, NEW R, NEW x \in Contexts(R, U), NEW s, NEW c
  PROVE  [x EXCEPT !.buf.res[s].types = Without(@, c)] \in Contexts(R, U)
<1>1. x.buf.res \in Resources
  BY DEF Contexts, Buffers
<1>2. [x.buf.res EXCEPT ![s].types = Without(@, c)] \in Resources
  <2>1. CASE s \in DOMAIN x.buf.res
    <3>1. Without(x.buf.res[s].types, c) \in Seq(Class)
      BY <1>1, <2>1, WithoutStays DEF Resources
    <3>2. QED
      BY <1>1, <3>1, ResourcesStay
  <2>2. CASE s \notin DOMAIN x.buf.res
    BY <1>1, <2>2 DEF Resources
  <2>3. QED
    BY <2>1, <2>2
<1>3. QED
  BY <1>2 DEF Contexts, Buffers

\* The entries that clear the properties of a class.
LEMMA ClearedIn ==
  ASSUME NEW U \in SUBSET Uri,
         NEW x0,
         NEW s \in U,
         NEW own \in Seq(Prop)
  PROVE  Cleared(x0, s, own) \in Seq(Entries(U))
<1>0. own \in Seq(Prop)
  OBVIOUS
<1> DEFINE P == DOMAIN own
           Do(x, elt) == x \o (ClearRefs(s, elt)
                           \o (IF elt \in Multi THEN << MultiClear(s, elt) >>
                               ELSE IndexCopies(x0, s, elt, "DELETE")))
           F == [a \in P \X Seq(Entries(U)) |-> Do(a[2], own[a[1]])]
           Step(f) == [z \in SUBSET P |->
             IF z = {} THEN << >> ELSE Do(f[z \ {Max(z)}], own[Max(z)])]
           It == CHOOSE f : f = Step(f)
<1>1. Cleared(x0, s, own) = It[P]
  BY DEF Cleared, FoldLeft, MapThenFoldSet
<1>2. /\ \A k \in P : own[k] \in Prop
      /\ \A z \in SUBSET P : z # {} => Max(z) \in P /\ z \ {Max(z)} \in SUBSET P
  BY ONLY <1>0, Positions
<1>3. \E n \in Nat : P = 1..n
  BY ONLY <1>0, Positions
<1> HIDE DEF P
<1>4. \A k \in P, x \in Seq(Entries(U)) :
        F[<<k, x>>] = Do(x, own[k]) /\ F[<<k, x>>] \in Seq(Entries(U))
  <2>1. ASSUME NEW p \in Prop, NEW x \in Seq(Entries(U)) PROVE Do(x, p) \in Seq(Entries(U))
    <3>1. /\ ClearRefs(s, p) \in Seq(Entries(U)) /\ MultiClear(s, p) \in Entries(U)
          /\ IndexCopies(x0, s, p, "DELETE") \in Seq(Entries(U))
      BY EntriesOfProperty, IndexCopiesStay DEF Hows
    <3>2. QED
      BY <3>1
  <2> HIDE DEF Do
  <2>2. QED
    BY <1>2, <2>1
<1> HIDE DEF F, Do
<1>5. Stays(F, P, Seq(Entries(U)))
  BY <1>4 DEF Stays
<1>6. ASSUME NEW it \in [SUBSET P -> Seq(Entries(U))], Folds(it, << >>, F, P)
      PROVE  FoldsIn(It, << >>, F, P, Seq(Entries(U)))
  <2>1. it = Step(it)
    BY <1>2, <1>4, <1>6 DEF Folds
  <2>2. It = Step(It)
    BY <2>1
  <2> HIDE DEF It
  <2>3. QED
    BY <1>2, <1>4, <2>2 DEF FoldsIn
<1> HIDE DEF It
<1>7. It[P] \in Seq(Entries(U))
  BY ONLY <1>3, <1>5, <1>6, << >> \in Seq(Entries(U)), FoldsStay
<1>8. QED
  BY <1>1, <1>7
\* A resource stops being an instance of a class,
LEMMA DeleteServiceStays ==
  ASSUME NEW U \in SUBSET Uri, NEW R, NEW x \in Contexts(R, U), NEW s \in U, NEW c \in Class
  PROVE  DeleteService(s, x, c) \in Contexts(R, U)
<1> DEFINE own == Among(PropOrder, {p \in Prop : Domain[p] = c})
           props == Cleared(x, s, own)
           row == << Ref(c, -1), Ref(s, -1), MultiDelete(s, RdfType, c),
                     ClassDelete(s, c), Ref(s, -1) >>
           y == MarkFts(x, s, Range(own))
           z == Logged(y, props \o row)
           t == [z EXCEPT !.buf.res[s].types = Without(@, c)]
<1>1. own \in Seq(Prop)
  BY OntologyShape, AmongStays
<1>2. DeleteService(s, x, c) = Notified(t, s)
  BY DEF DeleteService
<1>3. row \in Seq(Entries(U))
  BY EntriesOfRow
<1>4. y \in Contexts(R, U)
  BY MarkFtsStays
<1> HIDE DEF own, row, y
<1>5. props \in Seq(Entries(U))
  BY <1>1, ClearedIn
<1> HIDE DEF props
<1>6. props \o row \in Seq(Entries(U))
  BY <1>3, <1>5
<1>7. z \in Contexts(R, U)
  BY <1>4, <1>6, LoggedStays
<1> HIDE DEF z
<1>8. t \in Contexts(R, U)
  BY <1>7, TypesStay
<1> HIDE DEF t
<1>9. QED
  BY <1>2, <1>8, NotifiedStays

\* of several,
LEMMA DeleteServicesStay ==
  ASSUME NEW U \in SUBSET Uri,
         NEW R,
         NEW x0 \in Contexts(R, U),
         NEW s \in U,
         NEW gone \in Seq(Class)
  PROVE  FoldLeft(LAMBDA y, d : DeleteService(s, y, d), x0, gone) \in Contexts(R, U)
<1>0. gone \in Seq(Class)
  OBVIOUS
<1> DEFINE P == DOMAIN gone
           Do(x, elt) == DeleteService(s, x, elt)
           F == [a \in P \X Contexts(R, U) |-> Do(a[2], gone[a[1]])]
           Step(f) == [z \in SUBSET P |->
             IF z = {} THEN x0 ELSE Do(f[z \ {Max(z)}], gone[Max(z)])]
           It == CHOOSE f : f = Step(f)
<1>1. FoldLeft(LAMBDA y, d : DeleteService(s, y, d), x0, gone) = It[P]
  BY DEF FoldLeft, MapThenFoldSet
<1>2. /\ \A k \in P : gone[k] \in Class
      /\ \A z \in SUBSET P : z # {} => Max(z) \in P /\ z \ {Max(z)} \in SUBSET P
  BY ONLY <1>0, Positions
<1>3. \E n \in Nat : P = 1..n
  BY ONLY <1>0, Positions
<1> HIDE DEF P
<1>4. \A k \in P, x \in Contexts(R, U) :
        F[<<k, x>>] = Do(x, gone[k]) /\ F[<<k, x>>] \in Contexts(R, U)
  BY <1>2, DeleteServiceStays
<1> HIDE DEF F, Do
<1>5. Stays(F, P, Contexts(R, U))
  BY <1>4 DEF Stays
<1>6. ASSUME NEW it \in [SUBSET P -> Contexts(R, U)], Folds(it, x0, F, P)
      PROVE  FoldsIn(It, x0, F, P, Contexts(R, U))
  <2>1. it = Step(it)
    BY <1>2, <1>4, <1>6 DEF Folds
  <2>2. It = Step(It)
    BY <2>1
  <2> HIDE DEF It
  <2>3. QED
    BY <1>2, <1>4, <2>2 DEF FoldsIn
<1> HIDE DEF It
<1>7. It[P] \in Contexts(R, U)
  BY ONLY <1>3, <1>5, <1>6, x0 \in Contexts(R, U), FoldsStay
<1>8. QED
  BY <1>1, <1>7
\* The types of a buffered resource.
LEMMA TypesIs ==
  ASSUME NEW U, NEW R, NEW x \in Contexts(R, U), NEW s \in DOMAIN x.buf.res
  PROVE  TypesOf(x, s) \in Seq(Class)
  BY DEF TypesOf, Contexts, Buffers, Resources

\* of a class and its subclasses.
LEMMA DeleteTypeStays ==
  ASSUME NEW U \in SUBSET Uri, NEW R, NEW x \in Contexts(R, U), NEW s \in U, NEW c \in Class,
         s \in DOMAIN x.buf.res
  PROVE  DeleteType(x, s, c) \in Contexts(R, U)
<1> DEFINE gone == TypeRemoval(TypesOf(x, s), c).gone
<1>1. gone \in Seq(Class)
  BY TypesIs, TypeRemovalIn
<1>2. DeleteType(x, s, c) = FoldLeft(LAMBDA y, d : DeleteService(s, y, d), x, gone)
  BY DEF DeleteType
<1> HIDE DEF gone
<1>3. QED
  BY <1>1, <1>2, DeleteServicesStay

-----------------------------------------------------------------------------
(***************************************************************************)
(* Statements.  The same argument serves twice: with every Uri in the      *)
(* place of U it gives the types of the store, with the rows of the        *)
(* Resource table it says that nothing else is ever named.                 *)
(***************************************************************************)
\* The resources tables and log may name: those with a Resource row, when strict.
Known(strict, R) == IF strict THEN R ELSE Uri
Sound(strict) == UNION {Contexts(R, Known(strict, R)) : R \in SUBSET Uri}

\* What a sound context knows is among its Resource rows.
LEMMA SoundIs ==
  ASSUME NEW strict \in BOOLEAN, NEW x \in Sound(strict)
  PROVE  /\ x.db.uris \in SUBSET Uri
         /\ x \in Contexts(x.db.uris, Known(strict, x.db.uris))
         /\ Known(strict, x.db.uris) \in SUBSET Uri
<1>1. PICK R \in SUBSET Uri : x \in Contexts(R, Known(strict, R))
  BY DEF Sound
<1>2. x.db.uris = R
  BY <1>1 DEF Contexts, Dbs
<1>3. QED
  BY <1>1, <1>2 DEF Known

\* Introduces a sound context.
LEMMA SoundIf ==
  ASSUME NEW strict \in BOOLEAN, NEW R \in SUBSET Uri, NEW x \in Contexts(R, Known(strict, R))
  PROVE  x \in Sound(strict) /\ x.db.uris = R
<1>1. x.db.uris = R
  BY DEF Contexts, Dbs
<1>2. x \in Sound(strict)
  BY DEF Sound
<1>3. QED
  BY <1>1, <1>2

\* More rows in the Resource table harm neither tables nor log.
LEMMA MoreKnown ==
  ASSUME NEW U \in SUBSET Uri, NEW W \in SUBSET Uri, U \subseteq W
  PROVE  /\ Tables(U) \subseteq Tables(W)
         /\ Seq(Entries(U)) \subseteq Seq(Entries(W))
<1>1. \A p : ValueIn(U, p) \subseteq ValueIn(W, p)
  BY DEF ValueIn
<1>2. Triples(U) \subseteq Triples(W)
  BY <1>1 DEF Triples
<1>3. Tables(U) \subseteq Tables(W)
  BY <1>2 DEF Tables
<1>4. Columns(U) \subseteq Columns(W)
  BY <1>1 DEF Columns, Singles
<1>5. Seq(Columns(U)) \subseteq Seq(Columns(W))
  BY <1>4
<1>6. Entries(U) \subseteq Entries(W)
  <2>1. ASSUME NEW e \in Entries(U) PROVE e \in Entries(W)
    <3>1. CASE e \in [op : {"CLASS_INSERT", "CLASS_UPDATE"}, id : U, class : Class,
                      cols : Seq(Columns(U))]
      <4>1. e \in [op : {"CLASS_INSERT", "CLASS_UPDATE"}, id : W, class : Class,
                   cols : Seq(Columns(W))]
        BY <1>5, <3>1
      <4>2. QED
        BY <4>1 DEF Entries
    <3>2. CASE e \in {f \in [op : {"MULTI_INSERT"}, id : U, prop : Multi \cup {RdfType},
                             obj : Object] : f.obj \in ValueIn(U, f.prop)}
      BY <1>1, <3>2 DEF Entries
    <3>3. QED
      BY <3>1, <3>2 DEF Entries
  <2>2. QED
    BY <2>1
<1>7. QED
  BY <1>3, <1>6

\* A resource that has been ensured may be named from then on,
LEMMA EnsureResourceStays ==
  ASSUME NEW strict \in BOOLEAN, NEW x \in Sound(strict), NEW u \in Uri
  PROVE  LET y == EnsureResource(x, u)
         IN  /\ y \in Sound(strict)
             /\ x.db.uris \subseteq y.db.uris
             /\ u \in Known(strict, y.db.uris)
<1> DEFINE R == x.db.uris
           U == Known(strict, R)
           Q == R \cup {u}
           W == Known(strict, Q)
           y == [x EXCEPT !.db.uris = Q,
                          !.buf.cache = @ \cup {u},
                          !.buf.fresh = IF u \in R THEN @ ELSE @ \cup {u}]
<1>1. x \in Contexts(R, U) /\ R \in SUBSET Uri /\ U \in SUBSET Uri
  BY SoundIs
<1>2. CASE u \in x.buf.cache
  <2>1. u \in U
    BY <1>1, <1>2 DEF Contexts, Buffers
  <2>2. EnsureResource(x, u) = x
    BY <1>2 DEF EnsureResource
  <2>3. QED
    BY <2>1, <2>2
<1>3. CASE u \notin x.buf.cache
  <2>1. EnsureResource(x, u) = y
    BY <1>3 DEF EnsureResource
  <2>2. Q \in SUBSET Uri /\ U \subseteq W /\ W \in SUBSET Uri /\ u \in W
    BY <1>1 DEF Known
  <2>3. x.db.vals \in Tables(W) /\ x.buf.log \in Seq(Entries(W))
    <3>1. x.db.vals \in Tables(U) /\ x.buf.log \in Seq(Entries(U))
      BY <1>1 DEF Contexts, Dbs, Buffers
    <3> HIDE DEF U, W
    <3>2. Tables(U) \subseteq Tables(W) /\ Seq(Entries(U)) \subseteq Seq(Entries(W))
      BY <1>1, <2>2, MoreKnown
    <3>3. QED
      BY <3>1, <3>2
  <2> HIDE DEF Q, W, U
  <2>4. [x.db EXCEPT !.uris = Q] \in Dbs(Q, W)
    BY <1>1, <2>3 DEF Contexts, Dbs
  <2>5. [x.buf EXCEPT !.cache = @ \cup {u}, !.fresh = IF u \in R THEN @ ELSE @ \cup {u}]
          \in Buffers(W)
    BY <1>1, <2>2, <2>3 DEF Contexts, Buffers
  <2>6. y \in Contexts(Q, W)
    BY <1>1, <2>4, <2>5 DEF Contexts
  <2> HIDE DEF y
  <2>7. y \in Sound(strict) /\ y.db.uris = Q
    BY <2>2, <2>6, SoundIf DEF W
  <2>8. R \subseteq Q
    BY DEF Q
  <2>9. QED
    BY <2>1, <2>2, <2>7, <2>8 DEF W
<1>4. QED
  BY <1>2, <1>3

\* and so may an object.
LEMMA EnsureObjectStays ==
  ASSUME NEW strict \in BOOLEAN, NEW x \in Sound(strict), NEW p \in Prop, NEW o \in ValueOf(p)
  PROVE  LET y == EnsureObject(x, p, o)
         IN  /\ y \in Sound(strict)
             /\ x.db.uris \subseteq y.db.uris
             /\ o \in ValueIn(Known(strict, y.db.uris), p)
<1>1. RdfType \notin Prop
  BY OntologyShape
<1>2. CASE p \in Links
  <2>1. o \in Uri /\ EnsureObject(x, p, o) = EnsureResource(x, o)
    BY <1>2 DEF ValueOf, EnsureObject
  <2>2. QED
    BY <1>1, <1>2, <2>1, EnsureResourceStays DEF ValueIn
<1>3. CASE p \notin Links
  BY <1>1, <1>3 DEF ValueOf, EnsureObject, ValueIn
<1>4. QED
  BY <1>2, <1>3

\* resource_buffer_switch leaves the resource buffered.
LEMMA SwitchStays ==
  ASSUME NEW U \in SUBSET Uri, NEW R, NEW x \in Contexts(R, U), NEW s \in Uri
  PROVE  Switch(x, s) \in Contexts(R, U) /\ s \in DOMAIN Switch(x, s).buf.res
<1> DEFINE stored == Among(ClassOrder, TypesIn(x.db, s))
           types  == IF s \in x.buf.fresh THEN << >> ELSE stored
           res    == Buffered(x.buf.res, s, types)
<1>1. CASE s \in DOMAIN x.buf.res
  BY <1>1 DEF Switch
<1>2. CASE s \notin DOMAIN x.buf.res
  <2>1. types \in Seq(Class)
    BY OntologyShape, AmongStays
  <2>2. Switch(x, s) = [x EXCEPT !.buf.res = res]
    BY <1>2 DEF Switch
  <2> HIDE DEF types
  <2>3. res \in Resources /\ s \in DOMAIN res
    <3>1. PICK N \in SUBSET Uri :
            x.buf.res \in [N -> [types : Seq(Class), create : BOOLEAN, fts : BOOLEAN]]
      BY DEF Contexts, Buffers, Resources
    <3>2. (types = << >>) \in BOOLEAN
      OBVIOUS
    <3>3. [types |-> types, create |-> types = << >>, fts |-> FALSE]
            \in [types : Seq(Class), create : BOOLEAN, fts : BOOLEAN]
      BY <2>1, <3>2
    <3>4. res \in [N \cup {s} -> [types : Seq(Class), create : BOOLEAN, fts : BOOLEAN]]
      BY <3>1, <3>3 DEF Buffered
    <3>5. QED
      BY <3>4 DEF Resources
  <2> HIDE DEF res
  <2>4. QED
    BY <2>2, <2>3 DEF Contexts, Buffers
<1>3. QED
  BY <1>1, <1>2

\* Telling the notifiers, or not.
LEMMA DispatchStays ==
  ASSUME NEW U, NEW R, NEW x \in Contexts(R, U), NEW s \in Uri
  PROVE  Dispatch(x, s) \in Contexts(R, U)
  BY NotifiedStays DEF Dispatch

\* Subject and object of a statement may be named once both are ensured.
LEMMA PreparedIn ==
  ASSUME NEW strict \in BOOLEAN, NEW x \in Sound(strict), NEW s \in Uri,
         s \in Known(strict, x.db.uris), NEW p \in Prop, NEW o \in ValueOf(p)
  PROVE  LET y == EnsureObject(x, p, o)
             U == Known(strict, y.db.uris)
         IN  /\ y \in Contexts(y.db.uris, U) /\ y.db.uris \in SUBSET Uri /\ U \in SUBSET Uri
             /\ s \in U /\ o \in ValueIn(U, p)
<1> DEFINE y == EnsureObject(x, p, o)
<1>1. /\ y \in Sound(strict) /\ x.db.uris \subseteq y.db.uris
      /\ o \in ValueIn(Known(strict, y.db.uris), p)
  BY EnsureObjectStays
<1> HIDE DEF y
<1>2. s \in Known(strict, y.db.uris)
  BY <1>1 DEF Known
<1>3. QED
  BY <1>1, <1>2, SoundIs DEF y

\* Likewise the subject alone.
LEMMA SubjectIn ==
  ASSUME NEW strict \in BOOLEAN, NEW x \in Sound(strict), NEW s \in Uri
  PROVE  LET y == EnsureResource(x, s)
             U == Known(strict, y.db.uris)
         IN  /\ y \in Contexts(y.db.uris, U) /\ y.db.uris \in SUBSET Uri /\ U \in SUBSET Uri
             /\ s \in U
<1> DEFINE y == EnsureResource(x, s)
<1>1. /\ y \in Sound(strict) /\ s \in Known(strict, y.db.uris)
  BY EnsureResourceStays
<1> HIDE DEF y
<1>2. QED
  BY <1>1, SoundIs DEF y

\* An INSERT, a load, an INSERT OR REPLACE.
LEMMA InsertStays ==
  ASSUME NEW strict \in BOOLEAN, NEW x \in Sound(strict), NEW s \in Uri, NEW p \in Prop,
         NEW o \in ValueOf(p), NEW st, st.s = s, st.p = p, st.o = o
  PROVE  /\ \A implicit \in BOOLEAN : RunInsert(x, st, implicit) \in Sound(strict)
         /\ RunReplace(x, st) \in Sound(strict)
<1> DEFINE e == EnsureResource(x, s)
           w == EnsureObject(e, p, o)
           R == w.db.uris
           U == Known(strict, R)
           y == Switch(w, s)
           m == MarkFts(y, s, {p})
           z == DeleteSingleValued(m, s, p)
<1>1. e \in Sound(strict) /\ s \in Known(strict, e.db.uris)
  BY EnsureResourceStays
<1> HIDE DEF e
<1>2. w \in Contexts(R, U) /\ R \in SUBSET Uri /\ U \in SUBSET Uri /\ s \in U /\ o \in ValueIn(U, p)
  BY <1>1, PreparedIn
<1> HIDE DEF w, U, R
<1>3. y \in Contexts(R, U)
  BY <1>2, SwitchStays
<1> HIDE DEF y
<1>4. ASSUME NEW implicit \in BOOLEAN
      PROVE  Dispatch(InsertMetadata(y, s, p, o, implicit), s) \in Contexts(R, U)
  BY <1>2, <1>3, InsertMetadataStays, DispatchStays
<1>5. m \in Contexts(R, U)
  BY <1>3, MarkFtsStays
<1> HIDE DEF m
<1>6. z \in Contexts(R, U)
  BY <1>2, <1>5, DeleteSingleValuedStays
<1> HIDE DEF z
<1>7. Dispatch(InsertMetadata(z, s, p, o, FALSE), s) \in Contexts(R, U)
  BY <1>2, <1>6, InsertMetadataStays, DispatchStays
<1>8. \A c \in Contexts(R, U) : c \in Sound(strict)
  BY <1>2, SoundIf DEF U
<1>9. /\ \A implicit \in BOOLEAN :
            RunInsert(x, st, implicit) = Dispatch(InsertMetadata(y, s, p, o, implicit), s)
      /\ RunReplace(x, st) = Dispatch(InsertMetadata(z, s, p, o, FALSE), s)
  BY DEF RunInsert, RunReplace, e, w, y, m, z
<1>10. QED
  BY <1>4, <1>7, <1>8, <1>9

\* An rdf:type inserted.
LEMMA InsertTypeStays ==
  ASSUME NEW strict \in BOOLEAN, NEW x \in Sound(strict), NEW s \in Uri, NEW c \in Class
  PROVE  LET y == CreateService(Switch(EnsureResource(x, s), s), s, c)
         IN  y \in Sound(strict) /\ s \in Known(strict, y.db.uris)
<1> DEFINE e == EnsureResource(x, s)
           R == e.db.uris
           U == Known(strict, R)
           y == Switch(e, s)
           z == CreateService(y, s, c)
<1>1. e \in Contexts(R, U) /\ R \in SUBSET Uri /\ U \in SUBSET Uri /\ s \in U
  BY SubjectIn
<1> HIDE DEF e, U, R
<1>2. y \in Contexts(R, U)
  BY <1>1, SwitchStays
<1> HIDE DEF y
<1>3. z \in Contexts(R, U)
  BY <1>1, <1>2, CreateServiceStays
<1> HIDE DEF z
<1>4. z \in Sound(strict) /\ z.db.uris = R
  BY <1>1, <1>3, SoundIf DEF U
<1>5. QED
  BY <1>1, <1>4 DEF z, y, e, U

\* A DELETE.
LEMMA DeleteStays ==
  ASSUME NEW strict \in BOOLEAN, NEW x \in Sound(strict), NEW s \in Uri, NEW p \in Prop,
         NEW o \in ValueOf(p), NEW st, st.s = s, st.p = p, st.o = o
  PROVE  RunDelete(x, st) \in Sound(strict)
<1> DEFINE w == EnsureObject(x, p, o)
           R == w.db.uris
           U == Known(strict, R)
           y == Switch(w, s)
           z == Dispatch(DeleteMetadata(y, s, p, o), s)
<1>1. CASE s \notin x.db.uris
  BY <1>1 DEF RunDelete
<1>2. CASE s \in x.db.uris
  <2>1. s \in Known(strict, x.db.uris)
    BY <1>2 DEF Known
  <2>2. w \in Contexts(R, U) /\ R \in SUBSET Uri /\ U \in SUBSET Uri /\ s \in U
        /\ o \in ValueIn(U, p)
    BY <2>1, PreparedIn
  <2>3. RunDelete(x, st) = z
    BY <1>2 DEF RunDelete
  <2> HIDE DEF w, U, R
  <2>4. y \in Contexts(R, U)
    BY <2>2, SwitchStays
  <2> HIDE DEF y
  <2>5. z \in Contexts(R, U)
    BY <2>2, <2>4, DeleteMetadataStays, DispatchStays
  <2> HIDE DEF z
  <2>6. QED
    BY <2>2, <2>3, <2>5, SoundIf DEF U
<1>3. QED
  BY <1>1, <1>2

\* An rdf:type deleted.
LEMMA RunDeleteTypeStays ==
  ASSUME NEW strict \in BOOLEAN, NEW x \in Sound(strict), NEW s \in Uri, NEW c \in Class,
         NEW st, st.s = s, st.o = c
  PROVE  RunDeleteType(x, st) \in Sound(strict)
<1> DEFINE R == x.db.uris
           U == Known(strict, R)
           y == Switch(x, s)
           z == DeleteType(y, s, c)
<1>1. CASE s \notin x.db.uris
  BY <1>1 DEF RunDeleteType
<1>2. CASE s \in x.db.uris
  <2>1. s \in U /\ x \in Contexts(R, U) /\ R \in SUBSET Uri /\ U \in SUBSET Uri
    BY <1>2, SoundIs DEF Known
  <2>2. RunDeleteType(x, st) = z
    BY <1>2 DEF RunDeleteType
  <2> HIDE DEF U, R
  <2>3. y \in Contexts(R, U) /\ s \in DOMAIN y.buf.res
    BY <2>1, SwitchStays
  <2> HIDE DEF y
  <2>4. z \in Contexts(R, U)
    BY <2>1, <2>3, DeleteTypeStays
  <2> HIDE DEF z
  <2>5. QED
    BY <2>1, <2>2, <2>4, SoundIf DEF U
<1>3. QED
  BY <1>1, <1>2

\* The INSERT OR REPLACE of NULL.
LEMMA ReplaceNullStays ==
  ASSUME NEW strict \in BOOLEAN, NEW x \in Sound(strict), NEW s \in Uri, NEW p \in Prop,
         NEW st, st.s = s, st.p = p
  PROVE  RunReplaceNull(x, st) \in Sound(strict)
<1> DEFINE e == EnsureResource(x, s)
           R == e.db.uris
           U == Known(strict, R)
           y == Switch(e, s)
           m == MarkFts(y, s, {p})
           es == ClearRefs(s, p) \o << MultiClear(s, p) >>
           z == Logged(m, es)
<1>1. e \in Contexts(R, U) /\ R \in SUBSET Uri /\ U \in SUBSET Uri /\ s \in U
  BY SubjectIn
<1>2. RunReplaceNull(x, st) = z
  BY DEF RunReplaceNull
<1> HIDE DEF e, U, R
<1>3. y \in Contexts(R, U)
  BY <1>1, SwitchStays
<1> HIDE DEF y
<1>4. m \in Contexts(R, U)
  BY <1>3, MarkFtsStays
<1> HIDE DEF m
<1>5. es \in Seq(Entries(U))
  BY <1>1, EntriesOfProperty
<1> HIDE DEF es
<1>6. z \in Contexts(R, U)
  BY <1>1, <1>4, <1>5, LoggedStays
<1> HIDE DEF z
<1>7. QED
  BY <1>1, <1>2, <1>6, SoundIf DEF U

\* One value of update_resource_single,
LEMMA SetValueStays ==
  ASSUME NEW strict \in BOOLEAN, NEW s \in Uri, NEW p \in Prop, NEW o \in ValueOf(p),
         NEW x \in Sound(strict), s \in Known(strict, x.db.uris)
  PROVE  LET e == EnsureObject(x, p, o)
             r == IF s \in x.buf.fresh THEN e ELSE DeleteAll(e, s, p)
             y == Dispatch(InsertMetadata(r, s, p, o, FALSE), s)
         IN  y \in Sound(strict) /\ s \in Known(strict, y.db.uris)
<1> DEFINE e == EnsureObject(x, p, o)
           R == e.db.uris
           U == Known(strict, R)
           r == IF s \in x.buf.fresh THEN e ELSE DeleteAll(e, s, p)
           y == Dispatch(InsertMetadata(r, s, p, o, FALSE), s)
<1>1. e \in Contexts(R, U) /\ R \in SUBSET Uri /\ U \in SUBSET Uri /\ s \in U /\ o \in ValueIn(U, p)
  BY PreparedIn
<1> HIDE DEF e, U, R
<1>2. r \in Contexts(R, U)
  BY <1>1, DeleteAllStays
<1> HIDE DEF r
<1>3. y \in Contexts(R, U)
  BY <1>1, <1>2, InsertMetadataStays, DispatchStays
<1> HIDE DEF y
<1>4. y \in Sound(strict) /\ y.db.uris = R
  BY <1>1, <1>3, SoundIf DEF U
<1>5. QED
  BY <1>1, <1>4 DEF y, r, e, U

\* The contexts in which s may be named.
Ready(strict, s) == {y \in Sound(strict) : s \in Known(strict, y.db.uris)}

\* each of them,
LEMMA SetValuesStay ==
  ASSUME NEW strict \in BOOLEAN,
         NEW st,
         st.s \in Uri,
         st.p \in Prop,
         st.os \in Seq(ValueOf(st.p)),
         NEW x0 \in Ready(strict, st.s)
  PROVE  SetValues(x0, st) \in Ready(strict, st.s)
<1>0. st.os \in Seq(ValueOf(st.p))
  OBVIOUS
<1> DEFINE P == DOMAIN st.os
           Do(x, elt) == SetValue(x, st, elt)
           F == [a \in P \X Ready(strict, st.s) |-> Do(a[2], st.os[a[1]])]
           Step(f) == [z \in SUBSET P |->
             IF z = {} THEN x0 ELSE Do(f[z \ {Max(z)}], st.os[Max(z)])]
           It == CHOOSE f : f = Step(f)
<1>1. SetValues(x0, st) = It[P]
  BY DEF SetValues, FoldLeft, MapThenFoldSet
<1>2. /\ \A k \in P : st.os[k] \in ValueOf(st.p)
      /\ \A z \in SUBSET P : z # {} => Max(z) \in P /\ z \ {Max(z)} \in SUBSET P
  BY ONLY <1>0, Positions
<1>3. \E n \in Nat : P = 1..n
  BY ONLY <1>0, Positions
<1> HIDE DEF P
<1>4. \A k \in P, x \in Ready(strict, st.s) :
        F[<<k, x>>] = Do(x, st.os[k]) /\ F[<<k, x>>] \in Ready(strict, st.s)
  <2>1. ASSUME NEW o \in ValueOf(st.p), NEW x \in Ready(strict, st.s)
        PROVE  SetValue(x, st, o) \in Ready(strict, st.s)
    BY SetValueStays DEF SetValue, Ready
  <2>2. QED
    BY <1>2, <2>1
<1> HIDE DEF F, Do
<1>5. Stays(F, P, Ready(strict, st.s))
  BY <1>4 DEF Stays
<1>6. ASSUME NEW it \in [SUBSET P -> Ready(strict, st.s)], Folds(it, x0, F, P)
      PROVE  FoldsIn(It, x0, F, P, Ready(strict, st.s))
  <2>1. it = Step(it)
    BY <1>2, <1>4, <1>6 DEF Folds
  <2>2. It = Step(It)
    BY <2>1
  <2> HIDE DEF It
  <2>3. QED
    BY <1>2, <1>4, <2>2 DEF FoldsIn
<1> HIDE DEF It
<1>7. It[P] \in Ready(strict, st.s)
  BY ONLY <1>3, <1>5, <1>6, x0 \in Ready(strict, st.s), FoldsStay
<1>8. QED
  BY <1>1, <1>7
\* and all of it.
LEMMA SetResourceStays ==
  ASSUME NEW strict \in BOOLEAN, NEW x \in Sound(strict), NEW st, st.s \in Uri, st.p \in Prop,
         st.os \in Seq(ValueOf(st.p))
  PROVE  RunSetResource(x, st) \in Sound(strict)
<1> DEFINE typed == CreateService(Switch(EnsureResource(x, st.s), st.s), st.s, Domain[st.p])
           done == SetValues(typed, st)
<1>1. Domain[st.p] \in Class
  BY OntologyShape
<1>2. typed \in Sound(strict) /\ st.s \in Known(strict, typed.db.uris)
  BY <1>1, InsertTypeStays
<1>3. RunSetResource(x, st) = [done EXCEPT !.buf.fresh = @ \ {st.s}]
  BY DEF RunSetResource
<1> HIDE DEF typed
<1>4. done \in Ready(strict, st.s)
  BY <1>2, SetValuesStay DEF Ready
<1> HIDE DEF done
<1>5. PICK R \in SUBSET Uri : done \in Contexts(R, Known(strict, R))
  BY <1>4 DEF Sound, Ready
<1>6. [done EXCEPT !.buf.fresh = @ \ {st.s}] \in Contexts(R, Known(strict, R))
  BY <1>5 DEF Contexts, Buffers
<1>7. QED
  BY <1>3, <1>6, SoundIf

\* No statement takes tables, log or buffer out of their types.
LEMMA PerformStays ==
  ASSUME NEW strict \in BOOLEAN, NEW x \in Sound(strict), NEW st \in Statements
  PROVE  Perform(x, st) \in Sound(strict)
<1>1. WellFormed(st)
  BY StatementsAssumption
<1>2. CASE st.kind \in {"INSERT", "LOAD", "DELETE", "REPLACE"}
  <2>1. st.s \in Uri /\ st.p \in Prop /\ st.o \in ValueOf(st.p)
    BY <1>1, <1>2 DEF WellFormed
  <2>2. /\ RunInsert(x, st, FALSE) \in Sound(strict) /\ RunInsert(x, st, TRUE) \in Sound(strict)
        /\ RunReplace(x, st) \in Sound(strict)
    BY <2>1, InsertStays
  <2>3. RunDelete(x, st) \in Sound(strict)
    BY <2>1, DeleteStays
  <2>4. QED
    BY <1>2, <2>2, <2>3 DEF Perform
<1>3. CASE st.kind \in {"INSERT_TYPE", "DELETE_TYPE"}
  <2>1. st.s \in Uri /\ st.o \in Class
    BY <1>1, <1>3 DEF WellFormed
  <2>2. RunInsertType(x, st) \in Sound(strict)
    BY <2>1, InsertTypeStays DEF RunInsertType
  <2>3. RunDeleteType(x, st) \in Sound(strict)
    BY <2>1, RunDeleteTypeStays
  <2>4. QED
    BY <1>3, <2>2, <2>3 DEF Perform
<1>4. CASE st.kind = "REPLACE_NULL"
  <2>1. st.s \in Uri /\ st.p \in Prop
    BY <1>1, <1>4 DEF WellFormed
  <2>2. QED
    BY <1>4, <2>1, ReplaceNullStays DEF Perform
<1>5. CASE st.kind = "SET_RESOURCE"
  <2>1. st.s \in Uri /\ st.p \in Prop /\ st.os \in Seq(ValueOf(st.p))
    BY <1>1, <1>5 DEF WellFormed
  <2>2. QED
    BY <1>5, <2>1, SetResourceStays DEF Perform
<1>6. st.kind \in {"INSERT", "LOAD", "DELETE", "REPLACE", "INSERT_TYPE", "DELETE_TYPE",
                   "REPLACE_NULL", "SET_RESOURCE"}
  BY <1>1 DEF WellFormed
<1>7. QED
  BY <1>2, <1>3, <1>4, <1>5, <1>6

-----------------------------------------------------------------------------
(***************************************************************************)
(* The steps of the store.                                                 *)
(***************************************************************************)
\* The store starts, and a transaction ends, within the types.
LEMMA EmptyIn ==
  ASSUME NEW U \in SUBSET Uri
  PROVE  /\ EmptyDb \in Dbs({}, U)
         /\ EmptyBuffer \in Buffers(U)
         /\ \A b \in Buffers(U) : Flushed(b) \in Buffers(U)
<1>1. \A S : << >> \in [{} -> S]
  OBVIOUS
<1>2. << >> \in Counts /\ << >> \in Resources
  BY <1>1 DEF Counts, Resources
<1>3. {} \in Tables(U)
  BY FS_EmptySet DEF Tables, SingleValues
<1>4. QED
  BY <1>2, <1>3 DEF EmptyDb, EmptyBuffer, Dbs, Buffers, Flushed

\* The databases.
Databases(strict) == UNION {Dbs(R, Known(strict, R)) : R \in SUBSET Uri}
\* The inductive invariant.
SoundStore(strict) ==
  /\ Context \in Sound(strict)
  /\ committed \in Databases(strict)
  /\ inTx \in BOOLEAN /\ ops \in 0..MaxOps

\* Puts a context together,
LEMMA ContextIf ==
  ASSUME NEW strict \in BOOLEAN, NEW R \in SUBSET Uri, NEW d \in Dbs(R, Known(strict, R)),
         NEW b \in Buffers(Known(strict, R)), NEW e \in SUBSET Uri
  PROVE  [db |-> d, buf |-> b, events |-> e, ok |-> TRUE] \in Sound(strict)
<1>1. [db |-> d, buf |-> b, events |-> e, ok |-> TRUE] \in Contexts(R, Known(strict, R))
  BY DEF Contexts
<1>2. QED
  BY <1>1 DEF Sound

\* with an empty buffer,
LEMMA FreshIf ==
  ASSUME NEW strict \in BOOLEAN, NEW d \in Databases(strict), NEW e \in SUBSET Uri
  PROVE  [db |-> d, buf |-> EmptyBuffer, events |-> e, ok |-> TRUE] \in Sound(strict)
<1>1. PICK R \in SUBSET Uri : d \in Dbs(R, Known(strict, R))
  BY DEF Databases
<1>2. Known(strict, R) \in SUBSET Uri
  BY DEF Known
<1>3. QED
  BY <1>1, <1>2, EmptyIn, ContextIf

\* and after a flush.
LEMMA FlushSound ==
  ASSUME NEW strict \in BOOLEAN, NEW x \in Sound(strict)
  PROVE  LET f == Flush(x.db, x.buf)
         IN  f # SqlError =>
               /\ f \in Databases(strict)
               /\ [db |-> f, buf |-> Flushed(x.buf), events |-> x.events, ok |-> TRUE]
                     \in Sound(strict)
               /\ [db |-> Emptied(f), buf |-> Flushed(x.buf), events |-> x.events, ok |-> TRUE]
                     \in Sound(strict)
<1> DEFINE R == x.db.uris
           U == Known(strict, R)
           f == Flush(x.db, x.buf)
<1>1. x \in Contexts(R, U) /\ R \in SUBSET Uri /\ U \in SUBSET Uri
  BY SoundIs
<1>2. x.db \in Dbs(R, U) /\ x.buf \in Buffers(U) /\ x.events \in SUBSET Uri
  BY <1>1 DEF Contexts
<1>3. f \in Dbs(R, U) \cup {SqlError}
  BY <1>1, <1>2, FlushIn
<1>4. Flushed(x.buf) \in Buffers(U)
  BY <1>1, <1>2, EmptyIn
<1> HIDE DEF f, R
<1>5. SUFFICES ASSUME f # SqlError
               PROVE  /\ f \in Databases(strict)
                      /\ [db |-> f, buf |-> Flushed(x.buf), events |-> x.events, ok |-> TRUE]
                            \in Sound(strict)
                      /\ [db |-> Emptied(f), buf |-> Flushed(x.buf), events |-> x.events,
                          ok |-> TRUE] \in Sound(strict)
  BY DEF f
<1>6. f \in Dbs(R, U) /\ f \in Databases(strict)
  BY <1>1, <1>3, <1>5 DEF Databases
<1>7. Emptied(f) \in Dbs(R, U)
  <2>1. << >> \in Counts /\ {} \in Tables(U)
    BY <1>1, EmptyIn DEF EmptyDb, Dbs
  <2>2. QED
    BY <1>6, <2>1 DEF Emptied, Dbs
<1>8. QED
  BY <1>1, <1>2, <1>4, <1>6, <1>7, ContextIf

\* Initially the store is sound.
LEMMA SoundInit ==
  ASSUME NEW strict \in BOOLEAN, Init
  PROVE  SoundStore(strict)
<1>1. EmptyDb \in Databases(strict)
  <2>1. {} \in SUBSET Uri /\ Known(strict, {}) \in SUBSET Uri
    BY DEF Known
  <2>2. QED
    BY <2>1, EmptyIn DEF Databases
<1>2. Context \in Sound(strict)
  BY <1>1, FreshIf DEF Init, Context
<1>3. inTx \in BOOLEAN /\ ops \in 0..MaxOps /\ committed = EmptyDb
  <2>1. inTx = FALSE /\ ops = 0 /\ committed = EmptyDb
    BY DEF Init
  <2>2. inTx \in BOOLEAN
    BY <2>1, Zenon
  <2>3. ops \in 0..MaxOps
    BY <2>1, BoundsAssumption
  <2>4. QED
    BY <2>1, <2>2, <2>3
<1>4. QED
  BY <1>1, <1>2, <1>3 DEF SoundStore

\* An error, a rollback or a crash keeps it so,
LEMMA UndoSound ==
  ASSUME NEW strict \in BOOLEAN, SoundStore(strict), Undo, ops' \in 0..MaxOps
  PROVE  SoundStore(strict)'
<1>1. committed \in Databases(strict)
  BY DEF SoundStore
<1>2. Context' \in Sound(strict)
  BY <1>1, FreshIf DEF Undo, Context
<1>3. QED
  BY <1>1, <1>2 DEF SoundStore, Undo

\* a flush does, of a group, before a WHERE clause, a CLEAR or a COMMIT,
LEMMA FlushStepSound ==
  ASSUME NEW strict \in BOOLEAN, SoundStore(strict), ops' \in 0..MaxOps,
         NEW f, f = Flush(db, buf), f # SqlError,
         buf' = Flushed(buf), db' = f \/ db' = Emptied(f), events' \in {events, {}},
         committed' = committed \/ committed' = f, inTx' \in BOOLEAN
  PROVE  SoundStore(strict)'
<1>1. /\ Context \in Sound(strict) /\ Context.db = db /\ Context.buf = buf
      /\ Context.events = events
  BY DEF SoundStore, Context
<1>2. /\ f \in Databases(strict)
      /\ [db |-> db', buf |-> buf', events |-> events, ok |-> TRUE] \in Sound(strict)
  BY <1>1, FlushSound
<1>3. Context' \in Sound(strict)
  <2>1. PICK R \in SUBSET Uri : [db |-> db', buf |-> buf', events |-> events, ok |-> TRUE]
                                   \in Contexts(R, Known(strict, R))
    BY <1>2 DEF Sound
  <2>2. db' \in Dbs(R, Known(strict, R)) /\ buf' \in Buffers(Known(strict, R))
        /\ events' \in SUBSET Uri
    BY <2>1 DEF Contexts
  <2>3. QED
    BY <2>2, ContextIf DEF Context
<1>4. QED
  BY <1>2, <1>3 DEF SoundStore

\* a statement does,
LEMMA RunSound ==
  ASSUME NEW strict \in BOOLEAN, SoundStore(strict), NEW st \in Statements, Run(st)
  PROVE  SoundStore(strict)'
<1> DEFINE x == Perform(Context, st)
<1>1. x \in Sound(strict)
  BY PerformStays DEF SoundStore
<1>2. ops' \in 0..MaxOps
  BY BoundsAssumption DEF SoundStore, Run
<1>3. CASE ~x.ok
  <2>1. Undo
    BY <1>3 DEF Run
  <2>2. QED
    BY <1>2, <2>1, UndoSound
<1>4. CASE x.ok
  <2>1. db' = x.db /\ buf' = x.buf /\ events' = x.events /\ UNCHANGED <<committed, inTx>>
    BY <1>4 DEF Run
  <2> HIDE DEF x
  <2>2. PICK R \in SUBSET Uri : x \in Contexts(R, Known(strict, R))
    BY <1>1 DEF Sound
  <2>3. Context' \in Sound(strict)
    BY <2>1, <2>2, ContextIf DEF Contexts, Context
  <2>4. QED
    BY <1>2, <2>1, <2>3 DEF SoundStore
<1>5. QED
  BY <1>3, <1>4

\* a silent one keeps the types,
LEMMA RunSilentSound ==
  ASSUME SoundStore(FALSE), NEW st \in Statements, RunSilent(st)
  PROVE  SoundStore(FALSE)'
<1> DEFINE x == Perform(Context, st)
           f == Flush(x.db, x.buf)
<1>1. x \in Sound(FALSE)
  BY PerformStays DEF SoundStore
<1>2. ops' \in 0..MaxOps
  BY BoundsAssumption DEF SoundStore, RunSilent
<1>3. /\ db' = IF x.ok /\ f # SqlError THEN f ELSE db
      /\ buf' = IF x.ok THEN Flushed(x.buf) ELSE x.buf
      /\ events' = x.events /\ UNCHANGED <<committed, inTx>>
  BY DEF RunSilent
<1> HIDE DEF x
<1>4. x.buf \in Buffers(Uri) /\ Flushed(x.buf) \in Buffers(Uri) /\ x.events \in SUBSET Uri
  <2>1. PICK R \in SUBSET Uri : x \in Contexts(R, Uri)
    BY <1>1 DEF Sound, Known
  <2>2. x.buf \in Buffers(Uri) /\ x.events \in SUBSET Uri
    BY <2>1 DEF Contexts
  <2>3. Uri \in SUBSET Uri
    OBVIOUS
  <2>4. QED
    BY <2>2, <2>3, EmptyIn
<1>5. f # SqlError => f \in Databases(FALSE)
  BY <1>1, FlushSound
<1>6. db \in Databases(FALSE)
  <2>1. PICK R \in SUBSET Uri : Context \in Contexts(R, Uri)
    BY DEF SoundStore, Sound, Known
  <2>2. db \in Dbs(R, Uri)
    BY <2>1 DEF Contexts, Context
  <2>3. QED
    BY <2>2 DEF Databases, Known
<1> HIDE DEF f
<1>7. db' \in Databases(FALSE) /\ buf' \in Buffers(Uri) /\ events' \in SUBSET Uri
  BY <1>3, <1>4, <1>5, <1>6
<1>8. Context' \in Sound(FALSE)
  <2>1. PICK R \in SUBSET Uri : db' \in Dbs(R, Uri)
    BY <1>7 DEF Databases, Known
  <2>2. QED
    BY <1>7, <2>1, ContextIf DEF Context, Known
<1>9. QED
  BY <1>2, <1>3, <1>8 DEF SoundStore

\* and so every step, if the clean-up does.
LEMMA SoundStep ==
  ASSUME NEW strict \in BOOLEAN, SoundStore(strict), [Next]_vars, strict => Loud,
         Reopen => Swept(committed) \in Databases(strict)
  PROVE  SoundStore(strict)'
<1>1. CASE Begin
  BY <1>1 DEF Begin, SoundStore, Context
<1>2. ASSUME NEW st \in work \cap Statements, Run(st) PROVE SoundStore(strict)'
  BY <1>2, RunSound
<1>3. ASSUME NEW st \in work \cap Silent, RunSilent(st) PROVE SoundStore(strict)'
  <2>1. st \in Statements
    BY StatementsAssumption
  <2>2. strict = FALSE
    BY DEF Loud
  <2>3. QED
    BY <1>3, <2>1, <2>2, RunSilentSound
<1>4. CASE (EndGroup \/ Where) /\ ~Undo
  <2>1. /\ Flush(db, buf) # SqlError /\ db' = Flush(db, buf) /\ buf' = Flushed(buf)
        /\ UNCHANGED <<committed, inTx, events, ops>>
    BY <1>4 DEF EndGroup, Where, FlushOrUndo
  <2>2. inTx' \in BOOLEAN /\ ops' \in 0..MaxOps
    BY <2>1 DEF SoundStore
  <2>3. QED
    BY <2>1, <2>2, FlushStepSound
<1>5. CASE Clear /\ ~Undo
  <2>1. /\ Flush(db, buf) # SqlError /\ db' = Emptied(Flush(db, buf)) /\ buf' = Flushed(buf)
        /\ UNCHANGED <<committed, inTx, events>> /\ ops < MaxOps /\ ops' = ops + 1
    BY <1>5 DEF Clear
  <2>2. inTx' \in BOOLEAN /\ ops' \in 0..MaxOps
    BY <2>1, BoundsAssumption DEF SoundStore
  <2>3. QED
    BY <2>1, <2>2, FlushStepSound
<1>6. CASE Commit /\ ~Undo
  <2>1. /\ Flush(db, buf) # SqlError /\ db' = Flush(db, buf) /\ buf' = Flushed(buf)
        /\ committed' = Flush(db, buf) /\ inTx' = FALSE /\ events' = {} /\ UNCHANGED ops
    BY <1>6 DEF Commit
  <2>2. inTx' \in BOOLEAN /\ ops' \in 0..MaxOps
    BY <2>1 DEF SoundStore
  <2>3. QED
    BY <2>1, <2>2, FlushStepSound
<1>7. CASE (EndGroup \/ Where \/ Clear \/ Commit \/ Rollback \/ Crash) /\ Undo
  <2>1. ops' \in 0..MaxOps
    BY <1>7, BoundsAssumption DEF SoundStore, EndGroup, Where, Clear, Commit, Rollback, Crash
  <2>2. QED
    BY <1>7, <2>1, UndoSound
<1>8. CASE Reopen
  <2>1. Context' \in Sound(strict)
    <3>1. events \in SUBSET Uri
      <4>1. PICK R \in SUBSET Uri : Context \in Contexts(R, Known(strict, R))
        BY DEF SoundStore, Sound
      <4>2. QED
        BY <4>1 DEF Contexts, Context
    <3>2. db' \in Databases(strict) /\ buf' = EmptyBuffer /\ events' = events
      BY <1>8 DEF Reopen
    <3>3. QED
      BY <3>1, <3>2, FreshIf DEF Context
  <2>2. QED
    BY <1>8, <2>1 DEF Reopen, SoundStore
<1>9. CASE UNCHANGED vars
  BY <1>9 DEF vars, SoundStore, Context
<1>10. Rollback \/ Crash => Undo
  BY DEF Rollback, Crash
<1>11. QED
  BY <1>1, <1>2, <1>3, <1>4, <1>5, <1>6, <1>7, <1>8, <1>9, <1>10 DEF Next

\* The clean-up keeps the types.
LEMMA SweptSound ==
  ASSUME SoundStore(FALSE)
  PROVE  Swept(committed) \in Databases(FALSE)
<1>1. PICK R \in SUBSET Uri : committed \in Dbs(R, Uri)
  BY DEF SoundStore, Databases, Known
<1>2. Swept(committed) \in Dbs(R \cap DOMAIN committed.refs, Uri)
  BY <1>1 DEF Swept, Dbs
<1>3. R \cap DOMAIN committed.refs \in SUBSET Uri
  OBVIOUS
<1>4. QED
  BY <1>2, <1>3 DEF Databases, Known

\* What is sound is of the types TypeOK names.
LEMMA TypesFollow ==
  ASSUME SoundStore(FALSE)
  PROVE  TypeOK
<1>1. PICK R \in SUBSET Uri : Context \in Contexts(R, Uri)
  BY DEF SoundStore, Sound, Known
<1>2. PICK Q \in SUBSET Uri : committed \in Dbs(Q, Uri)
  BY DEF SoundStore, Databases, Known
<1>3. db \in Dbs(R, Uri) /\ buf \in Buffers(Uri) /\ events \in SUBSET Uri
  BY <1>1 DEF Contexts, Context
<1>4. ASSUME NEW N \in SUBSET Uri, NEW d \in Dbs(N, Uri)
      PROVE  /\ d.uris \subseteq Uri
             /\ d.rows \subseteq Uri \X Class
             /\ \A t \in d.vals :
                  \/ t \in Uri \X {RdfType} \X Class
                  \/ t[1] \in Uri /\ t[2] \in Prop /\ t[3] \in ValueOf(t[2])
             /\ DOMAIN d.refs \subseteq Node
             /\ \A s \in Uri, p \in Prop \ Multi : Cardinality(ValuesOf(d, s, p)) <= 1
  <2>1. d.uris \subseteq Uri /\ d.rows \subseteq Uri \X Class /\ DOMAIN d.refs \subseteq Node
    BY DEF Dbs, Counts
  <2>2. d.vals \in Tables(Uri) /\ RdfType \notin Prop
    BY OntologyShape DEF Dbs
  <2>3. ASSUME NEW t \in d.vals
        PROVE  \/ t \in Uri \X {RdfType} \X Class
               \/ t[1] \in Uri /\ t[2] \in Prop /\ t[3] \in ValueOf(t[2])
    <3>1. t \in Uri \X (Prop \cup {RdfType}) \X Object /\ t[3] \in ValueIn(Uri, t[2])
      BY <2>2 DEF Tables, Triples
    <3>2. QED
      BY <2>2, <3>1 DEF ValueIn, ValueOf
  <2>4. ASSUME NEW s \in Uri, NEW p \in Prop \ Multi PROVE Cardinality(ValuesOf(d, s, p)) <= 1
    <3>1. ValuesOf(d, s, p) \in Singles(Uri, p)
      BY <2>2, ValuesIn
    <3>2. CASE ValuesOf(d, s, p) = {}
      BY <3>2, FS_EmptySet
    <3>3. ASSUME NEW o, ValuesOf(d, s, p) = {o} PROVE Cardinality(ValuesOf(d, s, p)) <= 1
      BY <3>3, FS_Singleton
    <3>4. QED
      BY <3>1, <3>2, <3>3 DEF Singles
  <2>5. QED
    BY <2>1, <2>3, <2>4
<1>5. DOMAIN buf.res \subseteq Uri /\ buf.fresh \subseteq Uri /\ buf.cache \subseteq Uri
  BY <1>3 DEF Buffers, Resources
<1>6. QED
  BY <1>2, <1>3, <1>4, <1>5 DEF TypeOK, SoundStore

\* The inductive types of tables, log and buffer hold in every state, for any ontology,
\* any statements, silent ones too, wherever flushes fall and whatever fails: no
\* statement, flush or clean-up leaves a value out of the range of its property or a
\* second value in a single-valued column.
THEOREM StoreTypes == Spec => []TypeOK
<1>1. Init => SoundStore(FALSE)
  BY SoundInit
<1>2. SoundStore(FALSE) /\ [Next]_vars => SoundStore(FALSE)'
  BY SoundStep, SweptSound
<1>3. SoundStore(FALSE) => TypeOK
  BY TypesFollow
<1>4. QED
  BY <1>1, <1>2, <1>3, PTL DEF Spec

-----------------------------------------------------------------------------
(***************************************************************************)
(* Ids.  Each resource is given its Resource row before the log, a table   *)
(* or the cache names it; only the clean-up deletes rows.                  *)
(***************************************************************************)
\* A finite set with an element counts at least one.
LEMMA CountedOnce ==
  ASSUME NEW S, IsFiniteSet(S), NEW e \in S
  PROVE  Cardinality(S) \in Nat /\ Cardinality(S) >= 1
<1>1. Cardinality(S) \in Nat /\ Cardinality(S) # 0
  BY FS_CardinalityType, FS_EmptySet
<1>2. QED
  BY <1>1

\* An id with a type or in a value has a Refcount row, if Refcount covers References.
LEMMA CoveredIds ==
  ASSUME NEW d, d.vals \in Tables(Uri), NEW x \in Node, References(d, x) <= Refcount(d, x),
         NEW t \in d.vals, t[3] = x \/ (TypesIn(d, x) # {} /\ x \in Uri)
  PROVE  x \in DOMAIN d.refs
<1> DEFINE types == TypesIn(d, x)
           links == {u \in d.vals : u[1] = x /\ u[2] \in Multi \cap Links}
           uses  == {u \in d.vals : u[3] = x}
<1>1. IsFiniteSet(links) /\ IsFiniteSet(uses)
  BY FS_Subset DEF Tables
<1>2. Cardinality(links) \in Nat /\ Cardinality(uses) \in Nat
  BY <1>1, FS_CardinalityType
<1>3. Cardinality(types) \in Nat
  <2>1. IsFiniteSet(types)
    <3>1. CASE x \in Uri
      BY <3>1, ValuesIn DEF TypesIn
    <3>2. CASE x \notin Uri
      <4>1. types = {}
        BY <3>2 DEF TypesIn, ValuesOf, Tables, Triples
      <4>2. QED
        BY <4>1, FS_EmptySet
    <3>3. QED
      BY <3>1, <3>2
  <2>2. QED
    BY <2>1, FS_CardinalityType
<1>4. Cardinality(types) >= 1 \/ Cardinality(uses) >= 1
  <2>1. CASE t[3] = x
    BY <1>1, <2>1, CountedOnce
  <2>2. CASE types # {} /\ x \in Uri
    <3>1. IsFiniteSet(types)
      BY <2>2, ValuesIn DEF TypesIn
    <3>2. QED
      BY <2>2, <3>1, CountedOnce
  <2>3. QED
    BY <2>1, <2>2
<1>5. References(d, x) = 2 * Cardinality(types) + Cardinality(links) + Cardinality(uses)
  BY DEF References
<1> HIDE DEF types, links, uses
<1>6. References(d, x) >= 1 /\ References(d, x) \in Nat
  BY <1>2, <1>3, <1>4, <1>5
<1>7. Refcount(d, x) # 0
  BY <1>6
<1>8. QED
  BY <1>7 DEF Refcount

\* The clean-up then leaves every id the tables name.
LEMMA StrictSwept ==
  ASSUME SoundStore(TRUE), Quiet, ~inTx, RefcountCovers, ClassInference
  PROVE  Swept(committed) \in Databases(TRUE)
<1>1. PICK R \in SUBSET Uri : committed \in Dbs(R, R)
  BY DEF SoundStore, Databases, Known
<1>2. db = committed
  BY DEF Quiet
<1> DEFINE K == R \cap DOMAIN committed.refs
<1>3. committed.vals \in Tables(R) /\ committed.vals \in Tables(Uri)
  <2>1. committed.vals \in Tables(R)
    BY <1>1 DEF Dbs
  <2>2. QED
    BY <2>1, MoreKnown
<1>4. ASSUME NEW t \in committed.vals PROVE t \in Triples(K)
  <2>1. t \in R \X (Prop \cup {RdfType}) \X Object /\ t[3] \in ValueIn(R, t[2])
    BY <1>3 DEF Tables, Triples
  <2>2. t[1] \in Uri /\ t[1] \in Node
    BY <2>1 DEF Node
  <2>3. TypesIn(committed, t[1]) # {}
    <3>1. CASE t[2] = RdfType
      <4>1. t = <<t[1], RdfType, t[3]>> /\ t[3] \in Object
        BY <2>1, <3>1
      <4>2. QED
        BY <4>1 DEF TypesIn, ValuesOf
    <3>2. CASE t[2] # RdfType
      BY <1>2, <3>2 DEF ClassInference
    <3>3. QED
      BY <3>1, <3>2
  <2>4. \A x \in Node : References(committed, x) <= Refcount(committed, x)
    BY <1>2 DEF RefcountCovers
  <2>5. t[1] \in K
    BY <1>3, <2>1, <2>2, <2>3, <2>4, CoveredIds
  <2>6. t[2] \in Links /\ t[2] # RdfType => t[3] \in K
    <3>1. SUFFICES ASSUME t[2] \in Links, t[2] # RdfType PROVE t[3] \in K
      OBVIOUS
    <3>2. t[3] \in R /\ t[3] \in Node
      BY <2>1, <3>1 DEF ValueIn, Node
    <3>3. QED
      BY <1>3, <2>4, <3>2, CoveredIds
  <2>7. t[3] \in ValueIn(K, t[2])
    BY <2>1, <2>6 DEF ValueIn
  <2>8. QED
    BY <2>1, <2>5, <2>7 DEF Triples
<1>5. committed.vals \in Tables(K)
  BY <1>3, <1>4 DEF Tables
<1>6. Swept(committed) \in Dbs(K, K)
  <2>1. committed.uris = R
    BY <1>1 DEF Dbs
  <2>2. QED
    BY <1>1, <1>5, <2>1 DEF Swept, Dbs
<1>7. K \in SUBSET Uri
  OBVIOUS
<1>8. QED
  BY <1>6, <1>7 DEF Databases, Known

\* The inductive invariant, when no statement is silent.
Strict == Loud => SoundStore(TRUE)

\* Unless a statement is silent, tables, log and buffer name ids of the Resource table only.
LEMMA StrictStep ==
  ASSUME Strict, Quiet, RefcountCovers, ClassInference, [Next]_vars
  PROVE  Strict'
<1>1. Loud' = Loud
  BY DEF Next, vars, Loud
<1>2. SUFFICES ASSUME Loud PROVE SoundStore(TRUE)'
  BY <1>1 DEF Strict
<1>3. Reopen => Swept(committed) \in Databases(TRUE)
  BY <1>2, StrictSwept DEF Reopen, Strict
<1>4. QED
  BY <1>2, <1>3, SoundStep DEF Strict

\* That says no id dangles.
LEMMA NothingDangles ==
  ASSUME Strict
  PROVE  NoDanglingIds
<1>1. SUFFICES ASSUME Loud
               PROVE  /\ \A t \in db.vals : {t[1], t[3]} \cap Uri \subseteq db.uris
                      /\ buf.cache \subseteq db.uris
  BY DEF NoDanglingIds
<1>2. PICK R \in SUBSET Uri : Context \in Contexts(R, R)
  BY <1>1 DEF Strict, SoundStore, Sound, Known
<1>3. db \in Dbs(R, R) /\ buf \in Buffers(R)
  BY <1>2 DEF Contexts, Context
<1>4. db.uris = R /\ db.vals \in Tables(R) /\ buf.cache \subseteq R
  BY <1>3 DEF Dbs, Buffers
<1>5. ASSUME NEW t \in db.vals PROVE {t[1], t[3]} \cap Uri \subseteq R
  <2>1. t[1] \in R /\ t[3] \in ValueIn(R, t[2])
    BY <1>4 DEF Tables, Triples
  <2>2. QED
    BY <2>1, IdsDistinct DEF ValueIn
<1>6. QED
  BY <1>4, <1>5

\* No id dangles, as long as the tables are what the log means them to be: if the
\* Refcount rows cover the references and each resource has the classes its properties
\* belong to, then no sequence of statements, flushes, rollbacks, crashes and clean-ups
\* leaves a table or the resource cache with an id that has no Resource row.
THEOREM IdsResolve == Spec /\ []RefcountCovers /\ []ClassInference => []NoDanglingIds
<1>1. Init => Strict /\ Quiet
  BY SoundInit, QuietInit DEF Strict
<1>2. Strict /\ Quiet /\ RefcountCovers /\ ClassInference /\ [Next]_vars => Strict' /\ Quiet'
  BY StrictStep, QuietStep
<1>3. Strict => NoDanglingIds
  BY NothingDangles
<1>4. QED
  BY <1>1, <1>2, <1>3, PTL DEF Spec
=============================================================================
