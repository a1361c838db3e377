----------------------- MODULE DirectConnectionProofs -----------------------
(***************************************************************************)
(* Theorems about DirectConnection, for any calls and any number of        *)
(* threads.  IInv is the inductive invariant: who holds update_mutex, who  *)
(* is in the queue or in the thread of the pool, what is stored, and, once *)
(* close() has gone that far, that nobody is left inside.                  *)
(***************************************************************************)
EXTENDS DirectConnection, SequenceTheorems, TLAPS

Holding == {"locked", "writing", "written", "failed"}

\* The mutex is held by the one update past Lock; its transaction is the open one.
Mutex ==
  \A u \in Updates :
    /\ phase[u] \in Holding <=> owner = u
    /\ phase[u] = "writing" <=> tx = u
    /\ u \in Async /\ phase[u] \in Holding => worker = u

\* An accepted task is once in the queue, or in the thread.
Tasks ==
  /\ \A i \in DOMAIN queue :
       queue[i] \in Updates => phase[queue[i]] = "queued" /\ queue[i] # worker
  /\ \A i, k \in DOMAIN queue : queue[i] = queue[k] /\ queue[i] \in Updates => i = k
  /\ worker \in Updates => phase[worker] \in Holding \cup {"queued"}

\* What is stored, by the phase and the answer of its call.
Outcome ==
  /\ \A i, k \in DOMAIN store : store[i] = store[k] => i = k
  /\ \A u \in Updates :
       /\ Stored(u) => phase[u] \in {"written", "returned"}
       /\ phase[u] = "written" => Stored(u)
       /\ phase[u] # "returned" => answer[u] = "none"
       /\ answer[u] = "ok" => Stored(u)
       /\ answer[u] \in {"error", "closed"} => ~Stored(u)

\* What a query must see is stored from the start, and within what it reads.
Reads ==
  \A q \in Queries :
    /\ \A u \in known[q] : Stored(u)
    /\ phase[q] = "reading" =>
         seen[q] <= Len(store) /\ \A u \in known[q] : \E i \in 1 .. seen[q] : store[i] = u

IInv == TypeOK /\ Mutex /\ Tasks /\ Outcome /\ Reads

-----------------------------------------------------------------------------
(***************************************************************************)
(* Type correctness.                                                       *)
(***************************************************************************)
USE DEF Call

\* Append and Tail keep the type of a sequence.
LEMMA AppendType ==
  ASSUME NEW S, NEW s \in Seq(S), NEW e \in S
  PROVE  Append(s, e) \in Seq(S)
  OBVIOUS

\* What Append leaves where it was, and what it adds.
LEMMA AppendElements ==
  ASSUME NEW S, NEW s \in Seq(S), NEW e \in S
  PROVE  /\ Len(s) \in Nat /\ DOMAIN s = 1 .. Len(s)
         /\ DOMAIN Append(s, e) = 1 .. Len(s) + 1
         /\ \A i \in DOMAIN s : Append(s, e)[i] = s[i]
         /\ Append(s, e)[Len(s) + 1] = e
  OBVIOUS

LEMMA TypeInit == Init => TypeOK
  BY CallAssumption DEF Init, TypeOK, Phase, Answer, Stage

LEMMA TypeStep == TypeOK /\ [Next]_vars => TypeOK'
<1> SUFFICES ASSUME TypeOK, [Next]_vars PROVE TypeOK'
  OBVIOUS
<1> USE CallAssumption DEF TypeOK, Phase, Answer, Stage, calls, locks, history
<1>1. ASSUME NEW c \in Call, Enter(c) PROVE TypeOK'
  BY <1>1 DEF Enter, Confirmed
<1>2. ASSUME NEW c \in Call, Cancel(c) PROVE TypeOK'
  BY <1>2 DEF Cancel
<1>3. ASSUME NEW u \in Updates, PushUpdate(u) PROVE TypeOK'
  <2>1. u \in Task /\ u \in Updates \cap Async
    BY <1>3 DEF PushUpdate, Task
  <2>2. Append(queue, u) \in Seq(Task) /\ Append(pushed, u) \in Seq(Updates \cap Async)
    BY <2>1, AppendType
  <2>3. queue' \in Seq(Task) /\ pushed' \in Seq(Updates \cap Async)
    BY <1>3, <2>2 DEF PushUpdate
  <2>4. QED
    BY <1>3, <2>3 DEF PushUpdate
<1>4. ASSUME NEW u \in Updates, Lock(u) PROVE TypeOK'
  BY <1>4 DEF Lock
<1>5. ASSUME NEW u \in Updates, BeginTransaction(u) PROVE TypeOK'
  BY <1>5 DEF BeginTransaction
<1>6. ASSUME NEW u \in Updates, EndTransaction(u) PROVE TypeOK'
  <2>1. Append(store, u) \in Seq(Updates)
    BY AppendType
  <2>2. store' \in Seq(Updates)
    BY <1>6, <2>1 DEF EndTransaction
  <2>3. QED
    BY <1>6, <2>2 DEF EndTransaction
<1>7. ASSUME NEW u \in Updates, ReturnUpdate(u) PROVE TypeOK'
  BY <1>7 DEF ReturnUpdate, Return, Told
<1>8. ASSUME NEW q \in Queries, PushQuery(q) PROVE TypeOK'
  BY <1>8 DEF PushQuery
<1>9. ASSUME NEW q \in Queries, StartQuery(q) PROVE TypeOK'
  <2>1. phase' \in [Call -> Phase] /\ answer' \in [Call -> Answer]
    BY <1>9 DEF StartQuery, Return, Told
  <2>2. Len(store) \in Nat
    OBVIOUS
  <2>3. seen' = [seen EXCEPT ![q] = Len(store)] \/ seen' = seen
    BY <1>9 DEF StartQuery
  <2>4. seen' \in [Queries -> Nat]
    BY <2>2, <2>3
  <2>5. QED
    BY <1>9, <2>1, <2>4 DEF StartQuery
<1>10. ASSUME NEW q \in Queries, EndQuery(q) PROVE TypeOK'
  <2>1. phase' \in [Call -> Phase] /\ answer' \in [Call -> Answer]
    BY <1>10 DEF EndQuery, Return, Told
  <2>2. QED
    BY <1>10, <2>1 DEF EndQuery
<1>11. CASE TakeUpdate
  BY <1>11 DEF TakeUpdate
<1>12. CASE ReleaseMemory
  BY <1>12 DEF ReleaseMemory
<1>13. CASE Timeout
  <2>1. Append(queue, Release) \in Seq(Task)
    BY AppendType DEF Task
  <2>2. QED
    BY <1>13, <2>1 DEF Timeout
<1>14. CASE Close \/ CloseSteps
  <2>1. closing' \in Stage
    BY <1>14 DEF Close, CloseSteps, StopTimer, StopUpdates, FreeUpdates, Shutdown, CloseStep
  <2>2. queue' = << >> \/ queue' = queue
    BY <1>14 DEF Close, CloseSteps, StopTimer, StopUpdates, FreeUpdates, Shutdown
  <2>3. queue \in Seq(Task) /\ << >> \in Seq(Task)
    BY EmptySeq
  <2>4. queue' \in Seq(Task)
    BY <2>2, <2>3
  <2>5. QED
    BY <1>14, <2>1, <2>4 DEF Close, CloseSteps, StopTimer, StopUpdates, FreeUpdates, Shutdown
<1>15. CASE UNCHANGED vars
  BY <1>15 DEF vars
<1>16. QED
  BY <1>1, <1>2, <1>3, <1>4, <1>5, <1>6, <1>7, <1>8, <1>9, <1>10, <1>11, <1>12, <1>13,
     <1>14, <1>15 DEF Next, UpdateStep, QueryStep

\* Every variable keeps its type, whatever the calls are.
THEOREM TypeCorrect == Spec => []TypeOK
<1>1. Init => TypeOK
  BY TypeInit
<1>2. TypeOK /\ [Next]_vars => TypeOK'
  BY TypeStep
<1>3. QED
  BY <1>1, <1>2, PTL DEF Spec

-----------------------------------------------------------------------------
(***************************************************************************)
(* Mutual exclusion.                                                       *)
(***************************************************************************)
\* Queries, cancellations and close() leave the phases and answers of the updates.
LEMMA UpdatesUntouched ==
  ASSUME TypeOK,
         \/ \E c \in Call : Cancel(c)
         \/ \E q \in Queries : Enter(q) \/ QueryStep(q)
         \/ Timeout \/ Close \/ CloseSteps
         \/ UNCHANGED vars
  PROVE  /\ \A u \in Updates : phase'[u] = phase[u] /\ answer'[u] = answer[u]
         /\ UNCHANGED <<worker, owner, tx, store>>
<1> USE CallAssumption DEF TypeOK, calls, locks
<1>1. ASSUME NEW c \in Call, Cancel(c) PROVE UNCHANGED <<phase, answer, worker, owner, tx, store>>
  BY <1>1 DEF Cancel
<1>2. ASSUME NEW q \in Queries, Enter(q) \/ PushQuery(q) \/ StartQuery(q) \/ EndQuery(q)
      PROVE  /\ \A u \in Updates : phase'[u] = phase[u] /\ answer'[u] = answer[u]
             /\ UNCHANGED <<worker, owner, tx, store>>
  <2>1. \A u \in Updates : u # q
    OBVIOUS
  <2>2. UNCHANGED <<worker, owner, tx, store>>
    BY <1>2 DEF Enter, PushQuery, StartQuery, EndQuery
  <2>3. /\ \E p : phase' = [phase EXCEPT ![q] = p]
        /\ \/ UNCHANGED answer
           \/ \E a : answer' = [answer EXCEPT ![q] = a]
    BY <1>2 DEF Enter, PushQuery, StartQuery, EndQuery, Return
  <2>4. QED
    BY <2>1, <2>2, <2>3
<1>3. CASE Timeout
  BY <1>3 DEF Timeout
<1>4. CASE Close \/ CloseSteps
  BY <1>4 DEF Close, CloseSteps, StopTimer, StopUpdates, FreeUpdates, Shutdown
<1>5. CASE UNCHANGED vars
  BY <1>5 DEF vars
<1>6. QED
  BY <1>1, <1>2, <1>3, <1>4, <1>5 DEF QueryStep

LEMMA MutexInit == Init => Mutex
  BY CallAssumption DEF Init, Mutex, Holding

LEMMA MutexStep == TypeOK /\ Mutex /\ [Next]_vars => Mutex'
<1> SUFFICES ASSUME TypeOK, Mutex, [Next]_vars PROVE Mutex'
  OBVIOUS
<1> USE CallAssumption DEF TypeOK, Mutex, Holding, Task, calls, locks
<1>1. ASSUME NEW u \in Updates, Enter(u) PROVE Mutex'
  BY <1>1 DEF Enter
<1>2. ASSUME NEW u \in Updates, PushUpdate(u) PROVE Mutex'
  BY <1>2 DEF PushUpdate
<1>3. ASSUME NEW u \in Updates, Lock(u) PROVE Mutex'
  BY <1>3 DEF Lock
<1>4. ASSUME NEW u \in Updates, BeginTransaction(u) PROVE Mutex'
  BY <1>4 DEF BeginTransaction
<1>5. ASSUME NEW u \in Updates, EndTransaction(u) PROVE Mutex'
  BY <1>5 DEF EndTransaction
<1>6. ASSUME NEW u \in Updates, ReturnUpdate(u) PROVE Mutex'
  BY <1>6 DEF ReturnUpdate, Return
<1>7. CASE TakeUpdate
  BY <1>7 DEF TakeUpdate
<1>8. CASE ReleaseMemory
  BY <1>8 DEF ReleaseMemory
<1>9. CASE \/ \E c \in Call : Cancel(c)
           \/ \E q \in Queries : Enter(q) \/ QueryStep(q)
           \/ Timeout \/ Close \/ CloseSteps
           \/ UNCHANGED vars
  BY <1>9, UpdatesUntouched
<1>10. QED
  BY <1>1, <1>2, <1>3, <1>4, <1>5, <1>6, <1>7, <1>8, <1>9 DEF Next, UpdateStep

LEMMA MutexExcludes == Mutex => OneWriter
  BY DEF Mutex, Holding, OneWriter

\* Two updates are never past the lock together, and the transaction that is open
\* is that of the update that holds it.
THEOREM MutualExclusion == Spec => []OneWriter
<1>1. Init => TypeOK /\ Mutex
  BY TypeInit, MutexInit
<1>2. TypeOK /\ Mutex /\ [Next]_vars => TypeOK' /\ Mutex'
  BY TypeStep, MutexStep
<1>3. Mutex => OneWriter
  BY MutexExcludes
<1>4. QED
  BY <1>1, <1>2, <1>3, PTL DEF Spec

-----------------------------------------------------------------------------
(***************************************************************************)
(* Tasks: an update that runs is one its caller waits for.                 *)
(***************************************************************************)
LEMMA TasksInit == Init => Tasks
  BY CallAssumption DEF Init, Tasks

LEMMA TasksStep == TypeOK /\ Mutex /\ Tasks /\ [Next]_vars => Tasks'
<1> SUFFICES ASSUME TypeOK, Mutex, Tasks, [Next]_vars PROVE Tasks'
  OBVIOUS
<1>0. Len(queue) \in Nat /\ DOMAIN queue = 1 .. Len(queue)
  BY DEF TypeOK
<1> USE <1>0, CallAssumption DEF TypeOK, Tasks, Task, calls, locks
<1>1. ASSUME NEW u \in Updates, Enter(u) PROVE Tasks'
  BY <1>1 DEF Enter, Holding
<1>2. ASSUME NEW u \in Updates, PushUpdate(u) PROVE Tasks'
  <2>1. phase[u] = "entered" /\ phase' = [phase EXCEPT ![u] = "queued"] /\ worker' = worker
    BY <1>2 DEF PushUpdate
  <2>2. CASE queue' = queue
    BY <2>1, <2>2 DEF Holding
  <2>3. CASE queue' = Append(queue, u)
    <3>1. u \in Task /\ worker # u
      BY <1>2, <2>1 DEF PushUpdate, Holding
    <3>2. /\ DOMAIN queue' = 1 .. Len(queue) + 1
          /\ \A i \in DOMAIN queue : queue'[i] = queue[i] /\ queue[i] # u
          /\ queue'[Len(queue) + 1] = u
      BY <2>1, <2>3, <3>1, AppendElements
    <3>3. \A i \in DOMAIN queue' :
            queue'[i] \in Updates => phase'[queue'[i]] = "queued" /\ queue'[i] # worker'
      BY <2>1, <3>1, <3>2
    <3>4. \A i, k \in DOMAIN queue' : queue'[i] = queue'[k] /\ queue'[i] \in Updates => i = k
      BY <3>2
    <3>5. worker' \in Updates => phase'[worker'] \in Holding \cup {"queued"}
      BY <2>1
    <3>6. QED
      BY <3>3, <3>4, <3>5
  <2>4. QED
    BY <1>2, <2>2, <2>3 DEF PushUpdate
<1>3. ASSUME NEW u \in Updates, Lock(u) PROVE Tasks'
  BY <1>3 DEF Lock, Holding
<1>4. ASSUME NEW u \in Updates, BeginTransaction(u) PROVE Tasks'
  BY <1>4 DEF BeginTransaction, Holding
<1>5. ASSUME NEW u \in Updates, EndTransaction(u) PROVE Tasks'
  BY <1>5 DEF EndTransaction, Holding
<1>6. ASSUME NEW u \in Updates, ReturnUpdate(u) PROVE Tasks'
  BY <1>6 DEF ReturnUpdate, Return, Holding, Mutex
<1>7. CASE TakeUpdate
  <2>1. /\ worker' = queue[1] /\ queue # << >> /\ phase' = phase
        /\ queue' = Tail(queue)
    BY <1>7 DEF TakeUpdate
  <2>2. /\ DOMAIN queue' = 1 .. Len(queue) - 1
        /\ \A i \in DOMAIN queue' : queue'[i] = queue[i + 1] /\ i + 1 \in DOMAIN queue
        /\ 1 \in DOMAIN queue
    BY <2>1, HeadTailProperties
  <2>3. QED
    BY <2>1, <2>2 DEF Holding
<1>8. CASE ReleaseMemory
  BY <1>8 DEF ReleaseMemory
<1>9. CASE Timeout
  <2>1. Release \in Task /\ queue' = Append(queue, Release) /\ phase' = phase /\ worker' = worker
    BY <1>9 DEF Timeout
  <2>2. /\ DOMAIN queue' = 1 .. Len(queue) + 1
        /\ \A i \in DOMAIN queue : queue'[i] = queue[i]
        /\ queue'[Len(queue) + 1] = Release /\ Release \notin Updates
    BY <2>1, AppendElements
  <2>3. QED
    BY <2>1, <2>2
<1>10. CASE \/ \E c \in Call : Cancel(c)
            \/ \E q \in Queries : Enter(q) \/ QueryStep(q)
            \/ Close \/ CloseSteps
            \/ UNCHANGED vars
  <2>1. /\ \A u \in Updates : phase'[u] = phase[u]
        /\ worker' = worker
    BY <1>10, UpdatesUntouched
  <2>2. queue' = queue \/ queue' = << >>
    BY <1>10 DEF Cancel, Enter, QueryStep, PushQuery, StartQuery, EndQuery, Close,
       CloseSteps, StopTimer, StopUpdates, FreeUpdates, Shutdown, vars
  <2>3. CASE queue' = queue
    BY <2>1, <2>3 DEF Holding
  <2>4. CASE queue' = << >>
    BY <2>1, <2>4 DEF Holding
  <2>5. QED
    BY <2>2, <2>3, <2>4
<1>11. QED
  BY <1>1, <1>2, <1>3, <1>4, <1>5, <1>6, <1>7, <1>8, <1>9, <1>10 DEF Next, UpdateStep

-----------------------------------------------------------------------------
(***************************************************************************)
(* What is stored, and what callers are told.                              *)
(***************************************************************************)
LEMMA OutcomeInit == Init => Outcome
  BY CallAssumption DEF Init, Outcome, Stored

LEMMA OutcomeStep == TypeOK /\ Mutex /\ Tasks /\ Outcome /\ [Next]_vars => Outcome'
<1> SUFFICES ASSUME TypeOK, Mutex, Tasks, Outcome, [Next]_vars PROVE Outcome'
  OBVIOUS
<1>0. Len(store) \in Nat /\ DOMAIN store = 1 .. Len(store)
  BY DEF TypeOK
<1> USE CallAssumption DEF TypeOK, Outcome, Stored, calls, locks
<1>1. ASSUME NEW u \in Updates, Enter(u) PROVE Outcome'
  BY <1>1 DEF Enter
<1>2. ASSUME NEW u \in Updates, PushUpdate(u) PROVE Outcome'
  BY <1>2 DEF PushUpdate
<1>3. ASSUME NEW u \in Updates, Lock(u) PROVE Outcome'
  <2>1. phase[u] \in {"entered", "queued"}
    BY <1>3 DEF Lock, Mutex, Tasks, Holding
  <2>2. QED
    BY <1>3, <2>1 DEF Lock
<1>4. ASSUME NEW u \in Updates, BeginTransaction(u) PROVE Outcome'
  BY <1>4 DEF BeginTransaction
<1>5. ASSUME NEW u \in Updates, EndTransaction(u) PROVE Outcome'
  <2>1. phase[u] = "writing" /\ ~Stored(u) /\ answer' = answer
    BY <1>5 DEF EndTransaction
  <2>2. CASE phase' = [phase EXCEPT ![u] = "failed"] /\ store' = store
    BY <2>1, <2>2
  <2>3. CASE phase' = [phase EXCEPT ![u] = "written"] /\ store' = Append(store, u)
    <3>1. /\ DOMAIN store' = 1 .. Len(store) + 1
          /\ \A i \in DOMAIN store : store'[i] = store[i] /\ store[i] # u
          /\ store'[Len(store) + 1] = u
      BY <2>1, <2>3, AppendElements
    <3>2. \A i, k \in DOMAIN store' : store'[i] = store'[k] => i = k
      BY <1>0, <3>1
    <3>3. ASSUME NEW v \in Updates PROVE Stored(v)' <=> Stored(v) \/ v = u
      <4>1. Stored(v) => Stored(v)'
        BY <1>0, <3>1
      <4>2. Len(store) + 1 \in DOMAIN store'
        BY <1>0, <3>1
      <4>3. v = u => Stored(v)'
        BY <3>1, <4>2
      <4>4. Stored(v)' => Stored(v) \/ v = u
        BY <1>0, <3>1
      <4>5. QED
        BY <4>1, <4>3, <4>4
    <3>4. QED
      BY <2>1, <2>3, <3>2, <3>3
  <2>4. QED
    BY <1>5, <2>2, <2>3 DEF EndTransaction
<1>6. ASSUME NEW u \in Updates, ReturnUpdate(u) PROVE Outcome'
  BY <1>6 DEF ReturnUpdate, Return, Told
<1>7. CASE TakeUpdate \/ ReleaseMemory
  BY <1>7 DEF TakeUpdate, ReleaseMemory
<1>8. CASE \/ \E c \in Call : Cancel(c)
           \/ \E q \in Queries : Enter(q) \/ QueryStep(q)
           \/ Timeout \/ Close \/ CloseSteps
           \/ UNCHANGED vars
  BY <1>8, UpdatesUntouched
<1>9. QED
  BY <1>1, <1>2, <1>3, <1>4, <1>5, <1>6, <1>7, <1>8 DEF Next, UpdateStep

\* An update is stored at most once, its caller is told of success only when it is
\* stored and of failure only when it is not, whatever the threads do.
THEOREM Truthful == Spec => []AnswersTruthful
<1>1. Init => TypeOK /\ Mutex /\ Tasks /\ Outcome
  BY TypeInit, MutexInit, TasksInit, OutcomeInit
<1>2. TypeOK /\ Mutex /\ Tasks /\ Outcome /\ [Next]_vars
        => TypeOK' /\ Mutex' /\ Tasks' /\ Outcome'
  BY TypeStep, MutexStep, TasksStep, OutcomeStep
<1>3. Outcome => AnswersTruthful
  BY DEF Outcome, AnswersTruthful
<1>4. QED
  BY <1>1, <1>2, <1>3, PTL DEF Spec

-----------------------------------------------------------------------------
(***************************************************************************)
(* What queries read.                                                      *)
(***************************************************************************)
LEMMA ReadsInit == Init => Reads
  BY CallAssumption DEF Init, Reads

\* The store only grows.
LEMMA StoreGrows ==
  ASSUME TypeOK, [Next]_vars
  PROVE  /\ Len(store) <= Len(store')
         /\ \A i \in 1 .. Len(store) : store'[i] = store[i]
<1>1. Len(store) \in Nat
  BY DEF TypeOK
<1>2. ASSUME store' # store PROVE \E u \in Updates : store' = Append(store, u)
  BY <1>2 DEF Next, UpdateStep, QueryStep, CloseSteps, Enter, Cancel, PushUpdate, Lock,
     BeginTransaction, EndTransaction, ReturnUpdate, PushQuery, StartQuery, EndQuery,
     TakeUpdate, ReleaseMemory, Timeout, Close, StopTimer, StopUpdates, FreeUpdates,
     Shutdown, vars
<1>3. ASSUME NEW u \in Updates, store' = Append(store, u)
      PROVE  /\ Len(store') = Len(store) + 1
             /\ \A i \in 1 .. Len(store) : store'[i] = store[i]
  BY <1>3 DEF TypeOK
<1>4. QED
  BY <1>1, <1>2, <1>3

LEMMA ReadsStep == TypeOK /\ Outcome /\ Reads /\ [Next]_vars => Reads'
<1> SUFFICES ASSUME TypeOK, Outcome, Reads, [Next]_vars, NEW q \in Queries
             PROVE  /\ \A u \in known'[q] : Stored(u)'
                    /\ phase'[q] = "reading" =>
                         /\ seen'[q] <= Len(store')
                         /\ \A u \in known'[q] : \E i \in 1 .. seen'[q] : store'[i] = u
  BY DEF Reads
<1>0. /\ Len(store) \in Nat /\ DOMAIN store = 1 .. Len(store)
      /\ Len(store') \in Nat /\ DOMAIN store' = 1 .. Len(store')
      /\ seen[q] \in Nat /\ known[q] \subseteq Updates
  BY TypeStep DEF TypeOK
<1>1. \A u \in Updates : Stored(u) => Stored(u)'
  BY <1>0, StoreGrows DEF Stored
<1>2. CASE Enter(q)
  <2>1. known'[q] = Confirmed /\ phase'[q] # "reading"
    BY <1>2 DEF Enter, TypeOK
  <2>2. \A u \in Confirmed : u \in Updates /\ Stored(u)
    BY DEF Confirmed, Outcome
  <2>3. QED
    BY <1>1, <2>1, <2>2
<1>3. CASE StartQuery(q)
  <2>1. known' = known /\ store' = store
    BY <1>3 DEF StartQuery, history
  <2>2. phase'[q] = "reading" => seen'[q] = Len(store)
    BY <1>3 DEF StartQuery, Return, TypeOK
  <2>3. \A u \in known[q] : \E i \in 1 .. Len(store) : store[i] = u
    BY <1>0 DEF Reads, Stored
  <2>4. QED
    BY <1>0, <1>1, <2>1, <2>2, <2>3 DEF Reads
<1>4. CASE ~Enter(q) /\ ~StartQuery(q)
  <2>1. known'[q] = known[q] /\ seen'[q] = seen[q]
    <3>1. ASSUME NEW c \in Call, Enter(c) PROVE known'[q] = known[q] /\ seen' = seen
      BY <1>4, <3>1 DEF Enter, TypeOK
    <3>2. ASSUME NEW p \in Queries, StartQuery(p) PROVE known' = known /\ seen'[q] = seen[q]
      BY <1>4, <3>2 DEF StartQuery, TypeOK, history
    <3>3. ASSUME NEW u \in Updates, UpdateStep(u) PROVE known' = known /\ seen' = seen
      BY <3>3 DEF UpdateStep, PushUpdate, Lock, BeginTransaction, EndTransaction,
         ReturnUpdate, history
    <3>4. ASSUME NEW p \in Queries, PushQuery(p) \/ EndQuery(p)
          PROVE  known' = known /\ seen' = seen
      BY <3>4 DEF PushQuery, EndQuery, history
    <3>5. CASE (\E c \in Call : Cancel(c)) \/ UNCHANGED vars
      BY <3>5 DEF Cancel, history, vars
    <3>6. CASE TakeUpdate \/ ReleaseMemory \/ Timeout \/ Close \/ CloseSteps
      BY <3>6 DEF TakeUpdate, ReleaseMemory, Timeout, Close, CloseSteps, StopTimer,
         StopUpdates, FreeUpdates, Shutdown, history
    <3>7. QED
      BY <3>1, <3>2, <3>3, <3>4, <3>5, <3>6 DEF Next, QueryStep
  <2>2. phase'[q] = "reading" => phase[q] = "reading"
    <3>1. ASSUME NEW c \in Call, Enter(c) PROVE phase'[q] = "reading" => phase[q] = "reading"
      BY <1>4, <3>1 DEF Enter, TypeOK
    <3>2. ASSUME NEW p \in Queries, StartQuery(p)
          PROVE  phase'[q] = "reading" => phase[q] = "reading"
      BY <1>4, <3>2 DEF StartQuery, Return, TypeOK
    <3>3. ASSUME NEW u \in Updates, UpdateStep(u) PROVE phase'[q] = phase[q]
      <4>1. \E p : phase' = [phase EXCEPT ![u] = p]
        BY <3>3 DEF UpdateStep, PushUpdate, Lock, BeginTransaction, EndTransaction,
           ReturnUpdate, Return
      <4>2. QED
        BY <4>1, CallAssumption DEF TypeOK
    <3>4. ASSUME NEW p \in Queries, PushQuery(p) \/ EndQuery(p)
          PROVE  phase'[q] = "reading" => phase[q] = "reading"
      BY <3>4 DEF PushQuery, EndQuery, Return, TypeOK
    <3>5. CASE (\E c \in Call : Cancel(c)) \/ UNCHANGED vars
      BY <3>5 DEF Cancel, calls, vars
    <3>6. CASE TakeUpdate \/ ReleaseMemory \/ Timeout \/ Close \/ CloseSteps
      BY <3>6 DEF TakeUpdate, ReleaseMemory, Timeout, Close, CloseSteps, StopTimer,
         StopUpdates, FreeUpdates, Shutdown, calls
    <3>7. QED
      BY <3>1, <3>2, <3>3, <3>4, <3>5, <3>6 DEF Next, QueryStep
  <2>3. phase'[q] = "reading" => 
          /\ seen[q] <= Len(store')
          /\ \A u \in known[q] : \E i \in 1 .. seen[q] : store'[i] = u
    BY <1>0, <2>2, StoreGrows DEF Reads
  <2>4. QED
    BY <1>0, <1>1, <2>1, <2>3 DEF Reads
<1>5. QED
  BY <1>2, <1>3, <1>4

\* A query reads every update that was confirmed to its caller, or to another one,
\* before it was called.
THEOREM ReadYourWrites == Spec => []ReadsConfirmed
<1>1. Init => IInv
  BY TypeInit, MutexInit, TasksInit, OutcomeInit, ReadsInit DEF IInv
<1>2. IInv /\ [Next]_vars => IInv'
  BY TypeStep, MutexStep, TasksStep, OutcomeStep, ReadsStep DEF IInv
<1>3. IInv => ReadsConfirmed
  BY DEF IInv, Reads, ReadsConfirmed
<1>4. QED
  BY <1>1, <1>2, <1>3, PTL DEF Spec

-----------------------------------------------------------------------------
(***************************************************************************)
(* Closing, by an application that does so when no synchronous call runs.  *)
(***************************************************************************)
Left ==
  /\ closing # "open" => \A c \in Sync : phase[c] \in {"uncalled", "returned"}
  /\ closing \in {"free_selects", "closed"} => worker = None
  /\ closing = "closed" => \A q \in Queries : phase[q] # "reading"

LEMMA LeftStep == WaitsForCallers /\ TypeOK /\ Mutex /\ Left /\ [Next]_vars => Left'
<1> SUFFICES ASSUME WaitsForCallers, TypeOK, Mutex, Left, [Next]_vars PROVE Left'
  OBVIOUS
<1> USE CallAssumption DEF TypeOK, Left, Sync, calls, locks
<1>1. ASSUME NEW c \in Call, Enter(c) PROVE Left'
  BY <1>1 DEF Enter
<1>2. ASSUME NEW u \in Updates, UpdateStep(u) PROVE Left'
  <2>1. /\ closing' = closing
        /\ \A q \in Queries : phase'[q] = phase[q]
        /\ \A c \in Sync \ {u} : phase'[c] = phase[c]
    <3>1. closing' = closing /\ \E p : phase' = [phase EXCEPT ![u] = p]
      BY <1>2 DEF UpdateStep, PushUpdate, Lock, BeginTransaction, EndTransaction,
         ReturnUpdate, Return
    <3>2. QED
      BY <3>1
  <2>2. u \in Sync => phase[u] \notin {"uncalled", "returned"}
    BY <1>2 DEF UpdateStep, PushUpdate, Lock, BeginTransaction, EndTransaction, ReturnUpdate
  <2>3. worker = None => worker' = None
    BY <1>2 DEF UpdateStep, PushUpdate, Lock, BeginTransaction, EndTransaction, ReturnUpdate
  <2>4. QED
    BY <2>1, <2>2, <2>3
<1>3. ASSUME NEW q \in Queries, QueryStep(q) PROVE Left'
  <2>1. /\ closing' = closing /\ worker' = worker
        /\ \A c \in Call \ {q} : phase'[c] = phase[c]
    BY <1>3 DEF QueryStep, PushQuery, StartQuery, EndQuery, Return
  <2>2. q \in Sync => phase[q] \notin {"uncalled", "returned"}
    BY <1>3 DEF QueryStep, PushQuery, StartQuery, EndQuery
  <2>3. q \in Async /\ closing = "closed" => phase'[q] # "reading"
    BY <1>3 DEF QueryStep, PushQuery, StartQuery, EndQuery, SelectsTaken, UpdatesTaken
  <2>4. QED
    BY <2>1, <2>2, <2>3
<1>4. CASE TakeUpdate
  BY <1>4 DEF TakeUpdate, UpdatesTaken
<1>5. CASE (\E c \in Call : Cancel(c)) \/ ReleaseMemory \/ Timeout \/ UNCHANGED vars
  BY <1>5 DEF Cancel, ReleaseMemory, Timeout, vars
<1>6. CASE Close
  BY <1>6 DEF Close, CloseStep, Inside
<1>7. CASE StopTimer \/ StopUpdates \/ FreeUpdates
  BY <1>7 DEF StopTimer, StopUpdates, FreeUpdates, CloseStep
<1>8. CASE Shutdown
  <2>1. \A q \in Queries : phase[q] # "reading"
    BY <1>8 DEF Shutdown, CloseStep, Running
  <2>2. QED
    BY <1>8, <2>1 DEF Shutdown, CloseStep
<1>9. QED
  BY <1>1, <1>2, <1>3, <1>4, <1>5, <1>6, <1>7, <1>8 DEF Next, CloseSteps

\* If close() is called when no synchronous call runs, then no transaction is open,
\* no task and no query runs when the databases are closed.
THEOREM OrderlyShutdown == WaitsForCallers => (Spec => []OrderlyClose)
<1> SUFFICES ASSUME WaitsForCallers PROVE Spec => []OrderlyClose
  OBVIOUS
<1>1. Init => TypeOK /\ Mutex /\ Left
  <2>1. Init => Left
    BY DEF Init, Left
  <2>2. QED
    BY <2>1, TypeInit, MutexInit
<1>2. TypeOK /\ Mutex /\ Left /\ [Next]_vars => TypeOK' /\ Mutex' /\ Left'
  BY TypeStep, MutexStep, LeftStep
<1>3. TypeOK /\ Mutex /\ Left => OrderlyClose
  <2> SUFFICES ASSUME TypeOK, Mutex, Left, closing = "closed"
               PROVE  tx = None /\ worker = None /\ \A q \in Queries : phase[q] # "reading"
    BY DEF OrderlyClose
  <2>1. worker = None /\ \A q \in Queries : phase[q] # "reading"
    BY DEF Left
  <2>2. ASSUME NEW u \in Updates PROVE tx # u
    <3>1. u \in Async => phase[u] # "writing"
      BY <2>1, CallAssumption DEF Mutex, Holding
    <3>2. u \notin Async => phase[u] # "writing"
      BY DEF Left, Sync
    <3>3. QED
      BY <3>1, <3>2 DEF Mutex
  <2>3. QED
    BY <2>1, <2>2 DEF TypeOK
<1>4. QED
  BY <1>1, <1>2, <1>3, PTL DEF Spec

-----------------------------------------------------------------------------
(***************************************************************************)
(* The order of the asynchronous updates.                                  *)
(***************************************************************************)
Arrived(u) == \E i \in DOMAIN pushed : pushed[i] = u

\* u was pushed before v.
Before(u, v) == \E i, k \in DOMAIN pushed : i < k /\ pushed[i] = u /\ pushed[k] = v

\* Each asynchronous update is pushed once, after it entered.
PushedOnce ==
  /\ \A i, k \in DOMAIN pushed : pushed[i] = pushed[k] => i = k
  /\ \A i \in DOMAIN pushed : phase[pushed[i]] \notin {"uncalled", "entered"}

\* What is stored, what the thread has and what is queued come in that order.
InOrder ==
  /\ \A i, k \in DOMAIN queue :
       i < k /\ {queue[i], queue[k]} \subseteq Updates => Before(queue[i], queue[k])
  /\ \A k \in DOMAIN queue :
       {worker, queue[k]} \subseteq Updates => Before(worker, queue[k])
  /\ \A i \in DOMAIN store, k \in DOMAIN queue :
       store[i] \in Async /\ queue[k] \in Updates => Before(store[i], queue[k])
  /\ \A i \in DOMAIN store :
       store[i] \in Async /\ worker \in Updates /\ store[i] # worker
         => Before(store[i], worker)
  /\ \A i, k \in DOMAIN store :
       i < k /\ {store[i], store[k]} \subseteq Async => Before(store[i], store[k])

\* All of them were pushed.
AllArrived ==
  /\ \A k \in DOMAIN queue : queue[k] \in Updates => Arrived(queue[k])
  /\ worker \in Updates => Arrived(worker)
  /\ \A i \in DOMAIN store : store[i] \in Async => Arrived(store[i])

Arrivals == PushedOnce /\ AllArrived /\ InOrder

LEMMA ArrivalsInit == Init => Arrivals
  BY CallAssumption DEF Init, Arrivals, PushedOnce, AllArrived, InOrder, Task

\* A push keeps the order there is and puts its update after all others.
LEMMA PushLast ==
  ASSUME TypeOK, NEW u \in Updates \cap Async, pushed' = Append(pushed, u)
  PROVE  /\ \A v, w : Before(v, w) => Before(v, w)'
         /\ \A v : Arrived(v) => Arrived(v)' /\ Before(v, u)'
         /\ Arrived(u)'
<1>1. pushed \in Seq(Updates \cap Async)
  BY DEF TypeOK
<1>2. /\ Len(pushed) \in Nat /\ DOMAIN pushed = 1 .. Len(pushed)
      /\ DOMAIN pushed' = 1 .. Len(pushed) + 1
      /\ \A i \in DOMAIN pushed : pushed'[i] = pushed[i]
      /\ pushed'[Len(pushed) + 1] = u
  BY <1>1, AppendElements
<1>3. /\ Len(pushed) + 1 \in DOMAIN pushed'
      /\ \A i \in DOMAIN pushed : i \in DOMAIN pushed' /\ i < Len(pushed) + 1
  BY <1>2
<1>4. QED
  BY <1>2, <1>3 DEF Before, Arrived

\* Steps that leave the queue, the thread, the store and the history leave the order.
LEMMA OrderUntouched ==
  ASSUME Arrivals, UNCHANGED <<queue, worker, store, pushed>>
  PROVE  AllArrived' /\ InOrder'
  BY DEF Arrivals, AllArrived, InOrder, Arrived, Before

LEMMA PushedOnceStep ==
  TypeOK /\ Mutex /\ Tasks /\ PushedOnce /\ [Next]_vars => PushedOnce'
<1> SUFFICES ASSUME TypeOK, Mutex, Tasks, PushedOnce, [Next]_vars PROVE PushedOnce'
  OBVIOUS
<1>0. /\ Len(pushed) \in Nat /\ DOMAIN pushed = 1 .. Len(pushed)
      /\ \A i \in DOMAIN pushed : pushed[i] \in Updates \cap Async
      /\ pushed \in Seq(Updates \cap Async)
  BY DEF TypeOK
<1> USE <1>0, CallAssumption DEF PushedOnce
<1>1. ASSUME NEW u \in Updates, PushUpdate(u) PROVE PushedOnce'
  <2>1. u \in Async /\ phase[u] = "entered" /\ phase' = [phase EXCEPT ![u] = "queued"]
    BY <1>1 DEF PushUpdate
  <2>2. \A v \in Call : phase'[v] = IF v = u THEN "queued" ELSE phase[v]
    BY <2>1 DEF TypeOK
  <2>3. CASE pushed' = pushed
    BY <2>2, <2>3
  <2>4. CASE pushed' = Append(pushed, u)
    <3>1. /\ DOMAIN pushed' = 1 .. Len(pushed) + 1
          /\ \A i \in DOMAIN pushed : pushed'[i] = pushed[i] /\ pushed[i] # u
          /\ pushed'[Len(pushed) + 1] = u
      BY <2>1, <2>4, AppendElements
    <3>2. \A i \in DOMAIN pushed' : i \in DOMAIN pushed \/ i = Len(pushed) + 1
      BY <3>1
    <3>3. QED
      BY <2>2, <3>1, <3>2
  <2>5. QED
    BY <1>1, <2>3, <2>4 DEF PushUpdate
<1>2. ASSUME pushed' = pushed,
             \A u \in Updates : phase'[u] \in {"uncalled", "entered"}
                                  => phase[u] \in {"uncalled", "entered"}
      PROVE  PushedOnce'
  BY <1>2
<1>3. ASSUME NEW u \in Updates,
             Enter(u) \/ Lock(u) \/ BeginTransaction(u) \/ EndTransaction(u)
               \/ ReturnUpdate(u)
      PROVE  PushedOnce'
  <2>1. pushed' = pushed
    BY <1>3 DEF Enter, Lock, BeginTransaction, EndTransaction, ReturnUpdate, history
  <2>2. \E p \in Phase : 
          /\ phase' = [phase EXCEPT ![u] = p]
          /\ p \in {"uncalled", "entered"} => phase[u] = "uncalled"
    BY <1>3 DEF Enter, Lock, BeginTransaction, EndTransaction, ReturnUpdate, Return, Phase
  <2>3. QED
    BY <1>2, <2>1, <2>2 DEF TypeOK
<1>4. CASE TakeUpdate \/ ReleaseMemory
  BY <1>2, <1>4 DEF TakeUpdate, ReleaseMemory, calls, history
<1>5. CASE \/ \E c \in Call : Cancel(c)
           \/ \E q \in Queries : Enter(q) \/ QueryStep(q)
           \/ Timeout \/ Close \/ CloseSteps
           \/ UNCHANGED vars
  <2>1. \A u \in Updates : phase'[u] = phase[u]
    BY <1>5, UpdatesUntouched
  <2>2. pushed' = pushed
    BY <1>5 DEF Cancel, Enter, QueryStep, PushQuery, StartQuery, EndQuery, Timeout, Close,
       CloseSteps, StopTimer, StopUpdates, FreeUpdates, Shutdown, vars, history
  <2>3. QED
    BY <1>2, <2>1, <2>2
<1>6. QED
  BY <1>1, <1>3, <1>4, <1>5 DEF Next, UpdateStep

LEMMA OrderStep ==
  TypeOK /\ Mutex /\ Tasks /\ Outcome /\ Arrivals /\ [Next]_vars => AllArrived' /\ InOrder'
<1> SUFFICES ASSUME TypeOK, Mutex, Tasks, Outcome, Arrivals, [Next]_vars
             PROVE  AllArrived' /\ InOrder'
  OBVIOUS
<1>0. /\ Len(queue) \in Nat /\ DOMAIN queue = 1 .. Len(queue) /\ queue \in Seq(Task)
      /\ Len(store) \in Nat /\ DOMAIN store = 1 .. Len(store) /\ store \in Seq(Updates)
      /\ \A i \in DOMAIN queue : queue[i] \in Task
      /\ \A i \in DOMAIN store : store[i] \in Updates
      /\ Release \notin Updates /\ None \notin Updates
  BY CallAssumption DEF TypeOK
<1> USE <1>0 DEF Arrivals
<1>1. ASSUME NEW u \in Updates, PushUpdate(u) PROVE AllArrived' /\ InOrder'
  <2>1. CASE UNCHANGED <<queue, pushed>>
    BY <1>1, <2>1, OrderUntouched DEF PushUpdate
  <2>2. CASE queue' = Append(queue, u) /\ pushed' = Append(pushed, u)
    <3>1. u \in Updates \cap Async /\ u \in Task /\ UNCHANGED <<worker, store>>
      BY <1>1 DEF PushUpdate, Task
    <3>2. /\ \A v, w : Before(v, w) => Before(v, w)'
          /\ \A v : Arrived(v) => Arrived(v)' /\ Before(v, u)'
          /\ Arrived(u)'
      BY <2>2, <3>1, PushLast
    <3>3. /\ DOMAIN queue' = 1 .. Len(queue) + 1
          /\ \A i \in DOMAIN queue : queue'[i] = queue[i]
          /\ queue'[Len(queue) + 1] = u
      BY <2>2, <3>1, AppendElements
    <3>4. \A i \in DOMAIN queue' : i \in DOMAIN queue \/ i = Len(queue) + 1
      BY <3>3
    <3>5. \A i, k \in DOMAIN queue' : i < k => i \in DOMAIN queue
      BY <3>3
    <3>6. AllArrived'
      BY <3>1, <3>2, <3>3, <3>4 DEF AllArrived
    <3>7. \A i, k \in DOMAIN queue' :
            i < k /\ {queue'[i], queue'[k]} \subseteq Updates
              => Before(queue[i], queue[k])'
      <4> SUFFICES ASSUME NEW i \in DOMAIN queue', NEW k \in DOMAIN queue', i < k,
                          queue'[i] \in Updates, queue'[k] \in Updates
                   PROVE  Before(queue[i], queue[k])'
        OBVIOUS
      <4>1. i \in DOMAIN queue /\ queue'[i] = queue[i] /\ Arrived(queue[i])
        BY <3>3, <3>5 DEF AllArrived
      <4>2. CASE k \in DOMAIN queue
        <5>1. queue'[k] = queue[k] /\ Before(queue[i], queue[k])
          BY <3>3, <4>1, <4>2 DEF InOrder
        <5>2. QED
          BY <3>2, <4>1, <5>1
      <4>3. CASE k = Len(queue) + 1
        BY <3>2, <3>3, <4>1, <4>3
      <4>4. QED
        BY <3>4, <4>2, <4>3
    <3>8. QED
      BY <3>1, <3>2, <3>3, <3>4, <3>6, <3>7 DEF AllArrived, InOrder
  <2>3. QED
    BY <1>1, <2>1, <2>2 DEF PushUpdate
<1>2. CASE TakeUpdate
  <2>1. /\ worker' = queue[1] /\ queue # << >> /\ queue' = Tail(queue)
        /\ UNCHANGED <<store, pushed>>
    BY <1>2 DEF TakeUpdate, history
  <2>2. /\ DOMAIN queue' = 1 .. Len(queue) - 1
        /\ \A i \in DOMAIN queue' : /\ queue'[i] = queue[i + 1]
                                    /\ i + 1 \in DOMAIN queue /\ 1 < i + 1
        /\ \A i, k \in DOMAIN queue' : i < k => i + 1 < k + 1
        /\ 1 \in DOMAIN queue
    BY <2>1, HeadTailProperties
  <2>3. /\ \A v, w : Before(v, w) <=> Before(v, w)'
        /\ \A v : Arrived(v) <=> Arrived(v)'
    BY <2>1 DEF Before, Arrived
  <2>4. AllArrived'
    BY <2>1, <2>2, <2>3 DEF AllArrived
  <2>5. QED
    BY <2>1, <2>2, <2>3, <2>4 DEF InOrder
<1>3. ASSUME NEW u \in Updates, EndTransaction(u) PROVE AllArrived' /\ InOrder'
  <2>1. phase[u] = "writing" /\ UNCHANGED <<queue, worker, pushed>>
    BY <1>3 DEF EndTransaction, history
  <2>2. CASE store' = store
    BY <2>1, <2>2, OrderUntouched
  <2>3. CASE store' = Append(store, u)
    <3>1. u \in Async => worker = u
      BY <2>1 DEF Mutex, Holding
    <3>2. ~Stored(u)
      BY <2>1 DEF Outcome
    <3>3. /\ DOMAIN store' = 1 .. Len(store) + 1
          /\ \A i \in DOMAIN store : store'[i] = store[i] /\ store[i] # u
          /\ store'[Len(store) + 1] = u
      BY <2>3, <3>2, AppendElements DEF Stored
    <3>4. \A i \in DOMAIN store' : i \in DOMAIN store \/ i = Len(store) + 1
      BY <3>3
    <3>5. \A i, k \in DOMAIN store' : i < k => i \in DOMAIN store
      BY <3>3
    <3>6. /\ \A v, w : Before(v, w) <=> Before(v, w)'
          /\ \A v : Arrived(v) <=> Arrived(v)'
      BY <2>1 DEF Before, Arrived
    <3>7. AllArrived'
      BY <2>1, <3>1, <3>3, <3>4, <3>6 DEF AllArrived
    <3>8. \A i \in DOMAIN store : store[i] \in Async /\ u \in Async => Before(store[i], u)
      BY <3>1, <3>3 DEF InOrder
    <3>9. \A i, k \in DOMAIN store' :
            i < k /\ {store'[i], store'[k]} \subseteq Async => Before(store'[i], store'[k])
      BY <3>3, <3>4, <3>5, <3>8 DEF InOrder
    <3>10. \A i \in DOMAIN store', k \in DOMAIN queue :
             store'[i] \in Async /\ queue[k] \in Updates => Before(store'[i], queue[k])
      BY <3>1, <3>3, <3>4 DEF InOrder
    <3>11. \A i \in DOMAIN store' :
             store'[i] \in Async /\ worker \in Updates /\ store'[i] # worker
               => Before(store'[i], worker)
      BY <3>1, <3>3, <3>4 DEF InOrder
    <3>12. QED
      BY <2>1, <3>6, <3>7, <3>9, <3>10, <3>11 DEF InOrder
  <2>4. QED
    BY <1>3, <2>2, <2>3 DEF EndTransaction
<1>4. ASSUME pushed' = pushed, store' = store,
             worker' \in {worker, None}, queue' = queue \/ queue' = << >>
      PROVE  AllArrived' /\ InOrder'
  <2>1. /\ \A v, w : Before(v, w) <=> Before(v, w)'
        /\ \A v : Arrived(v) <=> Arrived(v)'
    BY <1>4 DEF Before, Arrived
  <2>2. \A k \in DOMAIN queue' : k \in DOMAIN queue /\ queue'[k] = queue[k]
    BY <1>4
  <2>3. QED
    BY <1>4, <2>1, <2>2 DEF AllArrived, InOrder
<1>5. CASE Timeout
  <2>1. Release \in Task /\ queue' = Append(queue, Release)
        /\ UNCHANGED <<worker, store, pushed>>
    BY <1>5 DEF Timeout, Task, history
  <2>2. /\ DOMAIN queue' = 1 .. Len(queue) + 1
        /\ \A i \in DOMAIN queue : queue'[i] = queue[i]
        /\ queue'[Len(queue) + 1] = Release
    BY <2>1, AppendElements
  <2>3. \A k \in DOMAIN queue' :
          queue'[k] \in Updates => k \in DOMAIN queue /\ queue'[k] = queue[k]
    BY <2>2
  <2>4. /\ \A v, w : Before(v, w) <=> Before(v, w)'
        /\ \A v : Arrived(v) <=> Arrived(v)'
    BY <2>1 DEF Before, Arrived
  <2>5. AllArrived'
    BY <2>1, <2>3, <2>4 DEF AllArrived
  <2>6. \A i, k \in DOMAIN queue' :
          i < k /\ {queue'[i], queue'[k]} \subseteq Updates => Before(queue'[i], queue'[k])
    BY <2>3 DEF InOrder
  <2>7. QED
    BY <2>1, <2>3, <2>4, <2>5, <2>6 DEF InOrder
<1>6. ASSUME NEW c \in Call, Enter(c) \/ Cancel(c) PROVE AllArrived' /\ InOrder'
  BY <1>4, <1>6 DEF Enter, Cancel, locks, history
<1>7. ASSUME NEW u \in Updates, Lock(u) \/ BeginTransaction(u) \/ ReturnUpdate(u)
      PROVE  AllArrived' /\ InOrder'
  BY <1>4, <1>7 DEF Lock, BeginTransaction, ReturnUpdate, history
<1>8. ASSUME NEW q \in Queries, QueryStep(q) PROVE AllArrived' /\ InOrder'
  BY <1>4, <1>8 DEF QueryStep, PushQuery, StartQuery, EndQuery, locks, history
<1>9. CASE ReleaseMemory
  BY <1>4, <1>9 DEF ReleaseMemory, history
<1>10. CASE Close \/ CloseSteps
  BY <1>4, <1>10 DEF Close, CloseSteps, StopTimer, StopUpdates, FreeUpdates, Shutdown,
     locks, history
<1>11. CASE UNCHANGED vars
  BY <1>4, <1>11 DEF vars
<1>12. QED
  BY <1>1, <1>2, <1>3, <1>5, <1>6, <1>7, <1>8, <1>9, <1>10, <1>11 DEF Next, UpdateStep

\* With each update pushed once, its position is the one index it has.
LEMMA ArrivalsOrder == TypeOK /\ Arrivals => ArrivalOrder
<1> SUFFICES ASSUME TypeOK, Arrivals, NEW i \in DOMAIN store, NEW k \in DOMAIN store,
                    i < k, {store[i], store[k]} \subseteq Async
             PROVE  Position(pushed, store[i]) < Position(pushed, store[k])
  BY DEF ArrivalOrder
<1>1. Before(store[i], store[k])
  BY DEF Arrivals, InOrder
<1>2. PICK a \in DOMAIN pushed, b \in DOMAIN pushed :
        a < b /\ pushed[a] = store[i] /\ pushed[b] = store[k]
  BY <1>1 DEF Before
<1>3. ASSUME NEW n \in DOMAIN pushed, NEW u, pushed[n] = u PROVE Position(pushed, u) = n
  BY <1>3 DEF Position, Arrivals, PushedOnce
<1>4. QED
  BY <1>2, <1>3

\* Asynchronous updates are stored in the order they were pushed, whatever synchronous
\* updates, cancellations and close() come between.
THEOREM ArrivalOrderKept == Spec => []ArrivalOrder
<1> DEFINE Ordered == TypeOK /\ Mutex /\ Tasks /\ Outcome /\ Arrivals
<1>1. Init => Ordered
  BY TypeInit, MutexInit, TasksInit, OutcomeInit, ArrivalsInit
<1>2. Ordered /\ [Next]_vars => Ordered'
  BY TypeStep, MutexStep, TasksStep, OutcomeStep, PushedOnceStep, OrderStep DEF Arrivals
<1>3. Ordered => ArrivalOrder
  BY ArrivalsOrder
<1>4. QED
  BY <1>1, <1>2, <1>3, PTL DEF Spec
=============================================================================
