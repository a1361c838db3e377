-------------------------- MODULE DirectConnection --------------------------
(***************************************************************************)
(* TrackerDirectConnection (direct/tracker-direct.c): how the calls of     *)
(* several threads reach the store.  Asynchronous updates go through a     *)
(* pool of one thread, synchronous ones run in the thread of the caller,   *)
(* both under update_mutex; asynchronous queries go through a pool of      *)
(* MaxSelect threads, synchronous ones run in the caller.  A transaction   *)
(* (TrackerData) is taken as a whole: it begins, and it commits or fails.  *)
(***************************************************************************)
EXTENDS Integers, Sequences, FiniteSets

CONSTANTS
  Updates, Queries,  \* the calls of the application, each made at most once
  Async,             \* those made with the _async variant
  Cancellable,       \* those of Async given a GCancellable
  Release,           \* the task that releases memory
  None,
  MaxSelect,         \* threads of select_pool, 16 in the code
  MaxQueue,          \* bound on the update queue, for the timer
  WithClose,         \* whether the application closes the connection
  WaitsForCallers    \* whether it does so only when no synchronous call runs

Call == Updates \cup Queries

ASSUME CallAssumption ==
  /\ Updates \cap Queries = {}
  /\ Async \subseteq Call /\ Cancellable \subseteq Async
  /\ Release \notin Call /\ None \notin Call \cup {Release}
ASSUME SizeAssumption ==
  /\ MaxSelect \in Nat \ {0} /\ MaxQueue \in Nat
  /\ WithClose \in BOOLEAN /\ WaitsForCallers \in BOOLEAN

VARIABLES
  phase,      \* how far each call got
  answer,     \* what its caller was told
  cancelled,  \* asynchronous calls whose GCancellable was cancelled
  queue,      \* tasks of the update_thread pool
  worker,     \* the task its thread has taken
  owner,      \* who holds update_mutex
  tx,         \* whose transaction is open
  store,      \* the updates committed, in order
  seen,       \* query -> how much of store it reads
  closing,    \* how far close() got
  idle,       \* no use of the connection since the last release of memory
  pushed,     \* history: asynchronous updates in the order of arrival
  known       \* history: query -> the updates confirmed when it was called

vars == <<phase, answer, cancelled, queue, worker, owner, tx, store, seen,
          closing, idle, pushed, known>>
calls == <<phase, answer>>
locks == <<queue, worker, owner, tx>>
history == <<pushed, known>>

Phase  == {"uncalled", "entered", "queued", "locked", "writing", "written",
           "failed", "reading", "returned"}
Answer == {"none", "ok", "error", "cancelled", "closed"}

\* close() sets the flag of TrackerSparqlConnection, then that of the direct
\* connection, frees update_thread, then select_pool, and lets go of the manager.
Stage == {"open", "flagged", "closing", "free_updates", "free_selects", "closed"}
UpdatesTaken == {"open", "flagged", "closing"}      \* update_thread takes tasks
SelectsTaken == UpdatesTaken \cup {"free_updates"}  \* select_pool does

Task == (Updates \cap Async) \cup {Release}        \* what update_thread runs

Confirmed == {u \in Updates : answer[u] = "ok"}
Stored(u) == \E i \in DOMAIN store : store[i] = u
Inside(c) == phase[c] \notin {"uncalled", "returned"}
Sync == Call \ Async

Init ==
  /\ phase = [c \in Call |-> "uncalled"]
  /\ answer = [c \in Call |-> "none"]
  /\ cancelled = {}
  /\ queue = << >> /\ worker = None /\ owner = None /\ tx = None
  /\ store = << >>
  /\ seen = [q \in Queries |-> 0]
  /\ closing = "open"
  /\ idle = TRUE
  /\ pushed = << >>
  /\ known = [q \in Queries |-> {}]

-----------------------------------------------------------------------------
(***************************************************************************)
(* Calls.  The check of the closing flag and the push are not atomic.      *)
(***************************************************************************)
\* set_error_on_closed, report_async_error_on_closed
Enter(c) ==
  /\ phase[c] = "uncalled"
  /\ IF closing = "open"
     THEN phase' = [phase EXCEPT ![c] = "entered"] /\ UNCHANGED answer
     ELSE /\ phase' = [phase EXCEPT ![c] = "returned"]
          /\ answer' = [answer EXCEPT ![c] = "closed"]
  /\ known' = IF c \in Queries THEN [known EXCEPT ![c] = Confirmed] ELSE known
  /\ UNCHANGED <<cancelled, locks, store, seen, closing, idle, pushed>>

\* update_async, update_resource_async, update_batch_async, deserialize_async: the
\* task is pushed, unless the pool was freed in between.
PushUpdate(u) ==
  /\ u \in Updates \cap Async /\ phase[u] = "entered"
  /\ phase' = [phase EXCEPT ![u] = "queued"]
  /\ IF closing \in UpdatesTaken
     THEN queue' = Append(queue, u) /\ pushed' = Append(pushed, u)
     ELSE UNCHANGED <<queue, pushed>>
  /\ UNCHANGED <<answer, cancelled, worker, owner, tx, store, seen, closing, idle, known>>

\* query_async, serialize_async
PushQuery(q) ==
  /\ q \in Queries \cap Async /\ phase[q] = "entered"
  /\ phase' = [phase EXCEPT ![q] = "queued"]
  /\ UNCHANGED <<answer, cancelled, locks, store, seen, closing, idle, history>>

Cancel(c) ==
  /\ c \in Cancellable \ cancelled /\ Inside(c)
  /\ cancelled' = cancelled \cup {c}
  /\ UNCHANGED <<calls, locks, store, seen, closing, idle, history>>

\* A GTask reports the cancellation whatever the result was.
Told(c, result) == IF c \in cancelled THEN "cancelled" ELSE result

Return(c, result) ==
  /\ phase' = [phase EXCEPT ![c] = "returned"]
  /\ answer' = [answer EXCEPT ![c] = Told(c, result)]

-----------------------------------------------------------------------------
(***************************************************************************)
(* Updates: update_thread_func, and the synchronous calls in their thread. *)
(***************************************************************************)
\* Mutant: the newest task is taken first.
TakeNewest ==
  /\ worker = None /\ queue # << >>
  /\ closing \in UpdatesTaken
  /\ worker' = queue[Len(queue)] /\ queue' = SubSeq(queue, 1, Len(queue) - 1)
  /\ UNCHANGED <<calls, cancelled, owner, tx, store, seen, closing, idle, history>>

\* The thread of the pool takes a task, until close() has freed the pool.
TakeUpdate ==
  /\ worker = None /\ queue # << >>
  /\ closing \in UpdatesTaken
  /\ worker' = Head(queue) /\ queue' = Tail(queue)
  /\ UNCHANGED <<calls, cancelled, owner, tx, store, seen, closing, idle, history>>

\* Mutant: a synchronous update leaves the mutex alone.
LockAsyncOnly(u) ==
  /\ u \in Updates
  /\ IF u \in Async THEN worker = u /\ owner = None ELSE phase[u] = "entered"
  /\ owner' = IF u \in Async THEN u ELSE owner
  /\ phase' = [phase EXCEPT ![u] = "locked"]
  /\ UNCHANGED <<answer, cancelled, queue, worker, tx, store, seen, closing, idle, history>>

Lock(u) ==
  /\ u \in Updates /\ owner = None
  /\ IF u \in Async THEN worker = u ELSE phase[u] = "entered"
  /\ owner' = u
  /\ phase' = [phase EXCEPT ![u] = "locked"]
  /\ UNCHANGED <<answer, cancelled, queue, worker, tx, store, seen, closing, idle, history>>

\* tracker_data_begin_transaction, or no space left on the file system.
BeginTransaction(u) ==
  /\ phase[u] = "locked"
  /\ \/ phase' = [phase EXCEPT ![u] = "writing"] /\ tx' = u
     \/ phase' = [phase EXCEPT ![u] = "failed"] /\ UNCHANGED tx
  /\ UNCHANGED <<answer, cancelled, queue, worker, owner, store, seen, closing, idle, history>>

EndTransaction(u) ==
  /\ phase[u] = "writing"
  /\ tx' = None
  /\ \/ phase' = [phase EXCEPT ![u] = "written"] /\ store' = Append(store, u)
     \/ phase' = [phase EXCEPT ![u] = "failed"] /\ UNCHANGED store
  /\ UNCHANGED <<answer, cancelled, queue, worker, owner, seen, closing, idle, history>>

\* Mutant: the task is returned and the mutex released before the transaction
\* has been committed.
ReturnEarly(u) ==
  /\ phase[u] \in {"writing", "written", "failed"}
  /\ Return(u, IF phase[u] # "failed" THEN "ok" ELSE "error")
  /\ owner' = None /\ tx' = None
  /\ worker' = IF u \in Async THEN None ELSE worker
  /\ idle' = FALSE
  /\ UNCHANGED <<cancelled, queue, store, seen, closing, history>>

\* Mutant: the error path forgets to unlock the mutex.
ReturnLocked(u) ==
  /\ phase[u] \in {"written", "failed"}
  /\ Return(u, IF phase[u] = "written" THEN "ok" ELSE "error")
  /\ owner' = IF phase[u] = "written" THEN None ELSE owner
  /\ worker' = IF u \in Async THEN None ELSE worker
  /\ idle' = FALSE
  /\ UNCHANGED <<cancelled, queue, tx, store, seen, closing, history>>

\* The result is returned, the connection was used, the mutex is unlocked.
ReturnUpdate(u) ==
  /\ phase[u] \in {"written", "failed"}
  /\ Return(u, IF phase[u] = "written" THEN "ok" ELSE "error")
  /\ owner' = None
  /\ worker' = IF u \in Async THEN None ELSE worker
  /\ idle' = FALSE
  /\ UNCHANGED <<cancelled, queue, tx, store, seen, closing, history>>

\* tracker_data_manager_release_memory; this is no use of the connection.
ReleaseMemory ==
  /\ worker = Release /\ owner = None
  /\ worker' = None
  /\ UNCHANGED <<calls, cancelled, queue, owner, tx, store, seen, closing, idle, history>>

\* cleanup_timeout_cb
Timeout ==
  /\ closing \in {"open", "flagged"}
  /\ ~idle /\ Len(queue) < MaxQueue
  /\ idle' = TRUE
  /\ queue' = Append(queue, Release)
  /\ UNCHANGED <<calls, cancelled, worker, owner, tx, store, seen, closing, history>>

-----------------------------------------------------------------------------
(***************************************************************************)
(* Queries: query_thread_pool_func, and tracker_direct_connection_query in *)
(* the caller.  A query reads what is committed when it is executed.       *)
(***************************************************************************)
Running == {q \in Queries \cap Async : phase[q] = "reading"}

StartQuery(q) ==
  /\ q \in Queries
  /\ phase[q] = IF q \in Async THEN "queued" ELSE "entered"
  /\ q \in Async => /\ closing \in SelectsTaken
                    /\ Cardinality(Running) < MaxSelect
  /\ \/ /\ q \in Async => closing \in {"open", "flagged"} /\ q \notin cancelled
        /\ phase' = [phase EXCEPT ![q] = "reading"]
        /\ seen' = [seen EXCEPT ![q] = Len(store)]
        /\ UNCHANGED answer
     \/ /\ q \in Async /\ closing # "open"
        /\ Return(q, "closed")
        /\ UNCHANGED seen
     \/ /\ q \in cancelled
        /\ Return(q, "cancelled")
        /\ UNCHANGED seen
  /\ UNCHANGED <<cancelled, locks, store, closing, idle, history>>

EndQuery(q) ==
  /\ phase[q] = "reading"
  /\ \E result \in {"ok", "error"} : Return(q, result)
  /\ idle' = FALSE
  /\ UNCHANGED <<cancelled, locks, store, seen, closing, history>>

-----------------------------------------------------------------------------
(***************************************************************************)
(* close(), step by step.  A pool is freed at once: its queued tasks are   *)
(* dropped, those its threads run are waited for.                          *)
(***************************************************************************)
CloseStep(from, to) == closing = from /\ closing' = to

Close ==
  /\ WithClose
  /\ WaitsForCallers => \A c \in Sync : ~Inside(c)
  /\ CloseStep("open", "flagged")
  /\ UNCHANGED <<calls, cancelled, locks, store, seen, idle, history>>

StopTimer ==
  /\ CloseStep("flagged", "closing")
  /\ UNCHANGED <<calls, cancelled, locks, store, seen, idle, history>>

StopUpdates ==
  /\ CloseStep("closing", "free_updates")
  /\ UNCHANGED <<calls, cancelled, locks, store, seen, idle, history>>

\* Mutant: the thread of the pool is not waited for.
FreeUpdatesNoWait ==
  /\ CloseStep("free_updates", "free_selects")
  /\ queue' = << >>
  /\ UNCHANGED <<calls, cancelled, worker, owner, tx, store, seen, idle, history>>

FreeUpdates ==
  /\ CloseStep("free_updates", "free_selects")
  /\ worker = None
  /\ queue' = << >>
  /\ UNCHANGED <<calls, cancelled, worker, owner, tx, store, seen, idle, history>>

\* Then the notifiers are detached and the databases closed.
Shutdown ==
  /\ CloseStep("free_selects", "closed")
  /\ Running = {}
  /\ UNCHANGED <<calls, cancelled, locks, store, seen, idle, history>>

-----------------------------------------------------------------------------
UpdateStep(u) ==
  PushUpdate(u) \/ Lock(u) \/ BeginTransaction(u) \/ EndTransaction(u) \/ ReturnUpdate(u)
QueryStep(q) == PushQuery(q) \/ StartQuery(q) \/ EndQuery(q)
CloseSteps == StopTimer \/ StopUpdates \/ FreeUpdates \/ Shutdown

Next ==
  \/ \E c \in Call : Enter(c) \/ Cancel(c)
  \/ \E u \in Updates : UpdateStep(u)
  \/ \E q \in Queries : QueryStep(q)
  \/ TakeUpdate \/ ReleaseMemory \/ Timeout
  \/ Close \/ CloseSteps

Spec == Init /\ [][Next]_vars

\* Threads that can go on do: callers, the threads of the pools, and close().
Fairness ==
  /\ \A u \in Updates : WF_vars(UpdateStep(u))
  /\ \A q \in Queries : WF_vars(QueryStep(q))
  /\ WF_vars(TakeUpdate) /\ WF_vars(ReleaseMemory)
  /\ WF_vars(CloseSteps)

FairSpec == Spec /\ Fairness

-----------------------------------------------------------------------------
TypeOK ==
  /\ phase \in [Call -> Phase] /\ answer \in [Call -> Answer]
  /\ cancelled \subseteq Cancellable
  /\ queue \in Seq(Task) /\ worker \in Task \cup {None}
  /\ owner \in Updates \cup {None} /\ tx \in Updates \cup {None}
  /\ store \in Seq(Updates)
  /\ seen \in [Queries -> Nat]
  /\ closing \in Stage /\ idle \in BOOLEAN
  /\ pushed \in Seq(Updates \cap Async)
  /\ known \in [Queries -> SUBSET Updates]

\* Two transactions never overlap: whoever is past the lock is the only one, and
\* the open transaction is its.
OneWriter ==
  /\ \A u, v \in Updates :
       phase[u] \in {"locked", "writing", "written", "failed"}
         /\ phase[v] \in {"locked", "writing", "written", "failed"} => u = v
  /\ \A u \in Updates : tx = u <=> phase[u] = "writing"

\* An update is stored at most once; its caller is told of success only if it is
\* stored, of failure only if it is not.
AnswersTruthful ==
  /\ \A i, k \in DOMAIN store : store[i] = store[k] => i = k
  /\ \A u \in Updates :
       /\ answer[u] = "ok" => Stored(u)
       /\ answer[u] \in {"error", "closed"} => ~Stored(u)

Position(s, u) == CHOOSE i \in DOMAIN s : s[i] = u

\* Asynchronous updates are executed sequentially on arrival order.
ArrivalOrder ==
  \A i, k \in DOMAIN store :
    i < k /\ {store[i], store[k]} \subseteq Async
      => Position(pushed, store[i]) < Position(pushed, store[k])

\* A query sees every update confirmed before it was called.
ReadsConfirmed ==
  \A q \in Queries : phase[q] = "reading" =>
    \A u \in known[q] : \E i \in 1 .. seen[q] : store[i] = u

\* The databases are closed when nobody uses them.
OrderlyClose ==
  closing = "closed" =>
    tx = None /\ worker = None /\ \A q \in Queries : phase[q] # "reading"

\* Closing flushes the pending updates: none that was accepted is dropped.
PendingFlushed ==
  closing = "closed" =>
    \A u \in Updates \cap Async : phase[u] = "queued" => Stored(u)

\* Every call is answered, unless the connection is closed meanwhile.
Answered ==
  \A c \in Call : phase[c] = "entered" ~> phase[c] = "returned" \/ closing # "open"

\* A call to close() ends.
CloseEnds == closing = "flagged" ~> closing = "closed"

=============================================================================
