------------------------------ MODULE Notifier ------------------------------
(***************************************************************************)
(* TrackerNotifier (tracker-notifier.c) and how TrackerDirectConnection    *)
(* feeds it (direct/tracker-direct.c).  The thread that runs a transaction *)
(* collects events in one cache per graph and flushes the caches after the *)
(* commit; GraphUpdated signals of other endpoints fill caches of their    *)
(* own.  Before a cache is emitted the URIs of its resources are asked for,*)
(* Slots at a time, one cache after the other; the worker that reads the   *)
(* last answer hands the cache to an idle callback of the main context and *)
(* starts on the next.  Nothing holds the worker, the main context and     *)
(* close() off each other between two of these steps.                      *)
(***************************************************************************)
EXTENDS Integers, Sequences

CONSTANTS
  Resource, Graph,
  Class,          \* the classes resources join and leave
  Notify,         \* those that are nrl:notify
  None,
  Slots,          \* N_SLOTS, the resources one query asks for, 50 in the code
  MaxChanges,     \* bound on the changes of all transactions
  MaxSignals,     \* bound on the signals of other endpoints
  MaxEvents,      \* bound on the events of one of these signals
  MaxFaults       \* bound on the queries that fail

ASSUME ClassAssumption == Notify \subseteq Class /\ None \notin Class
ASSUME BoundsAssumption ==
  /\ Slots \in Nat \ {0}
  /\ MaxChanges \in Nat /\ MaxSignals \in Nat /\ MaxEvents \in Nat
  /\ MaxFaults \in Nat

VARIABLES
  types,     \* <<graph, resource>> -> its classes, as committed
  work,      \* the same as the running transaction sees it
  tx,        \* "none", "open", or "flushing" once it is committed
  caches,    \* graph -> the events collected, or None without a cache
  attached,  \* whether the callbacks of the notifier are registered
  stopped,   \* whether its GCancellable is cancelled
  urnQuery,  \* FALSE after tracker_notifier_disable_urn_query, of an endpoint
  alive,     \* whether the application holds the notifier
  querying,  \* the flag of the notifier
  current,   \* the batch whose URIs are asked for, or None
  stage,     \* how far that query is: "none", "executing", "reading", "read",
             \* "answered" once all is known, "handed" over to an idle callback
  queue,     \* the batches that wait for it
  idle,      \* the batches in idle callbacks
  emitted,   \* history: the batches the signal was emitted for
  flushed,   \* history: the number of batches flushed so far
  touched,   \* history: the pairs the transaction has changed
  parted,    \* history: those whose notified classes changed last by losing one
             \* while others remained
  changes, signals, faults   \* for the bounds

data == <<types, work, tx, caches, touched, parted, changes>>
state == <<attached, stopped, alive, urnQuery>>
pipe == <<querying, current, stage, queue, idle, emitted, flushed>>
vars == <<data, state, pipe, signals, faults>>

Pair == Graph \X Resource
Kind == {"CREATE", "UPDATE", "DELETE"}
ASSUME NoneAssumption == None \notin Kind \cup Seq([id : Resource, type : Kind])

\* The stages in which a batch is with the query.
Asking == {"executing", "reading", "read", "answered"}

\* A flushed cache: its place in the order of flushing, the number of its
\* events, and how many of them have been given their URI.
Batch == [n : Nat, size : Nat, first : Nat]
Serials(batches) == {batches[i].n : i \in DOMAIN batches}

Init ==
  /\ types = [x \in Pair |-> {}] /\ work = types
  /\ tx = "none" /\ touched = {} /\ parted = {}
  /\ caches = [g \in Graph |-> None]
  /\ attached = TRUE /\ stopped = FALSE /\ alive = TRUE
  /\ urnQuery \in BOOLEAN
  /\ querying = FALSE /\ current = None /\ stage = "none"
  /\ queue = << >> /\ idle = << >> /\ emitted = << >>
  /\ flushed = 0 /\ changes = 0 /\ signals = 0 /\ faults = 0

-----------------------------------------------------------------------------
(***************************************************************************)
(* The transaction and its callbacks, in the thread that updates.          *)
(***************************************************************************)
Begin ==
  /\ tx = "none"
  /\ tx' = "open"
  /\ UNCHANGED <<types, work, caches, touched, parted, changes, state, pipe, signals, faults>>

\* Mutant: the last event of a resource wins.
PushLastWins(events, r, kind) ==
  IF \E i \in DOMAIN events : events[i].id = r
  THEN [i \in DOMAIN events |-> IF events[i].id = r THEN [id |-> r, type |-> kind]
                                                    ELSE events[i]]
  ELSE Append(events, [id |-> r, type |-> kind])

\* _tracker_notifier_event_cache_push_event: one event per resource, which an
\* UPDATE does not replace.
Push(events, r, kind) ==
  IF \E i \in DOMAIN events : events[i].id = r
  THEN [i \in DOMAIN events |-> IF events[i].id = r /\ kind # "UPDATE"
                                THEN [id |-> r, type |-> kind] ELSE events[i]]
  ELSE Append(events, [id |-> r, type |-> kind])

\* statement_cb, for a resource of the classes C and a statement that makes kind
\* of the class c: the classes of the resource that are nrl:notify say what is
\* pushed, the one the statement is about in place of UPDATE.
Pushed(events, r, C, c, kind) ==
  LET old == IF events = None THEN << >> ELSE events
  IN  IF c \in Notify THEN Push(old, r, kind)
      ELSE IF C \cap Notify # {} THEN Push(old, r, "UPDATE")
      ELSE old

\* A statement changes the classes of r in g to C; D are those the callback sees.
Change(g, r, C, D, c, kind) ==
  /\ tx = "open" /\ changes < MaxChanges
  /\ changes' = changes + 1
  /\ work' = [work EXCEPT ![<<g, r>>] = C]
  /\ touched' = touched \cup {<<g, r>>}
  /\ parted' = IF c \notin Notify THEN parted
               ELSE IF kind = "DELETE" /\ C \cap Notify # {} THEN parted \cup {<<g, r>>}
               ELSE parted \ {<<g, r>>}
  /\ caches' = IF attached
               THEN [caches EXCEPT ![g] = Pushed(@, r, D, c, kind)] ELSE caches
  /\ UNCHANGED <<types, tx, state, pipe, signals, faults>>

\* cache_create_service_decomposed, of a class the resource is no instance of.
InsertType(g, r, c) ==
  LET C == work[<<g, r>>]
  IN  c \notin C /\ Change(g, r, C \cup {c}, C \cup {c}, c, "CREATE")

\* cache_delete_resource_type_full: the callback runs before c leaves the array.
DeleteType(g, r, c) ==
  LET C == work[<<g, r>>]
  IN  c \in C /\ Change(g, r, C \ {c}, C, c, "DELETE")

\* A statement on another property, of a resource that has classes.
ChangeValue(g, r) ==
  LET C == work[<<g, r>>]
  IN  C # {} /\ Change(g, r, C, C, None, "UPDATE")

\* transaction_cb with TRACKER_DATA_COMMIT begins, callbacks_lock being held.
Commit ==
  /\ tx = "open"
  /\ types' = work
  /\ tx' = IF attached THEN "flushing" ELSE "none"
  /\ touched' = {} /\ parted' = {}
  /\ UNCHANGED <<work, caches, changes, state, pipe, signals, faults>>

\* transaction_cb with TRACKER_DATA_ROLLBACK: the caches are freed.
Rollback ==
  /\ tx = "open"
  /\ work' = types /\ tx' = "none" /\ touched' = {} /\ parted' = {}
  /\ caches' = IF attached THEN [g \in Graph |-> None] ELSE caches
  /\ UNCHANGED <<types, changes, state, pipe, signals, faults>>

-----------------------------------------------------------------------------
(***************************************************************************)
(* The pipeline of batches.                                                *)
(***************************************************************************)
\* tracker_notifier_query_extra_info
StartQuery(b) == current' = b /\ stage' = "executing"

\* Mutant: the flag that a query runs is not looked at.
FlushBatchAnyway(size) ==
  LET b == [n |-> flushed + 1, size |-> size, first |-> 0]
  IN  /\ flushed' = flushed + 1
      /\ IF ~urnQuery
         THEN idle' = Append(idle, b) /\ UNCHANGED <<querying, current, stage, queue>>
         ELSE /\ querying' = TRUE /\ StartQuery(b)
              /\ UNCHANGED <<queue, idle>>
      /\ UNCHANGED emitted

\* Mutant: the batch enters the queue at the wrong end.
FlushBatchFirst(size) ==
  LET b == [n |-> flushed + 1, size |-> size, first |-> 0]
  IN  /\ flushed' = flushed + 1
      /\ IF ~urnQuery
         THEN idle' = Append(idle, b) /\ UNCHANGED <<querying, current, stage, queue>>
         ELSE IF querying
         THEN queue' = <<b>> \o queue /\ UNCHANGED <<querying, current, stage, idle>>
         ELSE /\ querying' = TRUE /\ StartQuery(b)
              /\ UNCHANGED <<queue, idle>>
      /\ UNCHANGED emitted

\* _tracker_notifier_event_cache_flush_events, of a cache of size events.
FlushBatch(size) ==
  LET b == [n |-> flushed + 1, size |-> size, first |-> 0]
  IN  /\ flushed' = flushed + 1
      /\ IF ~urnQuery
         THEN idle' = Append(idle, b) /\ UNCHANGED <<querying, current, stage, queue>>
         ELSE IF querying
         THEN queue' = Append(queue, b) /\ UNCHANGED <<querying, current, stage, idle>>
         ELSE /\ querying' = TRUE /\ StartQuery(b)
              /\ UNCHANGED <<queue, idle>>
      /\ UNCHANGED emitted

\* One cache of the loop in transaction_cb; an empty one is freed.
FlushCache(g) ==
  /\ tx = "flushing" /\ caches[g] # None
  /\ caches' = [caches EXCEPT ![g] = None]
  /\ IF caches[g] = << >> THEN UNCHANGED pipe ELSE FlushBatch(Len(caches[g]))
  /\ UNCHANGED <<types, work, tx, touched, parted, changes, state, signals, faults>>

EndCommit ==
  /\ tx = "flushing" /\ \A g \in Graph : caches[g] = None
  /\ tx' = "none"
  /\ UNCHANGED <<types, work, caches, touched, parted, changes, state, pipe, signals, faults>>

\* graph_updated_cb; the subscription goes with the notifier.
GraphUpdated ==
  /\ signals < MaxSignals /\ alive /\ ~stopped
  /\ signals' = signals + 1
  /\ \E size \in 1 .. MaxEvents : FlushBatch(size)
  /\ UNCHANGED <<data, state, faults>>

\* query_extra_info_cb. A cancelled query fails, and any may; its batch is freed.
QueryExecuted ==
  /\ stage = "executing"
  /\ \/ /\ ~stopped
        /\ stage' = "reading"
        /\ UNCHANGED <<current, faults>>
     \/ /\ stopped \/ faults < MaxFaults
        /\ faults' = IF stopped THEN faults ELSE faults + 1
        /\ current' = None /\ stage' = "none"
  /\ UNCHANGED <<data, state, querying, queue, idle, emitted, flushed, signals>>

\* handle_cursor, its loop: a row for each slot bound, in their order, unless the
\* cursor ends early, by a failure or because it is cancelled.
ReadRows ==
  LET left == current.size - current.first
      rows == IF left < Slots THEN left ELSE Slots
  IN  /\ stage = "reading"
      /\ stage' = "read"
      /\ \E k \in 0 .. rows :
           /\ k < rows => stopped \/ faults < MaxFaults
           /\ faults' = IF k < rows /\ ~stopped THEN faults + 1 ELSE faults
           /\ current' = [current EXCEPT !.first = @ + k]
      /\ UNCHANGED <<data, state, querying, queue, idle, emitted, flushed, signals>>

\* Mutant: one query is taken to answer for all events of the batch.
ReadDoneAtOnce ==
  /\ stage = "read"
  /\ IF stopped \/ ~alive THEN current' = None /\ stage' = "none"
     ELSE stage' = "answered" /\ UNCHANGED current
  /\ UNCHANGED <<data, state, querying, queue, idle, emitted, flushed, signals, faults>>

\* Mutant: a batch that is complete is kept although the query was cancelled.
ReadDoneCancelled ==
  /\ stage = "read"
  /\ IF current.first < current.size
     THEN IF stopped \/ ~alive THEN current' = None /\ stage' = "none"
                               ELSE StartQuery(current)
     ELSE stage' = "answered" /\ UNCHANGED current
  /\ UNCHANGED <<data, state, querying, queue, idle, emitted, flushed, signals, faults>>

\* handle_cursor, after its loop: whether the query was cancelled and the notifier
\* is there, and how much of the batch is known.
ReadDone ==
  /\ stage = "read"
  /\ IF stopped \/ ~alive THEN current' = None /\ stage' = "none"
     ELSE IF current.first < current.size THEN StartQuery(current)
     ELSE stage' = "answered" /\ UNCHANGED current
  /\ UNCHANGED <<data, state, querying, queue, idle, emitted, flushed, signals, faults>>

\* tracker_notifier_emit_events_in_idle
HandOver ==
  /\ stage = "answered"
  /\ idle' = Append(idle, current) /\ current' = None /\ stage' = "handed"
  /\ UNCHANGED <<data, state, querying, queue, emitted, flushed, signals, faults>>

\* Mutant: the worker lets the flag down without looking at the queue.
TakeNextForgets ==
  /\ stage = "handed"
  /\ querying' = FALSE /\ stage' = "none"
  /\ UNCHANGED <<data, state, current, queue, idle, emitted, flushed, signals, faults>>

\* handle_cursor, its section under the lock of the queue.
TakeNext ==
  /\ stage = "handed"
  /\ IF queue = << >>
     THEN querying' = FALSE /\ stage' = "none" /\ UNCHANGED <<current, queue>>
     ELSE StartQuery(Head(queue)) /\ queue' = Tail(queue) /\ UNCHANGED querying
  /\ UNCHANGED <<data, state, idle, emitted, flushed, signals, faults>>

\* tracker_notifier_emit_events; the main context runs idle callbacks in the
\* order they were attached.
EmitEvents ==
  /\ idle # << >>
  /\ idle' = Tail(idle)
  /\ emitted' = IF alive THEN Append(emitted, Head(idle)) ELSE emitted
  /\ UNCHANGED <<data, state, querying, current, stage, queue, flushed, signals, faults>>

-----------------------------------------------------------------------------
(***************************************************************************)
(* The end of a notifier.                                                  *)
(***************************************************************************)
\* The application drops its last reference: weak references are gone before
\* weak_ref_notify detaches the notifier.  The worker holds one of its own while
\* it hands a batch over.
Finalize ==
  /\ alive /\ stage \notin {"answered", "handed"}
  /\ alive' = FALSE
  /\ UNCHANGED <<data, attached, stopped, urnQuery, pipe, signals, faults>>

\* tracker_notifier_stop, in detach_notifier: the notifier is being finalized or
\* the connection closed.
Stop ==
  /\ ~stopped
  /\ stopped' = TRUE
  /\ UNCHANGED <<data, attached, alive, urnQuery, pipe, signals, faults>>

\* tracker_data_remove_callbacks; callbacks_lock keeps it off while caches are
\* flushed.
RemoveCallbacks ==
  /\ stopped /\ attached /\ tx # "flushing"
  /\ attached' = FALSE
  /\ UNCHANGED <<data, stopped, alive, urnQuery, pipe, signals, faults>>

-----------------------------------------------------------------------------
Statement ==
  \E g \in Graph, r \in Resource :
    \/ \E c \in Class : InsertType(g, r, c) \/ DeleteType(g, r, c)
    \/ ChangeValue(g, r)

Flushing == (\E g \in Graph : FlushCache(g)) \/ EndCommit
Worker == QueryExecuted \/ ReadRows \/ ReadDone \/ HandOver \/ TakeNext

Next ==
  \/ Begin \/ Statement \/ Commit \/ Rollback \/ Flushing
  \/ GraphUpdated \/ Worker \/ EmitEvents
  \/ Stop \/ RemoveCallbacks \/ Finalize

Spec == Init /\ [][Next]_vars

\* A committed transaction flushes its caches, the worker goes on with the query
\* it has, and the main context runs its idle callbacks.
Fairness == WF_vars(Flushing) /\ WF_vars(Worker) /\ WF_vars(EmitEvents)

FairSpec == Spec /\ Fairness

-----------------------------------------------------------------------------
\* Every variable keeps its type, and the query under way has a stage.
TypeOK ==
  /\ types \in [Pair -> SUBSET Class] /\ work \in [Pair -> SUBSET Class]
  /\ tx \in {"none", "open", "flushing"} /\ touched \subseteq Pair
  /\ parted \subseteq touched
  /\ caches \in [Graph -> {None} \cup Seq([id : Resource, type : Kind])]
  /\ attached \in BOOLEAN /\ stopped \in BOOLEAN /\ alive \in BOOLEAN
  /\ urnQuery \in BOOLEAN
  /\ querying \in BOOLEAN /\ stage \in Asking \cup {"none", "handed"}
  /\ IF stage \in Asking THEN current \in Batch ELSE current = None
  /\ queue \in Seq(Batch) /\ idle \in Seq(Batch) /\ emitted \in Seq(Batch)
  /\ flushed \in Nat /\ changes \in Nat /\ signals \in Nat /\ faults \in Nat

\* Batches are emitted in the order they were flushed, each at most once.
InOrder == \A i, k \in DOMAIN emitted : i < k => emitted[i].n < emitted[k].n

\* Unless the query was disabled, every event emitted has been given its URI.
UrnsKnown ==
  urnQuery => \A i \in DOMAIN emitted : emitted[i].first = emitted[i].size

\* As long as queries succeed and the notifier is neither stopped nor dropped,
\* every batch is in one place on its way, or was emitted.
NothingLost ==
  \/ stopped \/ ~alive \/ faults > 0
  \/ 1 .. flushed \subseteq Serials(queue) \cup Serials(idle) \cup Serials(emitted)
                           \cup (IF stage \in Asking THEN {current.n} ELSE {})

\* The batches nothing keeps any more from being emitted.
Promised == Serials(emitted) \cup Serials(idle)
              \cup (IF stage = "answered" THEN {current.n} ELSE {})

\* tracker_sparql_connection_close: "Notifiers will no longer emit events".  Once
\* the callbacks are removed, only batches in idle callbacks, and one the worker
\* has found complete, may still come; neither a commit, a signal nor the end of
\* a query adds to them.
QuietOnceDetached == [][~attached => Promised' \subseteq Promised]_vars

\* The event the changes of x call for is e, None being no event: whether x was
\* created, changed or deleted follows from its notified classes before and after.
\* The one thing more that shows is the loss of one of several, which is told as
\* a DELETE unless another is joined after it.
Tells(x, e) ==
  LET before == types[x] \cap Notify
      after  == work[x] \cap Notify
  IN  /\ before # {} /\ after = {} => e = "DELETE"
      /\ before = {} /\ after = {} => e \in {None, "DELETE"}
      /\ before = {} /\ after # {} => e = (IF x \in parted THEN "DELETE" ELSE "CREATE")
      /\ before # {} /\ after # {} =>
           /\ e = "DELETE" <=> x \in parted
           /\ ~(after \subseteq before) /\ x \notin parted => e = "CREATE"
           /\ x \in touched => e # None
      /\ x \notin touched => e = None

EventOf(x) ==
  LET events == IF caches[x[1]] = None THEN << >> ELSE caches[x[1]]
  IN  IF \E i \in DOMAIN events : events[i].id = x[2]
      THEN events[CHOOSE i \in DOMAIN events : events[i].id = x[2]].type
      ELSE None

\* What is collected at a commit tells what the transaction has made of each
\* resource, however many notified classes it went through: created, deleted,
\* changed, or nothing, and nothing of transactions that were rolled back.
EventsTellChanges ==
  [][tx = "open" /\ tx' = "flushing" => \A x \in Pair : Tells(x, EventOf(x))]_vars

\* Under the same conditions every batch is emitted sometime: the bounds end the
\* flushing, so it is the same to say that time and again none is left.
Announced ==
  []<>(\/ stopped \/ ~alive \/ faults > 0
       \/ 1 .. flushed \subseteq Serials(emitted))
=============================================================================
