----------------------------- MODULE Interfaces -----------------------------
(***************************************************************************)
(* How the queries of many threads share connections to the database:      *)
(* TrackerDBManager keeps the interfaces for reading in a queue it scans   *)
(* for a free one (core/tracker-db-manager.c), each interface caches the   *)
(* statements prepared on it and lends one to one cursor at a time         *)
(* (core/tracker-db-interface-sqlite.c), and a query takes an interface,   *)
(* a statement and a cursor in turn (tracker_sparql_execute_cursor).       *)
(*                                                                         *)
(* A call is one query, made once, with values of its own.  The interfaces *)
(* and the statements that calls create are known by the call's name.  The *)
(* statements of one interface read one version of the data as long as any *)
(* of them is active, which is how SQLite takes snapshots of a file.       *)
(***************************************************************************)
EXTENDS Integers, Sequences, FiniteSets

CONSTANTS
  Calls,
  Queries,        \* the calls, grouped by the SQL their query translates to
  Cached,         \* the calls whose query is cacheable
  Manager,        \* the task that releases memory
  None,
  MaxInterfaces,  \* MAX_INTERFACES, 16 for each processor in the code
  MaxStatements,  \* the size of a cache of statements; 3 or more in the code, whose
                  \* ring needs a head and a tail
  Rows,           \* the rows each query has
  MaxVersion,     \* bound on the updates that are committed
  MaxReleases,    \* bound on the releases of memory
  MaxFaults       \* bound on failures and cancellations

ASSUME CallsAssumption ==
  /\ IsFiniteSet(Calls) /\ Cached \subseteq Calls
  /\ Manager \notin Calls /\ None \notin Calls \cup Nat /\ Manager # None
ASSUME BoundsAssumption ==
  /\ MaxInterfaces \in Nat \ {0} /\ MaxStatements \in Nat \ {0} /\ Rows \in Nat
  /\ MaxVersion \in Nat /\ MaxReleases \in Nat /\ MaxFaults \in Nat

VARIABLES
  queue,      \* the interfaces, in the order they are looked at
  lock,       \* who holds the lock of the queue, or None
  left,       \* how many interfaces the holder has not looked at
  users,      \* interface -> n_users
  cache,      \* interface -> its cached statements, least recently used first
  lent,       \* the statements with stmt_is_borrowed
  grabbed,    \* the statements with stmt_is_used
  bound,      \* statement -> the call whose values are bound, or None
  at,         \* statement -> the row it is at, 0 once reset
  reads,      \* statement -> the version it reads while it is active, or None
  version,    \* the version of the data last committed
  phase,      \* call -> how far it is
  iface,      \* call -> the interface it was given
  stmt,       \* call -> the statement it was lent
  rows,       \* call -> the rows its cursor returned since it was rewound
  ended,      \* call -> whether its cursor is finished: "no", "yes" or "error"
  asked,      \* history: call -> the version when it was made
  shared,     \* history: the calls given an interface others used
  releases, faults   \* for the bounds

pool == <<queue, lock, left, users>>
statements == <<cache, lent, grabbed, bound, at>>
cursors == <<rows, ended>>
history == <<asked, shared, releases, faults>>
vars == <<pool, statements, reads, version, phase, iface, stmt, cursors, history>>

SameText(c, d) == \E q \in Queries : {c, d} \subseteq q
Members(s) == {s[i] : i \in DOMAIN s}

\* The phases in which a call is inside tracker_sparql_execute_cursor with an
\* interface, and those in which a cursor counts as a user of it.
Executing == {"placed", "prepared", "bound", "started", "failed"}
WithCursor == {"started", "open", "released"}

\* The versions the active statements of an interface read; a statement is active
\* from its first row to its end or its reset.
Snapshots(i) == {reads[s] : s \in {s \in Calls : iface[s] = i}} \ {None}

Fault == faults < MaxFaults /\ faults' = faults + 1

Init ==
  /\ queue = << >> /\ lock = None /\ left = 0
  /\ users = [i \in Calls |-> 0]
  /\ cache = [i \in Calls |-> << >>]
  /\ lent = {} /\ grabbed = {}
  /\ bound = [s \in Calls |-> None] /\ at = [s \in Calls |-> 0]
  /\ reads = [s \in Calls |-> None] /\ version = 0
  /\ phase = [c \in Calls |-> "new"]
  /\ iface = [c \in Calls |-> None] /\ stmt = [c \in Calls |-> None]
  /\ rows = [c \in Calls |-> << >>] /\ ended = [c \in Calls |-> "no"]
  /\ asked = [c \in Calls |-> 0] /\ shared = {}
  /\ releases = 0 /\ faults = 0

-----------------------------------------------------------------------------
(***************************************************************************)
(* The pool: tracker_db_manager_get_db_interface, which looks at one       *)
(* interface after the other while cursors come and go, and                *)
(* tracker_db_manager_release_memory.                                      *)
(***************************************************************************)
Rotated == Append(Tail(queue), Head(queue))

TakeLock(c) ==
  /\ phase[c] = "new" /\ lock = None
  /\ lock' = c /\ left' = Len(queue)
  /\ phase' = [phase EXCEPT ![c] = "looking"]
  /\ asked' = [asked EXCEPT ![c] = version]
  /\ UNCHANGED <<queue, users, statements, reads, version, iface, stmt, cursors,
                 shared, releases, faults>>

\* The interface at the head is in use: on to the next.
PassOver ==
  /\ lock # None /\ left > 0 /\ users[Head(queue)] > 0
  /\ queue' = Rotated /\ left' = left - 1
  /\ UNCHANGED <<lock, users, statements, reads, version, phase, iface, stmt,
                 cursors, history>>

\* c becomes a user of i, and the lock is dropped.
Give(c, i) ==
  /\ users' = [users EXCEPT ![i] = @ + 1]
  /\ iface' = [iface EXCEPT ![c] = i]
  /\ shared' = IF users[i] > 0 THEN shared \cup {c} ELSE shared
  /\ phase' = [phase EXCEPT ![c] = "placed"]
  /\ lock' = None /\ left' = 0
  /\ UNCHANGED <<statements, reads, version, stmt, cursors, asked, releases>>

TakeFree(c) ==
  /\ lock = c /\ left > 0 /\ users[Head(queue)] = 0
  /\ queue' = Rotated /\ Give(c, Head(queue)) /\ UNCHANGED faults

\* All are in use and no more may be made: one is shared.
TakeShared(c) ==
  /\ lock = c /\ left = 0 /\ Len(queue) >= MaxInterfaces
  /\ queue' = Rotated /\ Give(c, Head(queue)) /\ UNCHANGED faults

\* tracker_db_manager_create_db_interface
Create(c) ==
  /\ lock = c /\ left = 0 /\ Len(queue) < MaxInterfaces
  /\ queue' = Append(queue, c) /\ Give(c, c) /\ UNCHANGED faults

\* The database cannot be opened once more: one is shared, if there is any.
CreateFails(c) ==
  /\ lock = c /\ left = 0 /\ Len(queue) < MaxInterfaces
  /\ Fault
  /\ IF queue # << >>
     THEN queue' = Rotated /\ Give(c, Head(queue))
     ELSE /\ phase' = [phase EXCEPT ![c] = "done"]
          /\ lock' = None
          /\ UNCHANGED <<queue, left, users, statements, reads, version, iface, stmt,
                         cursors, asked, shared, releases>>

StartRelease ==
  /\ lock = None /\ releases < MaxReleases
  /\ releases' = releases + 1
  /\ lock' = Manager /\ left' = Len(queue)
  /\ UNCHANGED <<queue, users, statements, reads, version, phase, iface, stmt,
                 cursors, asked, shared, faults>>

\* Mutant: interfaces are freed whether or not they are in use.
FreeInterfaceUsed ==
  /\ lock = Manager /\ left > 0
  /\ queue' = Tail(queue) /\ left' = left - 1
  /\ cache' = [cache EXCEPT ![Head(queue)] = << >>]
  /\ UNCHANGED <<lock, users, lent, grabbed, bound, at, reads, version, phase, iface,
                 stmt, cursors, history>>

\* An interface nobody uses is freed with its statements.
FreeInterface ==
  /\ lock = Manager /\ left > 0 /\ users[Head(queue)] = 0
  /\ queue' = Tail(queue) /\ left' = left - 1
  /\ cache' = [cache EXCEPT ![Head(queue)] = << >>]
  /\ UNCHANGED <<lock, users, lent, grabbed, bound, at, reads, version, phase, iface,
                 stmt, cursors, history>>

EndRelease ==
  /\ lock = Manager /\ left = 0
  /\ lock' = None
  /\ UNCHANGED <<queue, left, users, statements, reads, version, phase, iface, stmt,
                 cursors, history>>

-----------------------------------------------------------------------------
(***************************************************************************)
(* The statement of a call, from the cache of its interface or prepared    *)
(* for it (tracker_db_interface_create_statement, prepare_query).          *)
(***************************************************************************)
\* The cached statements of the interface of c that have its text.
Hits(c) == {s \in Members(cache[iface[c]]) : SameText(s, c)}

\* tracker_db_statement_mru_insert: a full cache gives up the statement at its
\* head, which lives on while a cursor has it.
Inserted(q, s) == Append(IF Len(q) >= MaxStatements THEN Tail(q) ELSE q, s)

\* tracker_db_statement_mru_update: s is linked after the tail, the others close up.
MovedLast(q, s) ==
  LET k == CHOOSE k \in DOMAIN q : q[k] = s
  IN  [j \in 1 .. Len(q) |->
         IF j < k THEN q[j] ELSE IF j < Len(q) THEN q[j + 1] ELSE s]

\* Mutant: a statement is lent again while it is borrowed.
ReuseBorrowed(c, s) ==
  /\ phase[c] = "placed" /\ c \in Cached /\ s \in Hits(c)
  /\ cache' = [cache EXCEPT ![iface[c]] = MovedLast(@, s)]
  /\ at' = [at EXCEPT ![s] = 0] /\ reads' = [reads EXCEPT ![s] = None]
  /\ bound' = [bound EXCEPT ![s] = None]
  /\ lent' = lent \cup {s}
  /\ stmt' = [stmt EXCEPT ![c] = s]
  /\ phase' = [phase EXCEPT ![c] = "prepared"]
  /\ UNCHANGED <<pool, grabbed, version, iface, cursors, history>>

\* A cached statement that nobody has borrowed; tracker_db_statement_mru_update
\* resets it and makes it the one used last.
Reuse(c, s) ==
  /\ phase[c] = "placed" /\ c \in Cached /\ s \in Hits(c) \ lent
  /\ cache' = [cache EXCEPT ![iface[c]] = MovedLast(@, s)]
  /\ at' = [at EXCEPT ![s] = 0] /\ reads' = [reads EXCEPT ![s] = None]
  /\ bound' = [bound EXCEPT ![s] = None]
  /\ lent' = lent \cup {s}
  /\ stmt' = [stmt EXCEPT ![c] = s]
  /\ phase' = [phase EXCEPT ![c] = "prepared"]
  /\ UNCHANGED <<pool, grabbed, version, iface, cursors, history>>

\* Otherwise a statement is prepared, and cached unless one of its text is.
Prepare(c) ==
  /\ phase[c] = "placed"
  /\ c \in Cached => Hits(c) \subseteq lent
  /\ cache' = IF c \in Cached /\ Hits(c) = {}
              THEN [cache EXCEPT ![iface[c]] = Inserted(@, c)] ELSE cache
  /\ lent' = IF c \in Cached THEN lent \cup {c} ELSE lent
  /\ stmt' = [stmt EXCEPT ![c] = c]
  /\ phase' = [phase EXCEPT ![c] = "prepared"]
  /\ UNCHANGED <<pool, grabbed, bound, at, reads, version, iface, cursors, history>>

PrepareFails(c) ==
  /\ phase[c] = "placed"
  /\ c \in Cached => Hits(c) \subseteq lent
  /\ Fault
  /\ phase' = [phase EXCEPT ![c] = "failed"]
  /\ UNCHANGED <<pool, statements, reads, version, iface, stmt, cursors, asked, shared,
                 releases>>

Bind(c) ==
  /\ phase[c] = "prepared"
  /\ bound' = [bound EXCEPT ![stmt[c]] = c]
  /\ phase' = [phase EXCEPT ![c] = "bound"]
  /\ UNCHANGED <<pool, cache, lent, grabbed, at, reads, version, iface, stmt, cursors,
                 history>>

\* A literal that has no value of its type: the statement is let go with the
\* values bound so far, and as a borrowed one if it is cached.
BindFails(c) ==
  /\ phase[c] = "prepared" /\ Fault
  /\ bound' \in {bound, [bound EXCEPT ![stmt[c]] = c]}
  /\ phase' = [phase EXCEPT ![c] = "failed"]
  /\ UNCHANGED <<pool, cache, lent, grabbed, at, reads, version, iface, stmt, cursors,
                 asked, shared, releases>>

-----------------------------------------------------------------------------
(***************************************************************************)
(* The cursor of a call.                                                   *)
(***************************************************************************)
\* tracker_db_cursor_sqlite_new
StartCursor(c) ==
  /\ phase[c] = "bound"
  /\ users' = [users EXCEPT ![iface[c]] = @ + 1]
  /\ grabbed' = grabbed \cup {stmt[c]}
  /\ phase' = [phase EXCEPT ![c] = "started"]
  /\ UNCHANGED <<queue, lock, left, cache, lent, bound, at, reads, version, iface, stmt,
                 cursors, history>>

\* The end of tracker_sparql_execute_cursor.
EndExecute(c) ==
  /\ phase[c] \in {"started", "failed"}
  /\ users' = [users EXCEPT ![iface[c]] = @ - 1]
  /\ phase' = [phase EXCEPT ![c] = IF @ = "started" THEN "open" ELSE "done"]
  /\ UNCHANGED <<queue, lock, left, statements, reads, version, iface, stmt, cursors,
                 history>>

\* db_cursor_iter_next, which steps the statement to a row or to its end.
IterNext(c) ==
  LET s == stmt[c]
  IN  /\ phase[c] = "open" /\ ended[c] = "no"
      /\ at' = [at EXCEPT ![s] = @ + 1]
      /\ IF at[s] < Rows
         THEN \E v \in IF Snapshots(iface[c]) = {} THEN {version} ELSE Snapshots(iface[c]) :
                /\ reads' = [reads EXCEPT ![s] = v]
                /\ rows' = [rows EXCEPT ![c] =
                              Append(@, [of |-> bound[s], n |-> at[s] + 1, version |-> v])]
                /\ UNCHANGED ended
         ELSE /\ reads' = [reads EXCEPT ![s] = None]
              /\ ended' = [ended EXCEPT ![c] = "yes"]
              /\ UNCHANGED rows
      /\ UNCHANGED <<pool, cache, lent, grabbed, bound, version, phase, iface, stmt,
                     history>>

\* db_cursor_iter_next when the call is cancelled: before the step, which resets
\* the statement, or during it, which halts it; and when the step fails.
IterFails(c) ==
  /\ phase[c] = "open" /\ ended[c] = "no" /\ Fault
  /\ at' \in {[at EXCEPT ![stmt[c]] = k] : k \in {0, Rows + 1}}
  /\ reads' = [reads EXCEPT ![stmt[c]] = None]
  /\ ended' = [ended EXCEPT ![c] = "error"]
  /\ UNCHANGED <<pool, cache, lent, grabbed, bound, version, phase, iface, stmt,
                 rows, asked, shared, releases>>

\* tracker_db_cursor_rewind
Rewind(c) ==
  /\ phase[c] = "open"
  /\ at' = [at EXCEPT ![stmt[c]] = 0] /\ reads' = [reads EXCEPT ![stmt[c]] = None]
  /\ ended' = [ended EXCEPT ![c] = "no"]
  /\ rows' = [rows EXCEPT ![c] = << >>]
  /\ UNCHANGED <<pool, cache, lent, grabbed, bound, version, phase, iface, stmt,
                 history>>

\* Mutant: closing a cursor does not reset its statement.
ReleaseActive(c) ==
  /\ phase[c] = "open"
  /\ lent' = lent \ {stmt[c]} /\ grabbed' = grabbed \ {stmt[c]}
  /\ bound' = [bound EXCEPT ![stmt[c]] = None]
  /\ rows' = [rows EXCEPT ![c] = << >>] /\ ended' = [ended EXCEPT ![c] = "no"]
  /\ phase' = [phase EXCEPT ![c] = "released"]
  /\ UNCHANGED <<pool, cache, at, reads, version, iface, stmt, history>>

\* tracker_db_cursor_close: tracker_db_statement_sqlite_release under the lock of
\* the interface.
Release(c) ==
  /\ phase[c] = "open"
  /\ lent' = lent \ {stmt[c]} /\ grabbed' = grabbed \ {stmt[c]}
  /\ at' = [at EXCEPT ![stmt[c]] = 0] /\ reads' = [reads EXCEPT ![stmt[c]] = None]
  /\ bound' = [bound EXCEPT ![stmt[c]] = None]
  /\ rows' = [rows EXCEPT ![c] = << >>] /\ ended' = [ended EXCEPT ![c] = "no"]
  /\ phase' = [phase EXCEPT ![c] = "released"]
  /\ UNCHANGED <<pool, cache, version, iface, stmt, history>>

\* tracker_db_cursor_close, after that lock.
Unuse(c) ==
  /\ phase[c] = "released"
  /\ users' = [users EXCEPT ![iface[c]] = @ - 1]
  /\ phase' = [phase EXCEPT ![c] = "done"]
  /\ asked' = [asked EXCEPT ![c] = 0] /\ shared' = shared \ {c}
  /\ UNCHANGED <<queue, lock, left, statements, reads, version, iface, stmt, cursors,
                 releases, faults>>

\* An update is committed through the writable interface.
Update ==
  /\ version < MaxVersion
  /\ version' = version + 1
  /\ UNCHANGED <<pool, statements, reads, phase, iface, stmt, cursors, history>>

-----------------------------------------------------------------------------
Place(c) ==
  TakeLock(c) \/ TakeFree(c) \/ TakeShared(c) \/ Create(c) \/ CreateFails(c)
ReleaseMemory == StartRelease \/ FreeInterface \/ EndRelease
Statement(c) ==
  \/ \E s \in Calls : Reuse(c, s)
  \/ Prepare(c) \/ PrepareFails(c) \/ Bind(c) \/ BindFails(c)
Cursor(c) ==
  \/ StartCursor(c) \/ EndExecute(c)
  \/ IterNext(c) \/ IterFails(c) \/ Rewind(c)
  \/ Release(c) \/ Unuse(c)

Next ==
  \/ PassOver \/ ReleaseMemory \/ Update
  \/ \E c \in Calls : Place(c) \/ Statement(c) \/ Cursor(c)

Spec == Init /\ [][Next]_vars

-----------------------------------------------------------------------------
TypeOK ==
  /\ queue \in Seq(Calls) /\ lock \in Calls \cup {Manager, None} /\ left \in Nat
  /\ users \in [Calls -> Nat] /\ cache \in [Calls -> Seq(Calls)]
  /\ lent \subseteq Calls /\ grabbed \subseteq Calls
  /\ bound \in [Calls -> Calls \cup {None}] /\ at \in [Calls -> Nat]
  /\ reads \in [Calls -> Nat \cup {None}] /\ version \in Nat
  /\ phase \in [Calls -> {"new", "looking", "done", "open", "released"} \cup Executing]
  /\ iface \in [Calls -> Calls \cup {None}] /\ stmt \in [Calls -> Calls \cup {None}]
  /\ rows \in [Calls -> Seq([of : Calls \cup {None}, n : Nat, version : Nat])]
  /\ ended \in [Calls -> {"no", "yes", "error"}]
  /\ asked \in [Calls -> Nat] /\ shared \subseteq Calls
  /\ releases \in Nat /\ faults \in Nat

\* Who counts as a user of an interface: calls, and cursors.
CallsOn(i) == {c \in Calls : iface[c] = i /\ phase[c] \in Executing}
CursorsOn(i) == {c \in Calls : iface[c] = i /\ phase[c] \in WithCursor}
UsersOf(i) == Cardinality(CallsOn(i)) + Cardinality(CursorsOn(i))

\* An interface stays in the pool, and is counted as in use, for as long as a call
\* or a cursor has it, whoever releases memory meanwhile; the pool has no more
\* interfaces than it may.
KeptWhileUsed ==
  /\ \A c \in Calls :
       phase[c] \in Executing \cup WithCursor => iface[c] \in Members(queue)
  /\ \A i \in Members(queue) : users[i] = UsersOf(i)
  /\ Len(queue) <= MaxInterfaces

\* A cursor returns the rows of its query with the values of its call, each once,
\* from the first to the last, and all of one version of the data, however others
\* use the interface and the statement before, meanwhile and after.  A call that
\* found an interface for itself sees every update committed before it was made;
\* one that had to share sees what the others are reading.
CursorExact ==
  \A c \in Calls :
    phase[c] = "open" =>
      /\ \A k \in DOMAIN rows[c] :
           /\ rows[c][k] = [of |-> c, n |-> k, version |-> rows[c][1].version]
           /\ c \notin shared => rows[c][k].version >= asked[c]
      /\ ended[c] = "yes" => Len(rows[c]) = Rows

\* The statements of a cache have different texts, are no more than it may have,
\* and those that are not lent hold neither rows nor values of earlier calls.
CacheTidy ==
  \A i \in Members(queue) :
    /\ Len(cache[i]) <= MaxStatements
    /\ \A k, m \in DOMAIN cache[i] : k # m => ~SameText(cache[i][k], cache[i][m])
    /\ \A s \in Members(cache[i]) \ lent : at[s] = 0 /\ bound[s] = None
=============================================================================
