# TinySPARQL in TLA+

A TLA+ model of TinySPARQL (the `libtinysparql` library: an RDF triple store on
SQLite with a SPARQL 1.1 interface), the TLC configurations that check it on
small instances, and theorems about it proved with TLAPS. Paths below are
relative to `src/libtinysparql/` of the repository unless they start with
`src/` or `docs/`.

Contents: [the system](#1-the-system), [plan](#2-plan),
[modules and code](#3-modules-and-the-code-they-model),
[runs](#4-runs), [findings](#5-where-code-and-documentation-disagree),
[proofs](#6-proofs), [what is not modelled](#7-what-is-not-modelled).

## 1. The system

An application opens a `TrackerSparqlConnection`: *direct* (a database in its
own process), *bus* (a D-Bus endpoint) or *remote* (an HTTP endpoint). Behind a
direct connection stand, from the caller to the disk:

```
 TrackerSparqlConnection        closing flag, API entry points
   TrackerDirectConnection      update_thread (1), select_pool (16), update_mutex, timer
     TrackerSparql              parses; executes updates op by op, queries as SQL
       TrackerData              update log, update buffer, transaction, callbacks
         TrackerDataManager     graphs (attached databases), tables, triggers, clean-up
           TrackerDBManager     pool of SQLite connections, WAL
             TrackerDBInterface SQL functions, statement caches, cursors
   TrackerNotifier  <-----------  statement and transaction callbacks of TrackerData
   TrackerEndpointDBus/Http ----  serve the connection to other processes
```

| Component | State it keeps | Operations | Correct when |
|---|---|---|---|
| **Update log and buffer** (`core/tracker-data-update.c`) | pending log entries, coalescing index, buffered resources with their types, new resources, cache of ids, transaction flag | insert, delete, replace, store a resource, load, flush, begin, commit, rollback | the tables are those of a set of triples whatever was merged or delayed; reference counts cover every use of an id; fulltext and domain indexes agree with the columns; ids in memory exist |
| **Update execution** (`core/tracker-sparql.c`) | update ops of a query, the blank node tables | run each op with the flushes, savepoints and `SILENT` handling around it | an update is all or nothing; a silent op that fails undoes itself only |
| **Data manager** (`core/tracker-data-manager.c`) | graph table with generations, the tables of each graph, format version and marks of the file | create, drop, clear graphs; create, open, convert, repair, upgrade a database; clean up on closing | the set of graphs follows the transaction; tables are those of the ontology; data survive an upgrade; unused ids are swept, used ones never |
| **Ontology** (`core/tracker-ontologies.c` and neighbours) | classes, properties, hierarchies, cardinalities, domain indexes, fulltext flags | load from RDF, load from the database, compare | a database says of itself what it was made from; read-only while data is updated |
| **Direct connection** (`direct/tracker-direct.c`) | two thread pools, update mutex, timer, closing flag, notifiers | query, update, update resource, run a batch, deserialize, serialize, close; sync and async | one writer at a time; asynchronous updates in order; truthful answers; everyone answered; closing is orderly |
| **Notifier** (`tracker-notifier.c`) | event cache per graph and transaction, queue, `querying` flag, current query, idle callbacks, subscriptions | collect, merge, flush, ask for URIs, emit, stop | each commit is announced once, in order, with URIs; events say what became of a resource |
| **Connection base class** (`tracker-connection.c`) | closing flag | all API calls | no call gets through once closed |
| **Database manager** (`core/tracker-db-manager.c`) | writable and read interfaces, WAL hook counters | hand out and take back interfaces, checkpoint, release memory | an interface is kept while it has users; the WAL is bounded |
| **SQLite interface** (`core/tracker-db-interface-sqlite.c`) | statement caches, in-use flags, cursors | execute, iterate, SQL functions | a cached statement has one user; `SparqlUpdateValue` decides what a column becomes |
| **Batches, prepared statements** (`tracker-batch.c`, `direct/`, `bus/`) | elements, bindings, blank node labels | add, bind, execute | a batch is one transaction; labels are resolved once per batch |
| **D-Bus endpoint and client** (`tracker-endpoint-dbus.c`, `bus/`) | running requests, pipes, name watch; client tasks and cancellables | `Query`, `Serialize`, `Update`, `UpdateArray`, `UpdateBlob`, `GraphUpdated` | a reply and a pipe per call; a vanished client cancels its calls; signals follow commits |
| **HTTP endpoint and client** (`tracker-endpoint-http.c`, `src/http/`, `remote/`) | requests, block list | query, serialize | read-only; one response per request |
| **Portal** (`src/portal/`) | sessions, each with an endpoint and its client | create and close sessions | a session ends with its client; only the graphs granted are visible |
| **Ontology change detection** (`core/tracker-ontologies-diff.c`) | two ontologies | compare | applying the changes to the old gives the new |
| **Resources** (`tracker-resource.c`) | a tree of properties and values, overwrite flags | set, add, compare, serialise | what is stored is what was set |
| **Deserializers, serializers** (`tracker-deserializer*`, `tracker-serializer*`) | a parser's position and buffer; a cursor and an output buffer | next triple; read | what is read back is what was written; a cut or a failure is never taken for the end |
| **SPARQL translation** (`core/tracker-sparql.c`, `-types.c`) | a parse tree, a context per group, the generation a statement was translated for | translate, bind, execute again | the SQL answers what the SPARQL algebra defines; a stale translation is noticed |
| **Virtual tables** (`core/tracker-vtab-*.c`) | cursors over all properties of a graph, or over another connection | filter, next | the rows of `?s ?p ?o` are the triples |
| **Namespaces** (`tracker-namespace-manager.c`) | prefixes | add, look up, expand, compress | compressing and expanding are inverse |
| **Fulltext tokenizer, utilities, CLI, web IDE** | none of their own | tokenise, convert | see section 7 |

How they interact. Callers of several threads meet in the direct connection,
which serialises updates by a mutex and hands a transaction at a time to
`TrackerSparql`/`TrackerData`. `TrackerData` calls the notifier's callbacks
synchronously for every statement and at the end of the transaction. The
notifier talks back to the connection as a client: it queries for the URIs of
the ids it has collected, on the connection's own query pool, and emits in the
main context of the application. Endpoints are clients of a connection, and
forward the events of a notifier of theirs as `GraphUpdated` signals, which are
the input of notifiers in other processes.

What is hard:

- *buffering*: statements are decomposed into table changes that are merged
  into earlier pending ones and executed much later, while the same buffer
  answers what the types of a resource are;
- *several books about one fact*: a triple is in a column or table, in reference
  counts of its ends, in the copies of domain indexes, in the fulltext index;
- *failure half way*: a conflict is noticed at the flush, a silent operation is
  undone by a savepoint that only SQLite knows of, a crash at any time;
- *threads*: pool threads, synchronous callers, a timer, `close()`, notifier
  workers, all on one writable database;
- *closing*: pools are freed, notifiers detached and the databases shut while
  calls may be anywhere;
- *sharing*: an interface belongs to many cursors, a prepared statement to one at
  a time, and both outlive the call that made them;
- *two processes and a pipe*: a call, its answer, the rows behind it and the peer
  end independently of each other, and any of them may go first;
- *a translation that is kept*: a query is executed again after the graphs, the
  bindings or the data have changed under it;
- *old files*: a database is opened by other versions of the ontology, other
  locales and other formats than those it was made with.

`PROJECT.json` lists each hazard at its line, with the properties that cover it.

## 2. Plan

Built, in the order of importance:

1. The write path: `Ontology`, `UpdateLog`, `UpdateBuffer`, `TrackerData`; its
   abstract specification `TripleStore` and the refinement `TrackerDataStore`.
2. `DirectConnection` and `Notifier`, the threads around it.
3. Queries and update requests: the translator (`TripleBlocks` to
   `UpdateRequests`) against the algebra of SPARQL (`SparqlAlgebra`,
   `TripleSemantics`), composed in `Sparql` with prepared statements.
4. Services: `DBus`, `DBusEndpoint`, `BusConnection`, `Portal`, `Http`, over
   `ServedStore`, composed in `Remote`.
5. `Formats`: resources, serializers, deserializers.
6. `DataManager`: databases under changing ontologies, with crashes.
7. `Interfaces`: connections to SQLite, statements and cursors shared by threads.

Left, in this order:

- Proofs of the write path's own invariants (`RefcountCovers`, `ClassInference`), for
  workloads without the statements of section 5: what the entries of a log add up to
  (section 6).
- The relay of `GraphUpdated` from a notifier of one process to one of another
  (`tracker-endpoint-dbus.c`, `notifier_events_cb`), composing `Notifier` with
  `DBusEndpoint`. Now the notifier takes such signals from nowhere.
- `TrackerData` with several graphs and blank nodes, so that `Sparql`, which
  applies the meaning of a statement (`TripleSemantics`), and `TrackerData`,
  which shows that the buffer keeps it, meet in one run.
- The remaining SQL functions of `Expressions`: strings, dates, hashes.

## 3. Modules and the code they model

| Module | Models | Kind |
|---|---|---|
| `Ontology` | what the write path and the translator read of `TrackerOntologies` | constants |
| `UpdateLog` | `TrackerDataLogEntry`, the coalescing of entries, the SQL of each, the Refcount trigger | operators |
| `UpdateBuffer` | `TrackerDataUpdateBuffer` and the functions that decompose statements | operators |
| `TrackerData` | transactions of `TrackerData` and `TrackerSparql`'s update ops | specification |
| `TripleSemantics` | what statements do to a set of triples | reference |
| `TripleStore`, `TrackerDataStore` | the abstract store; `TrackerData` implements it | refinement |
| `DirectConnection` | `TrackerDirectConnection` and the closing flag of its base class | specification |
| `Notifier` | `TrackerNotifier` and its callbacks in the direct connection | specification |
| `TripleBlocks` | SQL as relations of bags; triples blocks, property paths, union views, graphs | operators |
| `TripleSyntax` | property lists, collections, blank nodes, the forms of paths | operators |
| `Expressions` | values and types of expressions | operators |
| `Queries` | group graph patterns, subqueries, aggregates, solution modifiers; `SELECT`, `ASK`, `CONSTRUCT`, `DESCRIBE` with `FROM` and `CONSTRAINT` | operators |
| `UpdateRequests` | update requests to update operations, and these applied | operators |
| `SparqlAlgebra` | what SPARQL 1.1 defines for a query | reference |
| `Sparql` | prepared queries and updates of one store | specification |
| `DBus` | the bus and the kernel's pipes | external |
| `Endpoint` | access settings as a prologue, the cache of prepared statements | operators |
| `ServedStore` | the direct connection behind an endpoint; batches read from a pipe | actions |
| `DBusEndpoint` | `TrackerEndpointDBus` | actions |
| `BusConnection` | `TrackerBusConnection`, its statements, batches and cursors | actions |
| `Portal` | `src/portal/` | actions |
| `Http` | the HTTP endpoint, server, client and remote connection | actions |
| `Remote` | all of these composed | specification |
| `RdfTerms` | values, namespaces, the kinds of terms | operators |
| `Turtle` | Turtle and TriG, written and read | operators |
| `ResultFormats`, `JsonLd` | JSON and XML results; JSON-LD | operators |
| `Resources` | `TrackerResource`, its variants, its cursor, the ways to store it | operators |
| `Formats` | a resource or cursor written and read back | specification |
| `Ontologies` | loading an ontology from RDF and from a database, the differences of two | operators |
| `SchemaChanges` | what a list of differences does to the tables of a graph | operators |
| `DataManager` | a database file and the processes that open it | specification |
| `Interfaces` | `TrackerDBManager`'s pool, statements and cursors of interfaces | specification |
| `MC*` | instances, and the properties that need a reference definition | constants |
| `RemoteInvariant` | the inductive invariant of `Remote`, and the steps of the D-Bus side that keep it | proofs |
| `RemoteCommits` | the inductive invariant of what `Remote` stores, its steps and the theorem | proofs |
| `*Proofs` | theorems | proofs |

### The write path

Statements of a transaction (`tracker_data_insert_statement`,
`..._delete_statement`, `..._update_statement`, `update_resource_single`) do not
touch the tables of values. They append entries to a log; an entry is "insert
this class row", "update these columns of it", "insert into a multi-valued
table", "add 1 to the count of this id", and so on. `UpdateLog` has a constructor
per kind of entry, what appending does (`AppendRef`, `AppendColumn` and
`AppendClass` merge into a pending entry in its place), and what the SQL
statement of each entry does to the tables (`EntryEffect`, with the error cases
in `EntryFails`). `Replay` is `tracker_data_flush_log`.

A database is a record of the Resource table, the class rows, the values, the
copies kept by domain indexes, the Refcount table and the fulltext index.
A column of a class table and a row of a property table are both a value
`<<s, p, o>>`; deleting a class row takes its columns along (`DropRow`).

`UpdateBuffer` transforms a *context*: the database as the transaction sees it,
the buffer, the resources announced to notifiers, and whether the statement has
failed. `Switch` is `resource_buffer_switch`, which reads the types of a
resource once per flush. The recursions of the code over the class and property
hierarchies always take one order, which `Ontology` defines by recursive
functions (`CreateOrder`, `SupersFirst`, `SupersLast`) and `UpdateBuffer` folds
over; the one recursion whose course depends on data, the removal of a class
with its subclasses while the array of types shrinks under the loop, is the
function `Removal` of the depth calls may still nest. `Nesting` is a depth no
call exceeds: every call goes on to the next type, or down to a subclass.

`TripleStore` is the store an application believes in: triples, what is
committed, whether a transaction is open, and whether a conflict has `doomed` it
to be aborted. `TrackerDataStore` maps `TrackerData` to it: `View` gives the
triples the tables will hold once the pending log is executed, or says that
executing it would fail.

`TrackerData` has the variables `db` (what the writable connection sees),
`committed` (what is durable and what readers see), `buf`, `inTx`, `events` and
`work` (the set of statements of this behaviour). Actions: `Begin`, `Run(st)`
and `RunSilent(st)` for the operations of an update, `Where` (the flush before a
`WHERE` clause is evaluated), `EndGroup` (the flush of a log that has grown to
`UpdateLogSize`), `Clear`, `Commit`, `Rollback`, `Crash`, and `Reopen`, which
sweeps unused ids as closing does. Each is the whole handler: a failing statement
includes the rollback and the reset of the buffer, a commit includes its flush.

Abstractions: one graph; `nrl:added` and `nrl:modified` are not kept; values are
typed already (no conversion of strings, dates, language tags); ids are named by
their URI, so the Resource table is the set of URIs that have an id; the effect
of SQLite is that of the statement; statements come one by one, as they do from
`INSERT DATA`, a `WHERE` clause or a loader.

### The direct connection

A *call* of the application is followed by its phase, `phase[c]`, from
`uncalled` through `entered` (past the check of the closing flag) to `returned`.
`queue` and `worker` are the thread pool `update_thread`, `owner` is
`update_mutex`, `tx` the open transaction. A transaction is two steps, begin and
end, either of which may fail: its inside is `TrackerData`'s. `close()` is a
sequence of steps (`Stage`), one for each thing it does: set the flag of the
base class, set its own and remove the timer, free the update pool, free the
query pool, detach the notifiers and shut the manager down. Freeing a pool with
`immediate` set drops what is queued and waits for what runs. Cancelling
a call changes what its caller is told, not what has been done.

Calls differ only in being asynchronous or not, and updates or queries: prepared
statements, resources, batches, loads and serialisation take these same paths.

### The notifier

`work`/`types` are the classes of each resource in each graph, inside and outside
the transaction; `caches` the event caches of the transaction. A flushed cache
is a `Batch` with its place in the order of flushing, its size and how many of
its events have their URI. It is asked for at most `Slots` ids at a time
(`StartQuery`, `QueryExecuted`, `ReadRows`, `ReadDone` in a loop), or waits in
`queue` while another is (`querying`). A batch whose URIs are complete is
answered first and handed to an idle callback after (`HandOver`), and only then
is the next one taken out of the queue (`TakeNext`): between the two the
connection may be closed. Queries may fail, or end early; the application may
drop the notifier, and the connection stop it, at any time. With `urnQuery` false
(the notifier of an endpoint) batches go straight to the idle callbacks. Each
action holds the locks the code holds while it runs: the queue's lock in
`FlushBatch` and `TakeNext`, the lock of the callbacks while caches are flushed.
The event of a class is pushed before or after the array of types changes, as in
the code (`InsertType`, `DeleteType`).

### Queries and update requests

The SQL text is not modelled; each rule of the translator is an operator that
gives the *relation* its SQL denotes on the data, a bag of rows
(`Relation`), and the context it leaves (`x`: graphs, union views, types of
variables, the row of an outer query). So a join in the wrong place, a view
made for another graph set or a column with the wrong type shows as a wrong
bag. `TripleBlocks` has the tables of a graph, the views that unite graphs and
the path elements; `TripleSyntax` turns what a request writes into plain triples
and binary paths; `Expressions` and `Queries` follow the
grammar upwards; `UpdateRequests` turns requests into operations with their
graphs, and applies these a group at a time, with the rows of `WHERE` read
before the first change (which the buffer sees to, unless an operation is silent:
section 7).

`SparqlAlgebra` defines the same languages anew, from the standard's algebra:
solution mappings, `Join`, `LeftJoin`, `Minus`, path closures, `Group`. It
shares with the translation only the syntax of queries and the meaning of
operators on values. `TripleSemantics` says what a statement does to the triples
of one graph; it is also the step relation of `TripleStore`, which `TrackerData`
implements. So the write path below and the requests above meet at one definition.

`Sparql` has one store with its generation, prepared queries and updates which
remember the generation they were translated for, a script of batches, each a
transaction of several statements translated an operation at a time (`Translate`,
`Apply`, `Commit`, `Rollback`), and a reader that executes one prepared query at
any moment.

### Services

A behaviour of `Remote` begins with a *job*: what two clients ask, through the
bus, the portal or HTTP, what may go wrong once (`faults`), and the policy.
`DBus` models what the code relies on: mail in order, one answer per call, pipes
of `PipeSize` tokens with two ends that close separately, names that vanish.
On a pipe a text, an operation of a batch or a row is a token or two.

A call runs through `call[c].phase` at the client (`BusConnection`: message and
writing thread, both of which must end; a cursor reading while the service
writes) and `req[c].phase` at the service (`DBusEndpoint`: reading the request in
a thread, execution, writing the rows in another, all under one cancellable).
`ServedStore` executes updates in order and reads a batch within its
transaction, as `tracker_data_load_from_dbus_fd` does. `Portal` gives each
sandboxed client a session, an endpoint of its own before a bus connection
to the service, so a query is a call for which another call is made (`Inner`).
`Http` has the exchange of one request: negotiation of the format, chunks read
from the cursor when the one before is written, a client that closes its
connection.

Each of these modules has the actions of one part over its own variables; the
actions of `Remote` join those of both sides where one step of the code
concerns two parts (a fault, a closed connection), and leave the rest unchanged.

### Formats

Text is a sequence of tokens (a prefixed name is one, white space one where it
matters). A serializer is a record with a cursor position and printed, unread
tokens; a deserializer a record with a buffer, a stack and a verdict. The
actions of `Formats` build a resource (`Build`), begin to write one or a cursor
(`Transfer`) or to read a document nobody here wrote (`ReadDocument`), print a row
when the reader asks for more (`StartRead`, `SerializeRow`, `SerializeEnd`,
`SerializeFails`, `ReturnRead`), break the stream (`Cut`), and give a row back
(`IterateNext`, `JsonNext`, `JsonLdNext`, `XmlStep`). The three ways of storing a
resource are operators of `Resources`. `BufSizes` stands for `BUF_SIZE` and the
reading side's chunks.

### Databases and ontologies

A file of `DataManager` has its format version, the triples that describe its
ontology, the Resource table, graphs with tables, columns, indexes and rows, and
the locale and tokenizer its indexes were built for; the `.corrupted` marker
lies beside it. A process opens it in steps between which it may crash:
`OpenFile` looks at the version and the marker, `Repair` follows a marker,
`LoadReadonly`, `LoadCreated` and `LoadExisting` read or make the ontology and
convert old formats, `CompareOntology` lists the differences, `ApplyUpdates`
applies them and rebuilds what locale or tokenizer call for, `CommitUpdates`
commits. An open database gets facts and graphs, and is closed or found corrupt.
`Ontologies` loads an ontology triple by triple and lists the differences in
the order of `tracker-ontologies-diff.c`; `SchemaChanges` applies one difference
at a time to tables, and stops at the first statement that fails as SQLite
would: a table missing, a column used by an index, a value twice in a unique one.

### Interfaces

A call is a query with values of its own. `queue` is the asynchronous queue of
interfaces that `tracker_db_manager_get_db_interface` rotates until it finds a
free one, creates one or shares one; `users` are their counters. A cache of
statements is a sequence, last used last (`MovedLast`), for the ring of the code:
`tracker_db_interface_lru_foreach` and its neighbours need a head and a tail, hence
a `max_stmts` of 3; the sequence has no such minimum. Steps
follow the locks: under the queue's lock a call or the release of memory passes
over interfaces one at a time (`TakeLock`, `PassOver`, `TakeFree`, `TakeShared`,
`Create`, `StartRelease`, `FreeInterface`); then it finds, prepares and binds a
statement (`Reuse`, `Prepare`, `Bind`), opens a cursor and gives the interface
back (`StartCursor`, `EndExecute`), reads (`IterNext`, `Rewind`) and lets go of
statement and interface (`Release`, `Unuse`). `reads` is the snapshot SQLite gives
the statements of one connection: that of the first active one.

Left out there: the writable interface and its cache (one update at a time uses
it), marking the file as corrupted, and shared-cache databases in memory, which
have other snapshots. Each call has its own `TrackerSparql`;
sharing one adds a mutex and takes interleavings away.

## 4. Runs

`tlc -config X.cfg M` for each row; the configuration is named after the run.

| Run | Module | Shows |
|---|---|---|
| `TrackerData` | `MCTrackerData` | five workloads: links through a property and its subproperty with class changes; single-valued and fulltext columns inserted, deleted, replaced; the copy a subclass keeps; resources stored with a setter, loads, `NULL`, `CLEAR`; silent statements that fail |
| `Connection` | `DirectConnection` | two asynchronous updates, a synchronous one, a query, cancellation, the timer, `close()` |
| `Notifier` | `Notifier` | one resource with two notified classes in two graphs, a signal of another endpoint, failing queries, stopping and dropping |
| `Sparql` | `MCSparql` | five scripts of up to eight batches with every update operation, and a reader with one of 36 prepared queries at any moment |
| `Remote` | `MCRemote` | 22 jobs of two clients over bus, portal and HTTP, each with one fault |
| `Formats` | `MCFormats` | resources and cursors through five formats, in pieces, cut or failing |
| `Manager` | `MCManager` | five versions of an ontology over new and old files, crashes, locales |
| `Interfaces` | `Interfaces` | three queries over two interfaces, an update, a release of memory, a failure |

What the properties say:

*Write path.* `ImplementsTripleStore`: every behaviour is one of `TripleStore`,
in which a statement takes effect at once on a set of triples, a conflicting
transaction can only be aborted, and a commit publishes all. The refinement maps
the abstract triples to what the tables will hold *once the pending log is
executed* (`View`); so a merge that reorders two changes, a class removed too
early, or a flush at the wrong moment shows as a step the abstract store does not
have. As a statement without effect would pass for stuttering, the property also
asks that each statement has the effect of that statement (`TakesEffect`), and
aborts the transaction only if the subject is not of the property's domain or
the transaction is doomed by an earlier conflict. `RefcountCovers`: no id is
referenced more often than its Refcount row says (the other direction, a count
too high, only leaks an id; the code has such leaks, see section 5).
`NoDanglingIds`: ids in tables survive every clean-up, and ids in the cache
exist. `ClassInference`: rows, `rdf:type` values and the class hierarchy agree.
`FtsMatches`, `DomainIndexesMatch`: the derived structures agree with the
columns. `BufferedTypesCurrent`: the types in memory are those the tables will
have.
`ChangesAnnounced`: every resource a commit changes was announced to the
notifiers.

*Connection.* `OneWriter`, `AnswersTruthful`, `ArrivalOrder` ("executed
sequentially on arrival order", comments in `tracker-connection.c`),
`ReadsConfirmed` (read your writes, across threads), `OrderlyClose`, `Answered`
(every call, unless the connection is closed meanwhile), `CloseEnds`.

*Notifier.* `InOrder`, `UrnsKnown`, `NothingLost`, `EventsTellChanges` (the event
collected for a resource says what the transaction as a whole made of it; with
several notified classes, exactly when a resource is told to be gone although it
has one of them left),
`QuietOnceDetached` (once the callbacks are removed, nothing adds to the batches
that may still be emitted), `Announced`.

*Requests.* `AnswerExact`: a query answers what the algebra defines for the data
when it runs and the graphs when it was translated; it fails only if a graph is
gone or its constraints forbid it. `UpdateExact`: a statement leaves what its
operations mean one after the other, and fails only where one of them must.
`TranslationsCurrent`: an equal generation means a translation for the current
graphs.

*Services.* `OwnRows`: the rows of a cursor answer the query and values of its
own call, in order, from one snapshot that has every update known to be done,
and none is missing when the cursor says that there are no more.
`CommittedWhole`: a request is in the log whole or not at all, with the values it
had when it was made, and its answer says so; only of a deserialization whose client
went away a part may be there. `Settles`: whatever happens to the
other side, every call ends, and no pipe, request, task or mail remains.

*Formats.* `RoundTrip`: a reader that ends without an error has given exactly
what was written, as far as the format can express it; a failure of the cursor
is never taken for the end. `RowsExact`: the cursor over a resource gives each
statement once, related resources first. `UpdatesAgree`: storing a resource
directly, over the bus and as the text of an update leaves the same statements:
the old values of the properties that were set are replaced, of the resource and
of all it links to. Over the bus old values stay where names are compact
(`Absolute`), and nothing else is different; a text that has a resource without
properties cannot be parsed (`Complete`), and changes nothing (section 5).
`VariantFaithful`: "in a lossless way".

*Databases.* `SchemaFresh`: however a database came to its ontology, its tables
and indexes are those of a new one, and the next opening reads that ontology.
`UpgradeExact`: data survive as the change says. `NoDanglingIds`: every id has
its name, after conversions, changes and clean-ups. `RefusedForCause`: refused is
exactly what the documentation names.

*Interfaces.* `KeptWhileUsed`: an interface stays, and is counted, while a call or
cursor has it. `CursorExact`: a cursor returns the rows of its own call, once
each, of one version of the data. `CacheTidy`: statements that are not lent hold
neither rows nor values.

### Bounds

- *Write path*: two resources (a link needs two; the second is also what an id
  swept too early would hit), two literals (a conflict needs two), three classes
  in a chain (a class with both a super- and a subclass), four properties (multi-
  valued with and without superproperty, single-valued link, fulltext string),
  four statements per behaviour (`MaxOps`), over any number of transactions.
  Three statements suffice for every way two changes can be merged with a third
  between them; a fourth gives a transaction before them that has committed.
  `UpdateLogSize` is 8 instead of 64, so that one or two statements reach it.
  A behaviour uses one workload: all statements together have too many states.
- *Connection*: two asynchronous tasks show a queue's order, one synchronous call
  the contention; one thread for queries makes a query wait; `MaxQueue` bounds
  what the timer adds.
- *Notifier*: one slot makes a batch of two events take two rounds; three changes
  show each order of joining, changing and leaving a class, and two commits;
  two graphs, two caches per commit; two classes, both notified, so that a resource
  can leave one and keep, join or lose the other (a class that is not notified is to
  an event what a value is, an update); one fault and one signal in any
  place. The run has 1.4 million states.
- *Requests*: two named graphs and the default one (a union view needs three to
  differ from both); classes R > A > B and R > L; the scripts make and drop each
  graph between two executions of a statement, so that a translation is out of
  date in both directions. The reader runs between any two steps of a script.
- *Services*: two clients (one can vanish while the other waits), up to three
  calls each, pipes of two tokens and results of two rows, so that a writer
  blocks; one cached statement, so that a second text evicts it; one fault.
- *Formats*: three operations make a resource with a value replaced and a link
  back; a buffer of 7 tokens splits every document, 80 holds it whole; one cached
  resource, so that the cursor of a resource forgets; a cursor fails at its first
  or third row.
- *Databases*: three openings (one makes, one changes, one changes back or
  finds the change of the one before unfinished), one fact, one fault, one
  named graph; version 2 adds one of everything, 3 takes it away, 4 changes a
  domain, 5 is malformed.
- *Interfaces*: three calls, two with the same text (a statement found lent), two
  interfaces (a third call shares), one statement per cache (each new text evicts),
  two rows (a cursor is left in the middle). This run has 3.2 million states; the
  theorems hold for caches, calls and interfaces of any number.

### Workloads

The statements, requests and documents of the runs leave out combinations for
which the code is known not to do what the reference says (section 5). A property
that holds in a run holds for the inputs of the run; it is not claimed for the
excluded ones.

- *Write path*: deleting a literal while the class row of its column waits to be
  inserted, two sibling subclasses, deletions of a value that has a copy in a
  domain index, `REPLACE` of a multi-valued property and `REPLACE` with `NULL` of
  a single-valued one, setters with several values, on a subproperty or on a
  resource loaded in the same buffer, and `CLEAR` together with statements that
  log nothing. `BufferedTypesCurrent`, the cached ids of `NoDanglingIds` and
  `ImplementsTripleStore` speak of the workloads without silent statements
  (`Loud`): one that fails breaks them.
- *Requests*: negated property sets that are intersected with others, `p` beside
  `!p`, the same triple in two graphs where duplicates matter, zero-length paths
  from resources without a class, requests after a translation that failed,
  `INTO`, `SILENT` and `USING` of an operation followed by one without, `COPY` and
  `MOVE` of the default graph by name, `ADD` onto a graph that has the resource.
- *Formats*: `RoundTrip` excuses Turtle whose end was printed twice (`Carried`);
  numbers, booleans and dates count as strings after Turtle; rows without a value
  and empty or marked up text are excused in XML; JSON-LD keeps the set of rows.
- *Databases*: the versions avoid the changes of section 5 that fail or lose data.

### Fairness, and stopping

`DirectConnection`: weak fairness of each call's own steps, of the pool's thread
taking a task, of the task that releases memory, and of `close()` once begun.
These are the steps of threads that run; a mutex of GLib is not fair in general,
but each update has only a bounded number of rivals here, as the application
makes each call once. No fairness for making calls, cancelling, the timer, or
beginning to close. `Answered` excuses calls made before a `close()`, because
closing drops them (section 5).

`Notifier`: weak fairness of the flushing thread, the worker and the main
context. None for transactions, signals, stopping and dropping. `NothingLost` and
`Announced` excuse a notifier that was stopped or dropped, and behaviours in
which a query failed: the code frees the batch and leaves `querying` set, so
nothing after it is announced (section 5).

`Remote`: weak fairness of `Progress`, the steps of the threads, main loops, bus
and of clients that have rows to read. A behaviour has finitely many steps of
each kind, so that no part can go on for ever while another starves, and one
fairness condition is enough. None for making or cancelling calls and for faults.

The other modules have safety properties only.

`CHECK_DEADLOCK FALSE` is set for all but `TrackerData`, since their calls,
operations, openings or batches are bounded: the system stops when all is done.
That it does not stop earlier is what `Answered`, `CloseEnds`, `Announced` and
`Settles` say. `TrackerData` never stops: it can always begin or end a
transaction.

`Connection` sets `WaitsForCallers`: the application calls `close()` only
while no synchronous call of another thread runs. Without it `OrderlyClose`
fails (section 5).

## 5. Where code and documentation disagree

Four runs are expected to violate their property, which states what the
documentation or a comment says:

| Run | Property | What happens |
|---|---|---|
| `SilentLoses` | `SilentKeepsEarlierWork` | a silent statement that fails at its flush rolls back earlier statements of the update, whose entries were pending when the savepoint was set, and drops them from the buffer |
| `CloseDropsUpdates` | `PendingFlushed` | `close()` drops the updates in the queue and never answers them, although "all pending updates will be flushed" |
| `FulltextStale` | `FulltextCurrent` | `CLEAR`, `COPY`, `MOVE` and `ADD` change the tables of a graph and leave its fulltext index |
| `RebindRace` | `BoundValuesExecuted` | values bound to a bus statement after `update_async()` replace those of the execution under way: its thread reads the statement's own table |

More disagreements came up while modelling. The modules have the behaviour of the
code unless a note says that it is left out; no run is kept for them, and the
passing runs avoid them or state the property that holds.

*Write path*

- `DELETE` of a value that is not stored stores it, when the resource was given
  the property's class in the same buffer: the column is merged into the pending
  `INSERT` of the class row, which has no notion of deleting.
- Removing a class leaves one of two sibling subclasses: the loop runs over the
  array its recursive calls remove from.
- `INSERT OR REPLACE` of a multi-valued property keeps the values it had
  (`delete_single_valued` clears multi-valued properties only above a
  single-valued one); with `NULL`, a single-valued property loses its whole class
  row (`EntryEffect`, `MULTI_CLEAR`).
- A resource stored with a property set to several values
  (`tracker_resource_set_*` then `add_*`) keeps the last: each value clears
  the property first (`RunSetResource`). The bus and the printed update keep all.
- A setter does not overwrite if the resource was created earlier in the same
  buffer by something other than a setter, an RDF file of the same batch for
  one: the resource still counts as new, and nothing is cleared.
- Overwriting a subproperty clears the references of all the values of a
  superproperty, but removes only the values they share.
- A link inserted twice in one buffer into a resource typed in that buffer is
  counted twice (`InsertValue` drops a possible earlier reference only if the
  resource is not new). Counts may thus be too high, and ids leak.
- The copy a domain index keeps survives `DELETE` of the value: the copy's
  update runs after the column is empty, and "delete nothing" deletes nothing.
- After `CLEAR` the buffer may still hold the types of a resource, if the flush
  before it found an empty log.
- `INSERT OR REPLACE` of `NULL` and `CLEAR` announce nothing to notifiers
  (`RunReplaceNull`, `Clear`).
- The cache of ids survives a rollback to the savepoint of a silent statement.

*Connection and notifier*

- `close()` also drops queued queries without an answer, and shuts the
  databases down under a synchronous call of another thread, with its transaction
  open (`WaitsForCallers = FALSE` with `OrderlyClose`).
- A failed query for URIs leaves the notifier's `querying` flag set: batches
  after it wait in the queue for good (`QueryExecuted`, second disjunct).
- A resource that leaves one notified class and keeps another is announced as
  deleted, although "the resource will not exist anymore" (`tracker-notifier.c`,
  documentation of `TrackerNotifier`). `EventsTellChanges` says exactly when: if
  the last notified class that it joined or left in the transaction is one it left
  (`parted`). One that has its notified classes anew is announced as created.
- An idle callback that is pending when `close()` returns still emits, although
  "notifiers will no longer emit events" (`EmitEvents` does not look at
  `stopped`). `QuietOnceDetached` is what remains true.

*Interfaces*

- When all interfaces are taken (16 times the processors), a query shares one
  whose open cursor holds a snapshot, and may read data older than an update
  confirmed before it: it qualifies the connection's `ReadsConfirmed`, and
  `CursorExact` says so.
- A failure to bind leaves the statement borrowed until its cache evicts it.
- Closing frees the interfaces of cursors that are open, "All ongoing SELECT
  queries will be cancelled" notwithstanding; left out.
- `.corrupted` is promised by the documentation of `tracker_sparql_connection_new`
  for a database found corrupt, but only updates notice corruption, on the
  writable interface, and the marker is written for interfaces of the read queue.

*SPARQL* (left out or excluded from the workloads)

- A negated property set with several members intersects pairs of subject and
  object: `!(p|q)` finds a pair that only `p` and `q` connect, and each pair once
  (`core/tracker-sparql.c:6901`). `p` in a query that also has `!p` reads the
  cached element of the other (`core/tracker-sparql-types.c:880`).
- A translation that fails half way leaves the SQL so far, which the next
  execution of the statement runs.
- Blank nodes of an `INSERT` template are shared by all solutions of `WHERE`.
- A pattern in a graph `CONSTRAINT GRAPH` does not allow is an error, while
  `docs/reference/sparql-and-tracker.md:138` says that such a graph is taken for
  an empty one.
- A triple in two graphs is found twice by a query that names no graph.
- The graph of `LOAD … INTO`, `SILENT` and `USING` apply to the operations that
  follow in the same request as well.
- `COPY` and `MOVE` of the default graph to `nrl:DefaultGraph`, its name, clear
  it; `WITH nrl:DefaultGraph` reads nothing. `ADD` replaces class rows of resources the
  target has.
- A generation is used again after a transaction that made graphs is rolled back.
- Zero-length paths start only from resources that have a class.

*Services*

- The data of a deserialization whose client vanishes is committed as far as it
  came: the end of the pipe is taken for the end of the data. In a batch it is
  an error.
- A call that was cancelled, or whose endpoint went away, reports that although its
  update is stored.
- `Query` without a file descriptor, and unknown methods, are answered twice.
- A row that is cut off within a bus cursor is given as a row without values.
- The portal connects to the service in its main loop and serves nobody
  meanwhile.

*Formats* (excluded by `Carried` or by the documents)

- The Turtle serializer never clears `has_triples`
  (`tracker-serializer-turtle.c:279`): a text larger than its buffer ends in
  several " .", and with reads of three bytes or less it never ends. A short read
  may split a token of the reader. White space of more than `BUF_SIZE` counts as
  the end.
- In Turtle and JSON-LD typed literals come back as strings; XML text is written
  without escaping; JSON-LD drops properties without a prefix and, of rows not
  grouped by subject, some that link both ways.
- In variants a cycle of resources does not end, and a shared blank node is
  doubled; a value that was set and then added to is no longer overwritten.
- The update that is printed of a resource contains each related one as a subject of
  its own, also one without properties, for which no property list follows
  (`tracker-resource.c:1445-1475`; only the resource itself is asked whether it is
  empty): the text cannot be parsed. Stored directly or over the bus the same
  resource is accepted.
- A batch over the bus binds the name of a resource as it was given, compact or not,
  to the statement that removes old values (`bus/tracker-bus-batch.c:101-105`), where it
  is compared with whole URIs: the old values of `ex:a` stay.
- Turtle refuses a row that lacks one of subject, predicate and object, TriG only a row
  that lacks all three: of others it prints the rest. The cursors of the run have
  rows of the first and of the last kind.
- A cursor of a merger or a directory goes on after an error.

*Databases* (excluded from the versions of the ontology)

- A new multi-valued superproperty of a property that exists comes after it in
  the order of ids, and its values are copied before its table is made: the next
  graph cannot be created, although `docs/reference/ontologies.md` calls the
  change transparent.
- The range of an indexed single-valued property cannot be changed, nor can its
  cardinality; a changed range of a multi-valued property loses its index on ids.
- Fulltext tables that are made anew stay empty until the next opening.
- A new superproperty overwrites its values with those of one subproperty;
  superclasses that are added or removed leave the `rdf:type` rows.
- Changed weights are not noticed; a secondary index on a property with a higher
  id is read as none.
- Dropping a graph leaves the tables of its multi-valued domain indexes, and it
  cannot be created again.
- A crash between the creation of the file and its first commit leaves version 0,
  which is refused as too old from then on. The marker of corruption is removed
  before the repair, and a crash in between forgets it.

## 6. Proofs

`tlapm DirectConnectionProofs.tla` etc. prove, for every value of the constants
that satisfies the assumptions of the modules:

| Theorem | Says |
|---|---|
| `TypeCorrect` | the connection's type invariant |
| `MutualExclusion` | `OneWriter` |
| `Truthful` | `AnswersTruthful` |
| `ReadYourWrites` | `ReadsConfirmed` |
| `ArrivalOrderKept` | `ArrivalOrder` |
| `OrderlyShutdown` | `OrderlyClose`, if `WaitsForCallers` |
| `StoreTypes` | the type invariant of tables, log and buffer, `TypeOK` of `TrackerData` |
| `IdsResolve` | `NoDanglingIds` of `TrackerData`, as long as `RefcountCovers` and `ClassInference` hold |
| `QuietOutside` | outside transactions nothing is pending and nothing hidden |
| `RefinesTripleStore` | `ImplementsTripleStore`, if statements take effect on the view |
| `NotifierTypes` | the notifier's type invariant |
| `EmittedInOrder` | `InOrder` |
| `EmittedWithUrns` | `UrnsKnown` |
| `NoBatchLost` | `NothingLost` |
| `QuietAfterClose` | `QuietOnceDetached` |
| `ChangesTold` | `EventsTellChanges`, whatever classes are notified |
| `InterfacesTypes` | the type invariant of `Interfaces` |
| `InterfacesKept` | `KeptWhileUsed` |
| `CursorsExact` | `CursorExact` |
| `CachesTidy` | `CacheTidy`, for every size of the caches |
| `AssertionsHold` | the assertions on a statement that is handed out and taken back |
| `OwnRowsHold` | `OwnRows`, for any clients, jobs, portal sessions and faults, and any number of rows |
| `CommittedWholeHolds` | `CommittedWhole`, for any clients, jobs, batches, pipes and faults, if no statement is bound again while a batch with it is under way (`RebindsApart`) |

*Assumptions.* `CallAssumption` and `SizeAssumption` (updates and queries are
disjoint, the two special values are no calls); `ClassAssumption` and
`BoundsAssumption` of the notifier (`None` is no class; a query has at least one
slot) and `NoneAssumption` (nor an event); those of `Interfaces` on its calls, which
are finitely many and no numbers, and its bounds.
`QuietOutside` uses none. `StoreTypes` and `IdsResolve` use
`OntologyShape` and `OntologyHierarchy` (the hierarchies have no cycles, so that the
orders in which the code visits them are sequences; a superproperty has the kind of
its property), `IdsDistinct` (resources are neither classes nor literals),
`StatementsAssumption` (a statement is about a resource and gives a property a value
of its range, which the parser and the conversion of values see to) and
`BoundsAssumption`.

`OwnRowsHold` uses `SitesAssumption`, `PathsAssumption` and `JobsAssumption` of
`Remote` (the service and the portal are on the bus; the path of a session is no
other session's; what goes through the portal has a call of the portal of its own)
and `PipeSizeAssumption` and `CacheAssumption` of the modules it composes.
`CommittedWholeHolds` needs of `JobsAssumption`, besides, that a batch is a sequence of
texts and of data with at least one part, which is what the API lets a batch hold. Its
hypothesis `RebindsApart` is about the program that uses the library: the values of a
statement change before a batch with it is made or after that batch has ended.
Without it the theorem is false, which is what the run `RebindRace` shows: the
writing thread reads the statement's own table, so a batch stores values it was not
made with. `MCRemote` has TLC evaluate it for the jobs of the run `Remote`
(`JobsApart`); `RebindJob`, which binds a statement between two batches, is one.

*DirectConnection.* The invariants are not inductive alone. That two updates are
never past the lock needs to know that the mutex's owner is exactly the update
past it, and that an asynchronous one among them is the task of the pool's
thread (`Mutex`). That an update is stored once needs that its task is
in one place (`Tasks`): once in the queue or in the thread. That an answer
is truthful needs what is stored to go by phase (`Outcome`). That a query
reads what was confirmed needs that what was confirmed when it was called
stays within the prefix it reads (`Reads`), and that `store` only grows
(`StoreGrows`). Arrival order needs that the queue and the task of the thread
before it are a suffix of what was pushed: so what is stored next was pushed after
all that was stored before. `OrderlyShutdown` adds `Left`: who may still be inside at each step
of closing, which relies on the pools being waited for in the right order and
on the application not closing under a synchronous call.

*TrackerData.* Each action is an undo, a step inside the transaction, a begin, a
commit or a reopening (`Steps`).
Flushing is opaque there: the proof does not look at what a statement does, so
it holds whatever the log contains.

`StoreTypes` looks at all of it: each operator of `UpdateBuffer` and `UpdateLog` is
shown to take contexts of the right shape to such contexts, down to the entries a
statement is decomposed into (`Entries`) and what executing them does (`Dbs`). The
folds among them are reasoned about once (`FoldsExist`, `FoldsStay`): what each step
of a fold preserves, the fold does. `Removal` keeps the types of a resource within
those it had by an induction over its depth. That a single-valued column has one value
after the entries of a log ran, in whatever order and place they were merged, is part
of the shape (`SingleValues`).

All this is proved for tables and buffers over a *set of known resources*, so that it
can be used twice: with all of `Uri` it gives the types; with the rows of the Resource
table at the moment, it says that the log, the tables and the cache name no others
(`SoundStore`). A statement makes the row of a resource before anything names it, a
rollback takes rows away together with all that could name them, and the proof
of `IdsResolve` is then about the one step that deletes rows of the Resource table while
tables stay: the clean-up. It deletes those without a row in Refcount. Here the theorem
needs that counts cover references (`RefcountCovers`), and that who has values has a
class (`ClassInference`): these hypotheses are invariants of the run, and no state of it
violates them, but neither is proved (see below). A silent statement that fails takes
back a Resource row behind the back of the cache, so the theorem is about the
behaviours without (`Loud`), as the property is.

The refinement is proved in two parts. What a *transaction* does is a theorem:
`RefinesTripleStore` takes every action of `TrackerData` to a step of `TripleStore`
or a stutter, shows that a flush leaves the view as it is, that an undo aborts, a
commit publishes what the view showed and `CLEAR` empties it, and that no commit
passes over a conflict (`doomed`). What a *statement*
does to the view is its hypothesis, `StatementsTakeEffect`: it quantifies over
what folds over the class and property hierarchies compute. The run checks both
parts, the hypothesis as a conjunct of `ImplementsTripleStore`, for its workloads;
section 5 has statements outside of these that violate it, so that no proof of the
whole is to be had.

*Notifier.* Batches on their way form one line: emitted, idle, the one asked
for, queue. `Line` says that the line is in the order of flushing; `Flag`, that
nothing waits while the flag is down and that a query under way holds it up;
`Whole`, that a batch in an idle callback has been asked for completely. Every
action moves the head of one part to the end of the part before it, or
drops one. `QuietAfterClose` needs, besides, that callbacks are removed only
from a stopped notifier and not while a commit flushes its caches (`Detached`):
then neither a flush, a signal nor the last round of a query adds to what may be
emitted.

What an event says of a resource depends on the order of the changes: `Told`
relates, for each graph and resource, the classes before the transaction, the
classes now, what was lost last (`parted`) and the event that is pending. An event of a class is pushed before or
after the array of types changes, so the lemmas `PushTells` and `ChangeTells` treat
the two cases apart, and `EventFor` says which event a change leaves behind
another (a creation followed by a deletion leaves none).

*Interfaces.* `InterfacesKept` needs `PoolInv`. It says that the users of an interface are the calls and
cursors on it, counted by cardinalities of disjoint finite sets; that a call which
has chosen one has it in the queue; that interfaces in the queue are distinct;
and that whoever looks through the queue holds its lock, so that the number of
places left to look at is right. An interface that is freed was found without
users under that lock, so it is nobody's.

`CursorsExact` and `CachesTidy` need `LoanInv`: the holders of a statement are
distinct (`LentOnce`, `GrabbedByCursors`); a statement that is lent, or was made
outside the cache, has the interface and the values of the cursor that holds it,
from binding to reset (`CursorStates`); one that is not lent, or that nobody has
prepared yet, has neither rows nor values (`TidyCaches`, `FreshClean`); and the
active statements of an interface read one version (`OneSnapshot`). Preparing a statement may evict another from the
cache, and the proof shows that the evicted one is not lent; it does not depend
on how many statements the cache has room for.

*Services.* A row that a client is given was chosen by a thread of another process,
went through a pipe, and for a sandboxed client through a second call and a
second pipe. `IInv` (`RemoteInvariant`) follows it all the way. `Links` and
`Mails` say who a client talks to and which messages lie at whom; `Tasks`, that the
store's queue has only updates whose calls wait for them. For each call `CallInv` has
five parts. `SaysOf`: what a client has, or is being, sent is what it asked, and
a session's call of its own asks the same with the session's constraints.
`RequestOf`: a request that is executing or writing rows is about this text with
these values, whatever the cache of statements held for the same text before, and
is cancelled when its pipe has lost a reader. `Flow`: there is one snapshot, no older
than what was acknowledged when the call was made, of which the rows at the client,
those in the pipe and the next one that is written are the first, in order. That is
counted in tokens: `Taken` by the client, `Arrived` with those in the pipe,
`Produced` by the service; a row of a query is two tokens, which are written and read
in steps of their own, so that a client may hold one half. For a session `Produced`
follows what the inner call has read. `Ends`: a writer that has left a pipe in order
left all rows in it, unless something disturbed the call. `Web` says the same of an
HTTP exchange, whose chunks are not in a pipe but one at a time in the server. None
of these holds alone: that no row is missing at the end of a cursor, say, needs that the
pipe's end was closed by a request that had written all, for which that request must
not have been freed before, which needs that its answer was not an error. Each action
touches one call, or a call and its inner one (`Touches`, `TouchedStep`), and keeps
the rest by `Untouched`; the faults are treated together (`BrokenStep`), since after
one of them only the prefix of rows is still promised.

`CommittedWholeHolds` is about the other direction, and has an invariant of its own on
top of `IInv`: `CInv` of `RemoteCommits`. The operations of an update are not
sent as a message: a thread of the client writes them to a pipe, one token at a time, and
a thread of the service reads them from it, inside the transaction of a batch. What
is stored is what was meant if the two agree on where they are. `TokensFit` says of each
token in the pipe which part of which operation it is, by the number of tokens before it
(`Read`, `Start`): it follows from what the tokens of a batch are in sequence
(`PiecesOf`, `PieceWanted`, an induction over the batch that uses the well-founded
order of the naturals instead of the induction theorem), and each write keeps it
because the values of the statement are still those the batch was made with
(`ValuesOk`, where `RebindsApart` is used). `RunOk` and `ReadsAs` relate what the reader expects
next to the same count, in each of its states: so the operations it has read are the first
ones of the request, a text is never taken for values, and when it stops after the last one,
nothing is missing. `ReadOk` does so for the thread that reads a single update. `TaskOk`
and `Queue` say that an update is in one place (queue, update thread, ended), and
that its request waits there; with `LogOk` and `ReplyOk` it is stored at most once,
exactly if its task ended well, and answered accordingly. `WriterOk` and
`ClientOk` bring that to the client, which has to wait for two things, its own thread and
the answer, and reports one of them: that a broken pipe never hides a success needs
that an update is stored only when all of it was written, unless its writing thread
was stopped before. Most actions do not concern a given update, and keep all this
by `SparedCall`; a fault leaves what is listed in `Damages`.

Only model-checked:

- The liveness properties (`Answered`, `CloseEnds`, `Announced`, `Settles`), which
  need fairness and `ENABLED`.
- The hypothesis `StatementsTakeEffect` of the refinement, and `RefcountCovers`,
  `ClassInference`, `FtsMatches`, `DomainIndexesMatch`, `BufferedTypesCurrent` and
  `ChangesAnnounced` of `TrackerData`. These compare what *different* entries of one
  log add up to (an insertion of a value with the counts before and after it), after
  later entries were merged into earlier ones, and most hold only of the
  workloads of section 4: section 5 has statements outside of these that break them,
  so that a theorem for any statements would be false.
- The properties of requests, formats and databases (`AnswerExact`, `UpdateExact`,
  `TranslationsCurrent`; `RoundTrip`, `RowsExact`, `UpdatesAgree`,
  `VariantFaithful`; `SchemaFresh`, `UpgradeExact`, `NoDanglingIds`,
  `RefusedForCause`): they compare what recursive definitions compute with what
  others do. The modules of requests and formats reach `RECURSIVE` operators, which
  cannot be proved about at all; those of databases have none, but compare folds over
  two ontologies with a third, an induction over data for every ontology.

## 7. What is not modelled

- *Parsing* of SPARQL (`tracker-sparql-grammar.h`, `-parser.c`): tables and
  characters. The translation begins with the parse tree.
- *SQL functions* on strings, dates, geometry and hashes; the SQL text; the
  planning interface of virtual tables.
- *Single characters*: escapes in Turtle, JSON and XML, URIs, dates; the
  *fulltext tokenizer*, text segmentation on top of ICU or libunistring.
- *Conversion of values* and `nrl:added`/`nrl:modified` in the update path.
- *Silent operations with `WHERE`.* The code reads the rows of `WHERE` one at a time;
  the changes of the rows before are in the buffer, where the cursor does not see
  them. `DELETE SILENT` and `INSERT SILENT` flush within the loop, and which rows the
  cursor still finds then, SQLite leaves open. No script of `Sparql` has such an
  operation. That statements and their flushes keep their meaning when silent is
  the matter of `TrackerData`.
- *SQLite*: transactions, savepoints, triggers, snapshots and WAL are taken to do
  what SQLite documents; so are GLib's pools and mutexes, the bus and libsoup.
- *Checkpoints of the WAL*, locks between processes, progress, paths.
- Of the services: the relay and filter of `GraphUpdated` signals, the policy
  files of sandboxes and SQL authorisation, file descriptors passed on by a bus
  connection, setters of properties, empty query texts, Avahi, the page of the
  web IDE, the namespaces of a remote connection, an endpoint dropped with HTTP requests pending. The synchronous
  variants of the clients' calls are taken for the asynchronous ones, which they wait for.
- *An HTTP read that fails in mid body*: `on_bytes_read` sets a status when the headers
  are gone, resumes the message without completing its body and frees the request.
  What the client gets then is up to libsoup.
- Of formats: merging and directory deserializers, comparison of resources, the
  deprecated printer of resources.
- *Subscriptions* of a notifier (bookkeeping of signal handlers), the text of
  its query, the URIs themselves.
- *Command line tools, web IDE, ontology files*: front ends and data.
