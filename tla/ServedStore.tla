----------------------------- MODULE ServedStore -----------------------------
(* What a served direct connection does for its endpoint, as far as the       *)
(* endpoint can tell: updates run one after the other in the order in which   *)
(* they were queued, each in a transaction of its own; queries read the       *)
(* committed requests.  A batch that comes over D-Bus and a deserialization   *)
(* read their pipe within the transaction (tracker_data_load_from_dbus_fd,    *)
(* TASK_TYPE_DESERIALIZE), so that the next update waits for their client.    *)
EXTENDS Sequences, FiniteSets, DBus, Endpoint

VARIABLES queue,       \* the update tasks waiting for the update thread
          running,     \* the task the update thread runs and what it did so far
          log,         \* the committed requests: call and operations
          outcome      \* per call, how its task ended, or "none"

storeVars == <<queue, running, log, outcome>>

NoTask == [call |-> "none", expect |-> "none", left |-> 0, ops |-> <<>>, op |-> <<>>]

StoreInit ==
  /\ queue = <<>>
  /\ running = NoTask
  /\ log = <<>>
  /\ outcome = [c \in Calls |-> "none"]

(* A task: its call, its kind and its text, if it has one and does not read   *)
(* it from the pipe.                                                          *)
Queued(task) == queue' = Append(queue, task)

Committed(c, ops) ==
  /\ log' = Append(log, [call |-> c, ops |-> ops])
  /\ outcome' = [outcome EXCEPT ![c] = "ok"]

Aborted(c, error) ==
  /\ outcome' = [outcome EXCEPT ![c] = error]
  /\ UNCHANGED log

(* TASK_TYPE_UPDATE, TASK_TYPE_UPDATE_BLANK: one request, one transaction.    *)
RunUpdate ==
  /\ running = NoTask /\ queue # <<>>
  /\ LET task == Head(queue) IN
       /\ task.kind \in {"update", "blank"}
       /\ IF Executable(task.text, {})
          THEN Committed(task.call, <<[text |-> task.text, args |-> {}]>>)
          ELSE Aborted(task.call, "parse error")
  /\ queue' = Tail(queue)
  /\ UNCHANGED <<running, busVars, endpointVars>>

(* TASK_TYPE_UPDATE_BATCH, TASK_TYPE_DESERIALIZE: the transaction begins,     *)
(* what it reads first is the number of operations or the first statement.    *)
BeginStream ==
  /\ running = NoTask /\ queue # <<>>
  /\ LET task == Head(queue) IN
       /\ task.kind \in {"array", "deserialize"}
       /\ running' = [NoTask EXCEPT !.call = task.call,
                        !.expect = IF task.kind = "array" THEN "count" ELSE "rdf"]
  /\ queue' = Tail(queue)
  /\ UNCHANGED <<log, outcome, busVars, endpointVars>>

(* handle_update_sparql, handle_update_rdf: what the next token does to an    *)
(* operation that is being read.  An operation is executed when its last      *)
(* token was read.                                                            *)
OpDone(t, op) ==
  [t EXCEPT !.ops = Append(@, op), !.op = <<>>, !.left = @ - 1,
            !.expect = IF t.left = 1 THEN "done" ELSE "op"]

AfterToken(t, token) ==
  CASE t.expect = "count"  -> [t EXCEPT !.left = token[2], !.expect = "op"]
    [] t.expect = "op"     -> [t EXCEPT !.expect =
                                 IF token[2] = "sparql" THEN "text" ELSE "graph"]
    [] t.expect = "text"   -> [t EXCEPT !.op = <<token[2]>>, !.expect = "params"]
    [] t.expect = "params" -> OpDone(t, [text |-> Plain(t.op[1]), args |-> token[2]])
    [] t.expect = "graph"  -> [t EXCEPT !.op = <<>>, !.expect = "data"]
    [] t.expect = "data"   ->
         IF Len(t.op) + 1 = token[3]
         THEN OpDone(t, [text |-> Plain(token[2]), args |-> {<<"loaded", Len(t.op) + 1>>}])
         ELSE [t EXCEPT !.op = Append(@, token)]
    [] t.expect = "rdf"    -> [t EXCEPT !.op = Append(@, token)]

(* An operation that cannot be executed ends the batch; only "params" and the   *)
(* last part of a document complete one.                                      *)
LastOpFails(t) ==
  t.ops # <<>> /\ ~Executable(t.ops[Len(t.ops)].text, t.ops[Len(t.ops)].args)

ReadToken ==
  /\ running # NoTask /\ running.expect # "done"
  /\ LET c == running.call  p == pipe[c]  t == AfterToken(running, Head(p.data)) IN
       /\ p.data # <<>>
       /\ IF LastOpFails(t)
          THEN /\ Aborted(c, "parse error")
               /\ running' = NoTask
               /\ pipe' = [pipe EXCEPT ![c].data = Tail(@), ![c].reader = FALSE]
          ELSE /\ running' = t
               /\ Consumed(c)
               /\ UNCHANGED <<log, outcome>>
  /\ UNCHANGED <<queue, mail, reply, sent, up, endpointVars>>

(* A mutant: what was read of a batch is committed.                           *)
ReadEndCommits ==
  /\ running # NoTask /\ running.expect # "done"
  /\ EndOfStream(running.call)
  /\ Committed(running.call,
               IF running.expect = "rdf"
               THEN <<[text |-> Plain("rdf"), args |-> {<<"loaded", Len(running.op)>>}]>>
               ELSE running.ops)
  /\ ReaderClosed(running.call)
  /\ running' = NoTask
  /\ UNCHANGED <<queue, mail, reply, sent, up, endpointVars>>

(* The stream ends.  A deserialization takes that for the end of its data; a  *)
(* batch that was not complete is rolled back, also when the end came within  *)
(* a text: the length that follows it cannot be read.                         *)
ReadEnd ==
  /\ running # NoTask /\ running.expect # "done"
  /\ LET c == running.call IN
       /\ EndOfStream(c)
       /\ IF running.expect = "rdf"
          THEN Committed(c, <<[text |-> Plain("rdf"), args |-> {<<"loaded", Len(running.op)>>}]>>)
          ELSE Aborted(c, "stream ended")
       /\ ReaderClosed(c)
  /\ running' = NoTask
  /\ UNCHANGED <<queue, mail, reply, sent, up, endpointVars>>

CommitBatch ==
  /\ running # NoTask /\ running.expect = "done"
  /\ Committed(running.call, running.ops)
  /\ ReaderClosed(running.call)
  /\ running' = NoTask
  /\ UNCHANGED <<queue, mail, reply, sent, up, endpointVars>>

(* The process dies: the transaction and the queue are gone.                  *)
StoreLost ==
  /\ queue' = <<>>
  /\ running' = NoTask
  /\ UNCHANGED <<log, outcome>>
=============================================================================
