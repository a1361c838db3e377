---------------------------- MODULE DBusEndpoint ----------------------------
(* TrackerEndpointDBus (tracker-endpoint-dbus.c): an object on the bus that   *)
(* serves a connection.  The main loop handles the method calls of the object *)
(* and the callbacks; an update is read and a result is written by a thread   *)
(* each.  The same code serves the store of a service and, in the portal, a   *)
(* bus connection to a service: where the connection matters the actions say  *)
(* what it answers by a parameter.                                            *)
EXTENDS ServedStore

CONSTANTS RowCount     \* the rows of every answer

VARIABLES req,         \* per call, the QueryRequest or UpdateRequest made for it
          objects      \* the hosts whose endpoint is registered

requestVars == <<req, objects>>

NoRequest == [phase |-> "none", host |-> "none", text |-> NoText, args |-> {},
              cancelled |-> FALSE, snap |-> 0, written |-> 0, row |-> {}]

RequestInit(registered) ==
  /\ req = [c \in Calls |-> NoRequest]
  /\ objects = registered

At(c, phase) == req[c].phase = phase
Moved(c, phase) == req' = [req EXCEPT ![c].phase = phase]

(* An invocation that is answered at once: the descriptor that came with it   *)
(* is closed.                                                                 *)
Refused(c, error) ==
  /\ Answered(c, error)
  /\ ServiceEndClosed(c)
  /\ UNCHANGED <<req, queue>>

(* endpoint_dbus_iface_method_call, what it rejects before anything is read.  *)
Rejection(h, c, blocked) ==
  IF h \notin objects THEN "unknown method"
  ELSE IF blocked \/ (sent[c].method \in Uploads /\ policy[h].readonly)
  THEN "access denied" ELSE "none"

(* Query and Serialize: a request that watches its descriptor, a statement    *)
(* from the cache with the values of this call, and its execution, which gets *)
(* a copy of these values.  compiled is FALSE when the connection refuses to  *)
(* prepare the statement.                                                     *)
BeginQuery(h, c, compiled, phase) ==
  LET text == Rewritten(h, sent[c].text) IN
  IF compiled
  THEN /\ SelectAndBind(h, text, sent[c].args)
       /\ req' = [req EXCEPT ![c] = [NoRequest EXCEPT !.phase = phase, !.host = h,
                    !.text = text, !.args = bindings'[h][text]]]
       /\ UNCHANGED <<reply, pipe, queue>>
  ELSE Refused(c, "parse error") /\ UNCHANGED endpointVars

(* update_request_new: Update and UpdateBlank start a thread that reads the   *)
(* request, UpdateArray and Deserialize leave the descriptor to the store.    *)
NewUpdate(h, c, phase) ==
  req' = [req EXCEPT ![c] = [NoRequest EXCEPT !.phase = phase, !.host = h]]

BeginUpdate(h, c) ==
  LET method == sent[c].method IN
  /\ \/ method \in {"update", "blank"} /\ NewUpdate(h, c, "op") /\ UNCHANGED queue
     \/ method \in {"array", "deserialize"} /\ NewUpdate(h, c, "stream")
        /\ Queued([call |-> c, kind |-> method, text |-> NoText])
  /\ UNCHANGED <<reply, pipe, endpointVars>>

MethodCall(site, h, c, blocked, compiled, phase) ==
  /\ site \in up /\ mail[site] # <<>> /\ c = Head(mail[site])
  /\ Delivered(site)
  /\ LET error == Rejection(h, c, blocked) IN
       \/ /\ error # "none"
          /\ Refused(c, error) /\ UNCHANGED endpointVars
       \/ /\ error = "none" /\ sent[c].method \in Downloads
          /\ BeginQuery(h, c, compiled, phase)
       \/ /\ error = "none" /\ sent[c].method \in Uploads
          /\ BeginUpdate(h, c)
  /\ UNCHANGED <<sent, up, running, log, outcome, objects>>

(* handle_read_update, in its thread: the operation, its text, and the length *)
(* 0 of parameters that an update never has.                                  *)
ReadUpdate(c) ==
  /\ req[c].phase \in {"op", "text", "params"}
  /\ \/ /\ pipe[c].data # <<>>
        /\ Consumed(c)
        /\ LET token == Head(pipe[c].data)  r == req[c] IN
           req' = [req EXCEPT ![c] =
             CASE r.phase = "op"     -> [r EXCEPT !.phase = "text"]
               [] r.phase = "text"   -> [r EXCEPT !.phase = "params",
                                           !.text = Rewritten(r.host, Plain(token[2]))]
               [] r.phase = "params" -> [r EXCEPT !.phase = "read"]]
     \/ /\ EndOfStream(c)
        /\ Moved(c, "unread")
        /\ UNCHANGED pipe
  /\ UNCHANGED <<mail, reply, sent, up, storeVars, endpointVars, objects>>

(* The update that was read is queued; what could not be read, or was read    *)
(* for an endpoint that is gone, is an error.                                 *)
ReadEnded(c, method) ==
  /\ sent[c].method = method
  /\ req[c].phase \in {"read", "unread"}
  /\ IF At(c, "read") /\ req[c].host \in objects
     THEN /\ Queued([call |-> c, kind |-> method, text |-> req[c].text])
          /\ Moved(c, "updating")
          /\ UNCHANGED <<reply, pipe>>
     ELSE /\ Answered(c, IF At(c, "read") THEN "cancelled" ELSE "stream ended")
          /\ ReaderClosed(c)
          /\ Moved(c, "freed")
          /\ UNCHANGED queue
  /\ UNCHANGED <<mail, sent, up, running, log, outcome, endpointVars,
                 objects>>

ReadUpdateCb(c) == ReadEnded(c, "update")
ReadUpdateBlankCb(c) == ReadEnded(c, "blank")

(* The answer of an update.  A task of an endpoint that was cancelled         *)
(* meanwhile ends as cancelled, whatever it did.                              *)
TaskEnded(c, method) ==
  /\ sent[c].method = method
  /\ req[c].phase \in {"updating", "stream"} /\ outcome[c] # "none"
  /\ Answered(c, IF req[c].host \in objects THEN outcome[c] ELSE "cancelled")
  /\ ReaderClosed(c)
  /\ Moved(c, "freed")
  /\ UNCHANGED <<mail, sent, up, storeVars, endpointVars, objects>>

UpdateCb(c) == TaskEnded(c, "update")
UpdateBlankCb(c) == TaskEnded(c, "blank")
BatchExecuteCb(c) == TaskEnded(c, "array")
DeserializeCb(c) == TaskEnded(c, "deserialize")

(* fd_watch_cb: the other side closed its end.                                *)
FdWatch(c) ==
  /\ req[c].phase \in {"executing", "serving", "values", "ending"}
  /\ Broken(c) /\ ~req[c].cancelled
  /\ req' = [req EXCEPT ![c].cancelled = TRUE]
  /\ UNCHANGED <<busVars, storeVars, endpointVars, objects>>

(* An error is the answer, and the request is freed with its end of the pipe. *)
StmtFailed(c, failure) ==
  /\ Answered(c, failure)
  /\ WriterClosed(c)
  /\ Moved(c, "freed")

StmtEnded(c, method, error, phase) ==
  /\ At(c, "executing") /\ sent[c].method = method
  /\ LET failure == IF req[c].cancelled THEN "cancelled" ELSE error IN
       IF failure # "none" THEN StmtFailed(c, failure)
       ELSE Answered(c, "ok") /\ Moved(c, phase) /\ UNCHANGED pipe
  /\ UNCHANGED <<mail, sent, up, storeVars, endpointVars, objects>>

(* stmt_execute_cb and the start of handle_cursor_reply: the names of the     *)
(* variables are the answer, rows follow in the pipe.                         *)
StmtExecuteCb(c, error) == StmtEnded(c, "query", error, "serving")

(* stmt_serialize_cb: an empty answer, the data follow.                       *)
StmtSerializeCb(c, error) == StmtEnded(c, "serialize", error, "splicing")

StmtExecuted(c, error) == StmtExecuteCb(c, error) \/ StmtSerializeCb(c, error)

(* write_cursor, the next row the cursor has, or none when it has no more:    *)
(* how many columns come, and then their types, offsets and values; the       *)
(* cancellable is looked at before each.                                      *)
Gone(c) == req[c].cancelled \/ Broken(c)

PutHeader(c, next) ==
  /\ At(c, "serving")
  /\ \/ /\ Gone(c) \/ next = {}
        /\ Moved(c, "ending") /\ UNCHANGED pipe
     \/ \E row \in next :
        /\ ~Gone(c) /\ CanWrite(c)
        /\ Written(c, <<"columns">>)
        /\ req' = [req EXCEPT ![c].phase = "values", ![c].row = {row}]
  /\ UNCHANGED <<mail, reply, sent, up, storeVars, endpointVars, objects>>

PutValues(c) ==
  /\ At(c, "values")
  /\ \/ /\ Gone(c)
        /\ Moved(c, "ending") /\ UNCHANGED pipe
     \/ \E row \in req[c].row :
        /\ ~Gone(c) /\ CanWrite(c)
        /\ Written(c, <<"row", row>>)
        /\ req' = [req EXCEPT ![c].phase = "serving", ![c].row = {},
                              ![c].written = @ + 1, ![c].snap = row.snap]
  /\ UNCHANGED <<mail, reply, sent, up, storeVars, endpointVars, objects>>

(* g_output_stream_splice_async of a serialization: it stops for an endpoint  *)
(* that is gone or a pipe nobody reads, not for the request's cancellable.    *)
SpliceRdf(c, next) ==
  /\ At(c, "splicing")
  /\ LET gone == req[c].host \notin objects \/ Broken(c) IN
     \/ /\ gone \/ next = {}
        /\ Moved(c, "ending") /\ UNCHANGED pipe
     \/ \E row \in next :
        /\ ~gone /\ CanWrite(c)
        /\ Written(c, <<"rdf", row>>)
        /\ req' = [req EXCEPT ![c].written = @ + 1, ![c].snap = row.snap]
  /\ UNCHANGED <<mail, reply, sent, up, storeVars, endpointVars, objects>>

(* query_request_free closes the pipe, finish_query drops the cursor.         *)
FreeRequest(c) ==
  /\ At(c, "ending")
  /\ Moved(c, "freed")
  /\ WriterClosed(c)
  /\ UNCHANGED <<mail, reply, sent, up, storeVars, endpointVars, objects>>

(* tracker_endpoint_dbus_finalize: the cancellable of the endpoint cancels    *)
(* every request, the object leaves the bus.                                  *)
Finalized(h) ==
  /\ objects' = objects \ {h}
  /\ req' = [c \in Calls |-> [req[c] EXCEPT !.cancelled = @ \/ req[c].host = h]]
=============================================================================
