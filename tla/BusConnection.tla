---------------------------- MODULE BusConnection ----------------------------
(* TrackerBusConnection with its statements and cursors (bus/): each call     *)
(* sends a message with one end of a pipe.  A request is written to the pipe  *)
(* by a thread of its own, the call ends when both the answer came and the    *)
(* thread ended.  The answer of a query is a cursor, which reads the rows     *)
(* from the pipe while the service writes them.                               *)
EXTENDS DBus, Endpoint

CONSTANTS Stmts        \* the statements clients keep

VARIABLES ask,         \* per call, what its caller asks for
          call,        \* per call, the GTask and the cursor it returned
          arguments    \* per statement, the values bound to it

clientVars == <<ask, call, arguments>>

(* What a caller can ask for: a method with a query text, a text to update    *)
(* with, the operations of a batch or the data of a document in n parts; the  *)
(* statement it comes from, the values it copies from it, and the calls the   *)
(* caller waits for before it makes this one; over HTTP, the formats it takes.*)
NoAsk == [client |-> "none", method |-> "none", text |-> "none", args |-> {},
          ops |-> <<>>, n |-> 0, formats |-> {}, after |-> {}]

IdleCall == [phase |-> "idle", dbus |-> "none", write |-> "none", pos |-> 1,
             cancelled |-> FALSE, result |-> "none", cursor |-> "none", rows |-> <<>>]

ClientInit(asked, bound) ==
  /\ ask = asked
  /\ call = [c \in Calls |-> IdleCall]
  /\ arguments = bound

Uploading(c) == ask[c].method \in Uploads

(* A call of the interface with one end of a new pipe: its task, and the      *)
(* thread that writes the request when there is one.                          *)
CallMethod(c, site, path, method, text, args) ==
  /\ SendCall(c, site, [method |-> method, path |-> path, text |-> text, args |-> args])
  /\ call' = [call EXCEPT ![c].phase = "running",
                          ![c].write = IF method \in Uploads THEN "busy" ELSE "none"]

(* perform_query_async, of a query or a statement with its values.            *)
CallQuery(c, site, path, asked) ==
  /\ asked.method = "query"
  /\ CallMethod(c, site, path, "query", Plain(asked.text), asked.args)

(* perform_serialize_async                                                    *)
CallSerialize(c, site, path, asked) ==
  /\ asked.method = "serialize"
  /\ CallMethod(c, site, path, "serialize", Plain(asked.text), asked.args)

(* tracker_bus_connection_update_async                                        *)
CallUpdate(c, site, path, asked) ==
  /\ asked.method = "update"
  /\ CallMethod(c, site, path, "update", NoText, {})

(* tracker_bus_connection_update_blank_async                                  *)
CallUpdateBlank(c, site, path, asked) ==
  /\ asked.method = "blank"
  /\ CallMethod(c, site, path, "blank", NoText, {})

(* tracker_bus_connection_perform_update_async: a batch without operations is *)
(* done without a message.                                                    *)
CallUpdateArray(c, site, path, asked) ==
  /\ asked.method = "array"
  /\ IF asked.ops = <<>>
     THEN /\ call' = [call EXCEPT ![c].phase = "done", ![c].result = "ok"]
          /\ UNCHANGED busVars
     ELSE CallMethod(c, site, path, "array", NoText, {})

(* tracker_bus_connection_deserialize_async                                   *)
CallDeserialize(c, site, path, asked) ==
  /\ asked.method = "deserialize"
  /\ CallMethod(c, site, path, "deserialize", NoText, {})

StartCall(c, site, path, asked) ==
  /\ call[c].phase = "idle"
  /\ \/ CallQuery(c, site, path, asked)
     \/ CallSerialize(c, site, path, asked)
     \/ CallUpdate(c, site, path, asked)
     \/ CallUpdateBlank(c, site, path, asked)
     \/ CallUpdateArray(c, site, path, asked)
     \/ CallDeserialize(c, site, path, asked)
  /\ UNCHANGED arguments

(* write_sparql_query_in_thread, write_sparql_queries_in_thread and the       *)
(* splice of a deserialization, in the pieces the reader takes them in.  The  *)
(* values of a statement are those bound to it when they are written.         *)
OpPieces(op) ==
  IF op.kind = "sparql"
  THEN << <<"op", "sparql">>, <<"text", op.text>>, <<"params", op.stmt>> >>
  ELSE << <<"op", "rdf">>, <<"graph", "default">> >> \o
       [i \in 1..op.n |-> <<"data", op.text, op.n>>]

BatchPieces(ops) == FlattenSeq([k \in DOMAIN ops |-> OpPieces(ops[k])])

Pieces(c) ==
  CASE ask[c].method \in {"update", "blank"} ->
         << <<"op", "sparql">>, <<"text", ask[c].text>>, <<"params", "none">> >>
    [] ask[c].method = "array" -> << <<"count", Len(ask[c].ops)>> >> \o BatchPieces(ask[c].ops)
    [] ask[c].method = "deserialize" -> [i \in 1..ask[c].n |-> <<"rdf", ask[c].text, i>>]

Piece(c) ==
  LET piece == Pieces(c)[call[c].pos] IN
  IF piece[1] = "params"
  THEN <<"params", IF piece[2] = "none" THEN {} ELSE arguments[piece[2]]>>
  ELSE piece

WriterEnds(c, how) ==
  /\ call' = [call EXCEPT ![c].write = how]
  /\ WriterClosed(c)

WritePiece(c) ==
  /\ call[c].write = "busy"
  /\ \/ /\ call[c].cancelled
        /\ WriterEnds(c, "cancelled")
     \/ /\ ~call[c].cancelled /\ call[c].pos > Len(Pieces(c))
        /\ WriterEnds(c, "ok")
     \/ /\ ~call[c].cancelled /\ call[c].pos <= Len(Pieces(c)) /\ Broken(c)
        /\ WriterEnds(c, "broken pipe")
     \/ /\ ~call[c].cancelled /\ call[c].pos <= Len(Pieces(c)) /\ CanWrite(c)
        /\ Written(c, Piece(c))
        /\ call' = [call EXCEPT ![c].pos = @ + 1]
  /\ UNCHANGED <<ask, arguments, mail, reply, sent, up>>

(* The answer arrives; a cancelled call does not wait for it.                 *)
Failed(answer) == answer # "ok"

AnswerArrives(c, method) ==
  /\ ask[c].method = method
  /\ call[c].phase = "running" /\ call[c].dbus = "none"
  /\ reply[c] # "none" \/ call[c].cancelled

Answer(c) == IF call[c].cancelled THEN "cancelled" ELSE reply[c]

(* query_dbus_call_cb: a cursor on the pipe, or an error that drops it.       *)
ReceiveCursor(c) ==
  /\ AnswerArrives(c, "query")
  /\ call' = [call EXCEPT ![c].dbus = Answer(c), ![c].phase = "done",
                ![c].result = Answer(c),
                ![c].cursor = IF Failed(Answer(c)) THEN "none" ELSE "open"]
  /\ IF Failed(Answer(c)) THEN ReaderClosed(c) ELSE UNCHANGED pipe

(* serialize_call_cb: the stream itself.                                      *)
ReceiveStream(c) ==
  /\ AnswerArrives(c, "serialize")
  /\ call' = [call EXCEPT ![c].dbus = Answer(c), ![c].phase = "done",
                ![c].result = Answer(c),
                ![c].cursor = IF Failed(Answer(c)) THEN "none" ELSE "open"]
  /\ IF Failed(Answer(c)) THEN ReaderClosed(c) ELSE UNCHANGED pipe

(* update_dbus_call_cb and deserialize_cb keep it for check_finish.           *)
ReceiveUpdated(c) ==
  /\ \E method \in Uploads \ {"deserialize"} : AnswerArrives(c, method)
  /\ call' = [call EXCEPT ![c].dbus = Answer(c)]
  /\ UNCHANGED pipe

ReceiveDeserialized(c) ==
  /\ AnswerArrives(c, "deserialize")
  /\ call' = [call EXCEPT ![c].dbus = Answer(c)]
  /\ UNCHANGED pipe

ReceiveReply(c) ==
  /\ ReceiveCursor(c) \/ ReceiveStream(c) \/ ReceiveUpdated(c) \/ ReceiveDeserialized(c)
  /\ UNCHANGED <<ask, arguments, mail, reply, sent, up>>

(* check_finish_update, check_finish_deserialize: an error of the answer wins *)
(* over one of the writer, and a cancelled task returns neither.              *)
CheckFinishOf(c, methods) ==
  /\ call[c].phase = "running" /\ ask[c].method \in methods
  /\ call[c].dbus # "none" /\ call[c].write # "busy"
  /\ call' = [call EXCEPT ![c].phase = "done",
                ![c].result = IF call[c].cancelled THEN "cancelled"
                              ELSE IF Failed(call[c].dbus) THEN call[c].dbus
                              ELSE call[c].write]
  /\ UNCHANGED <<ask, arguments, busVars>>

CheckFinishUpdate(c) == CheckFinishOf(c, Uploads \ {"deserialize"})
CheckFinishDeserialize(c) == CheckFinishOf(c, {"deserialize"})
CheckFinish(c) == CheckFinishUpdate(c) \/ CheckFinishDeserialize(c)

(* The caller cancels a call that is running or whose cursor it reads.        *)
CancelCall(c) ==
  /\ call[c].phase = "running" \/ call[c].cursor \in {"open", "row"}
  /\ ~call[c].cancelled
  /\ call' = [call EXCEPT ![c].cancelled = TRUE]
  /\ UNCHANGED <<ask, arguments, busVars>>

(* tracker_bus_cursor_next: the number of columns first, where an end of the  *)
(* stream is the end of the rows; then the types, offsets and values, where   *)
(* an end of the stream is not noticed and leaves the row unbound.            *)
UnboundRow == [text |-> Plain("unbound"), args |-> {}, n |-> 0, snap |-> 0]

CursorRow(c, row) ==
  call' = [call EXCEPT ![c].cursor = "open", ![c].rows = Append(@, row)]

CursorNext(c) ==
  /\ call[c].cursor \in {"open", "row"} /\ ask[c].method = "query"
  /\ ~call[c].cancelled
  /\ \/ /\ call[c].cursor = "open" /\ pipe[c].data # <<>>
        /\ call' = [call EXCEPT ![c].cursor = "row"]
        /\ Consumed(c)
     \/ /\ call[c].cursor = "open" /\ EndOfStream(c)
        /\ call' = [call EXCEPT ![c].cursor = "end"]
        /\ UNCHANGED pipe
     \/ /\ call[c].cursor = "row" /\ pipe[c].data # <<>>
        /\ CursorRow(c, Head(pipe[c].data)[2])
        /\ Consumed(c)
     \/ /\ call[c].cursor = "row" /\ EndOfStream(c)
        /\ CursorRow(c, UnboundRow)
        /\ UNCHANGED pipe
  /\ UNCHANGED <<ask, arguments, mail, reply, sent, up>>

(* The stream a serialization returned, read by its caller.                   *)
StreamRead(c) ==
  /\ call[c].cursor = "open" /\ ask[c].method = "serialize"
  /\ ~call[c].cancelled
  /\ \/ /\ pipe[c].data # <<>>
        /\ CursorRow(c, Head(pipe[c].data)[2])
        /\ Consumed(c)
     \/ /\ EndOfStream(c)
        /\ call' = [call EXCEPT ![c].cursor = "end"]
        /\ UNCHANGED pipe
  /\ UNCHANGED <<ask, arguments, mail, reply, sent, up>>

(* tracker_bus_cursor_close, at the end, after an error or before.            *)
CloseCursor(c) ==
  /\ call[c].cursor \in {"open", "row", "end"}
  /\ call' = [call EXCEPT ![c].cursor = "closed"]
  /\ ReaderClosed(c)
  /\ UNCHANGED <<ask, arguments, mail, reply, sent, up>>

(* tracker_bus_statement_bind_string and its like.                            *)
Rebind(s, values) ==
  /\ arguments' = [arguments EXCEPT ![s] = values]
  /\ UNCHANGED <<ask, call, busVars>>

(* The process of a client dies: its ends of the pipes are closed.            *)
ClientVanished(client) ==
  LET mine == {c \in Calls : ask[c].client = client} IN
  /\ call' = [c \in Calls |->
                IF c \in mine
                THEN [call[c] EXCEPT !.phase = "gone", !.write = "none", !.cursor = "none"]
                ELSE call[c]]
  /\ pipe' = [c \in Calls |->
                IF c \notin mine THEN pipe[c]
                ELSE IF Uploading(c) THEN [pipe[c] EXCEPT !.writer = FALSE]
                ELSE [pipe[c] EXCEPT !.reader = FALSE]]
  /\ UNCHANGED <<ask, arguments, mail, reply, sent, up>>
=============================================================================
