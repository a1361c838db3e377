-------------------------------- MODULE Http --------------------------------
(* TrackerEndpointHttp over TrackerHttpServer, and the TrackerRemoteConnection *)
(* over TrackerHttpClient that asks it (src/http, remote/): a query is posted, *)
(* its rows come back in chunks of the response body, each of which is read   *)
(* from the cursor when the one before was written to the network.            *)
EXTENDS ServedStore, BusConnection

CONSTANTS SerializerFormats   \* the formats a response may have, the preferred one first

VARIABLES http         \* per call, the TrackerHttpRequest and the connection it came on

(* stage is what the server does with the request, status and type its answer, *)
(* chunks what the client has not read of its body; open is FALSE when the     *)
(* client closed the connection, lost when the server did before the end.      *)
NoExchange == [stage |-> "none", text |-> NoText, args |-> {}, status |-> 0, type |-> "none",
               chunks |-> <<>>, written |-> 0, snap |-> 0, complete |-> FALSE,
               open |-> FALSE, lost |-> FALSE]

HttpInit == http = [c \in Calls |-> NoExchange]

IsHttp(c) == ask[c].method \in {"post", "get"}
Stage(c, stage) == http[c].stage = stage

(* ---- The client: remote/tracker-remote-statement.c, tracker-remote.c       *)

(* apply_bindings: the values become part of the text; without any the text   *)
(* is sent as it is.                                                          *)
Bindable(asked) ==
  asked.args = {} \/ Needs[asked.text] \subseteq {a[1] : a \in asked.args}

(* execute_statement, create_message: the message is on its way, or there is  *)
(* nobody to take it.                                                         *)
SendMessage(c, asked) ==
  /\ call[c].phase = "idle" /\ IsHttp(c)
  /\ IF ~Bindable(asked)
     THEN /\ call' = [call EXCEPT ![c].phase = "done", ![c].result = "unbound"]
          /\ UNCHANGED http
     ELSE IF "service" \notin up
     THEN /\ call' = [call EXCEPT ![c].phase = "done", ![c].result = "no reply"]
          /\ UNCHANGED http
     ELSE /\ call' = [call EXCEPT ![c].phase = "running"]
          /\ http' = [http EXCEPT ![c] = [NoExchange EXCEPT !.stage = "sent",
                        !.open = TRUE, !.args = asked.args]]
  /\ UNCHANGED <<ask, arguments, busVars>>

(* The headers of the answer go out with its first chunk or its end.          *)
Responded(c) == http[c].written > 0 \/ http[c].complete \/ http[c].lost

(* get_content_type_format: anything but 200 is an error.                     *)
Outcome(c) ==
  IF call[c].cancelled THEN "cancelled"
  ELSE IF http[c].status = 0 THEN "no reply"
  ELSE IF http[c].status # 200 THEN "bad status" ELSE "ok"

(* send_message_cb, query_message_cb: a cursor that deserializes the body.    *)
SendMessageCb(c) ==
  /\ IsHttp(c) /\ call[c].phase = "running"
  /\ Responded(c) \/ call[c].cancelled
  /\ call' = [call EXCEPT ![c].phase = "done", ![c].result = Outcome(c),
                ![c].cursor = IF Outcome(c) = "ok" THEN "open" ELSE "none"]
  /\ http' = [http EXCEPT ![c].open = Outcome(c) = "ok"]
  /\ UNCHANGED <<ask, arguments, busVars>>

(* The cursor over the response: a body that breaks off is an error.          *)
HttpCursorNext(c) ==
  /\ IsHttp(c) /\ call[c].cursor = "open" /\ ~call[c].cancelled
  /\ \/ /\ http[c].chunks # <<>>
        /\ CursorRow(c, Head(http[c].chunks))
        /\ http' = [http EXCEPT ![c].chunks = Tail(@)]
     \/ /\ http[c].chunks = <<>> /\ http[c].complete
        /\ call' = [call EXCEPT ![c].cursor = "end"]
        /\ UNCHANGED http
     \/ /\ http[c].chunks = <<>> /\ http[c].lost
        /\ call' = [call EXCEPT ![c].cursor = "closed", ![c].result = "no reply"]
        /\ http' = [http EXCEPT ![c].open = FALSE]
  /\ UNCHANGED <<ask, arguments, busVars>>

HttpCursorClose(c) ==
  /\ IsHttp(c) /\ call[c].cursor \in {"open", "end"}
  /\ call' = [call EXCEPT ![c].cursor = "closed"]
  /\ http' = [http EXCEPT ![c].open = FALSE]
  /\ UNCHANGED <<ask, arguments, busVars>>

(* ---- The server: src/http/tracker-http-module.c, tracker-endpoint-http.c   *)

(* pick_format, the first one of those in the Accept header.                  *)
Picked(formats) ==
  {SerializerFormats[i] : i \in {k \in DOMAIN SerializerFormats :
     /\ SerializerFormats[k] \in formats
     /\ \A j \in 1..(k - 1) : SerializerFormats[j] \notin formats}}

(* A mutant: the message stays paused.                                        *)
SoupErrorPaused(c, code) ==
  http' = [http EXCEPT ![c].stage = "freed", ![c].status = code]

(* tracker_http_server_soup_error: the message goes on, the request is freed. *)
SoupError(c, code) ==
  http' = [http EXCEPT ![c] = [@ EXCEPT !.stage = "freed", !.status = code, !.complete = TRUE]]

(* tracker_http_server_soup_response: the first read of the stream begins.    *)
SoupResponse(c, type) ==
  http' = [http EXCEPT ![c] = [@ EXCEPT !.stage = "reading", !.status = 200, !.type = type]]

(* A mutant: the text is executed as it came.                                 *)
RequestCbUnchanged(c, blocked) ==
  LET formats == Picked(ask[c].formats) IN
  IF blocked \/ (ask[c].method = "post" /\ formats = {}) THEN SoupError(c, 400)
  ELSE IF ask[c].method = "post"
  THEN \E type \in formats :
         http' = [http EXCEPT ![c].stage = "querying", ![c].type = type,
                    ![c].text = Plain(ask[c].text)]
  ELSE \E type \in (IF formats = {} THEN {"ttl"} ELSE formats) : SoupResponse(c, type)

(* sparql_server_request_cb: an address that is not let in and a query nobody *)
(* can read the answer of are errors; without a query the endpoint describes  *)
(* itself, in Turtle if need be.                                              *)
RequestCb(c, blocked) ==
  LET formats == Picked(ask[c].formats) IN
  IF blocked \/ (ask[c].method = "post" /\ formats = {}) THEN SoupError(c, 400)
  ELSE IF ask[c].method = "post"
  THEN \E type \in formats :
         http' = [http EXCEPT ![c] = [@ EXCEPT !.stage = "querying", !.type = type,
                                      !.text = Rewritten("web", Plain(ask[c].text))]]
  ELSE \E type \in (IF formats = {} THEN {"ttl"} ELSE formats) : SoupResponse(c, type)

(* sparql_server_callback: a POST whose body did not come yet is waited for.  *)
SparqlServerCallback(c, blocked) ==
  /\ Stage(c, "sent")
  /\ RequestCb(c, blocked)
     \/ /\ ask[c].method = "post"
        /\ http' = [http EXCEPT ![c].stage = "awaiting body"]

(* server_callback_got_message_body                                           *)
GotMessageBody(c, blocked) ==
  /\ Stage(c, "awaiting body")
  /\ RequestCb(c, blocked)

(* query_async_cb                                                             *)
QueryAsyncCb(c) ==
  /\ Stage(c, "querying")
  /\ IF Executable(http[c].text, http[c].args) THEN SoupResponse(c, http[c].type)
     ELSE SoupError(c, 400)

(* on_bytes_read: a chunk for the network, or the end of the body.            *)
OnBytesRead(c, next) ==
  /\ Stage(c, "reading")
  /\ \/ /\ next = {}
        /\ http' = [http EXCEPT ![c] = [@ EXCEPT !.stage = "freed", !.complete = TRUE]]
     \/ \E row \in next :
          http' = [http EXCEPT ![c] = [@ EXCEPT !.stage = "writing", !.snap = row.snap,
                                       !.written = http[c].written + 1,
                                       !.chunks = Append(http[c].chunks, row)]]

(* on_chunk_written reads the next one; on_message_finished, when the write   *)
(* fails because the client is gone, frees the request.                       *)
OnChunkWritten(c) ==
  /\ Stage(c, "writing") /\ http[c].open
  /\ http' = [http EXCEPT ![c].stage = "reading"]

OnMessageFinished(c) ==
  /\ Stage(c, "writing") /\ ~http[c].open
  /\ http' = [http EXCEPT ![c].stage = "freed"]

(* The process of the server dies with the requests it had not completed.     *)
HttpVanished ==
  http' = [c \in Calls |->
             IF http[c].stage \in {"none", "freed"} THEN http[c]
             ELSE [http[c] EXCEPT !.stage = "freed", !.lost = TRUE]]
=============================================================================
