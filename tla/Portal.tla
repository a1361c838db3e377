------------------------------- MODULE Portal -------------------------------
(* The portal (src/portal): a process that opens a session for a sandboxed    *)
(* client, which is an endpoint of the portal, for this client only and for   *)
(* reading only, that serves a bus connection to the service.  A query of the *)
(* client is executed by a query of the portal, whose rows are passed on as   *)
(* they come.                                                                 *)
EXTENDS DBusEndpoint, BusConnection

CONSTANTS SessionPaths,  \* the object paths of sessions, in the order of their numbers
          Inner          \* per call, the call the portal makes for it

VARIABLES sessions,    \* per session that was opened, its peer; "none" when it was closed
          granted      \* whether clients are sandboxed, and the graphs their manifest
                       \* names for the service: none when it does not name it

portalVars == <<sessions, granted>>

Opened == DOMAIN sessions
InSession(c) == sent[c].path \in Opened
ToService(c) == sent[c].path = "service"

(* CreateSession: the policy of the client must name the service, and a       *)
(* connection to the service must come about.  The session is read-only and   *)
(* its endpoint lets the granted graphs through.                              *)
NextSession == SessionPaths[Cardinality(Opened) + 1]

CanCreateSession(site) ==
  /\ "portal" \in up
  /\ granted.graphs # {}
  /\ site \in up
  /\ Cardinality(Opened) < Len(SessionPaths)

CreateSession(peer) ==
  /\ sessions' = [s \in Opened \cup {NextSession} |->
                    IF s \in Opened THEN sessions[s] ELSE peer]
  /\ objects' = objects \cup {NextSession}
  /\ policy' = [policy EXCEPT ![NextSession] = 
                               [OpenPolicy EXCEPT !.readonly = TRUE, !.graphs = granted.graphs]]
  /\ UNCHANGED <<granted, mru, bindings, req>>

(* block_call_cb *)
BlockCall(s, c) == sessions[s] # ask[c].client

SessionMethodCall(c) ==
  /\ InSession(c)
  /\ MethodCall("portal", sent[c].path, c, BlockCall(sent[c].path, c), TRUE, "executing")
  /\ UNCHANGED <<clientVars, portalVars>>

(* tracker_bus_statement_execute_async, serialize_async of the session's      *)
(* connection, with the cancellable of the request.                           *)
SessionForwards(c) ==
  LET i == Inner[c]
      message == [method |-> sent[c].method, path |-> "service",
                  text |-> req[c].text, args |-> req[c].args] IN
  /\ InSession(c) /\ At(c, "executing")
  /\ call[i].phase = "idle"
  /\ ask' = [ask EXCEPT ![i] = [NoAsk EXCEPT !.client = "portal", !.method = message.method]]
  /\ SendCall(i, "service", message)
  /\ call' = [call EXCEPT ![i].phase = "running", ![i].cancelled = req[c].cancelled]
  /\ UNCHANGED <<arguments, storeVars, endpointVars, requestVars, portalVars>>

SessionExecuted(c) ==
  /\ InSession(c) /\ call[Inner[c]].phase = "done"
  /\ StmtExecuted(c, IF call[Inner[c]].result = "ok" THEN "none" ELSE call[Inner[c]].result)
  /\ UNCHANGED <<clientVars, portalVars>>

(* What the cursor of the inner call has for the request: a row, nothing more *)
(* or nothing yet.                                                            *)
HasNext(c) ==
  LET inner == call[Inner[c]] IN
  inner.cursor = "end" \/ Len(inner.rows) > req[c].written \/ inner.cancelled

NextRow(c) ==
  LET rows == call[Inner[c]].rows IN
  IF Len(rows) > req[c].written THEN {rows[req[c].written + 1]} ELSE {}

SessionRow(c) ==
  /\ InSession(c) /\ HasNext(c)
  /\ PutHeader(c, NextRow(c)) \/ SpliceRdf(c, NextRow(c))
  /\ UNCHANGED <<clientVars, portalVars>>

(* The cancellable of a request is the one of its inner call.                 *)
CancelInner(requests) ==
  call' = [c \in Calls |->
             [call[c] EXCEPT !.cancelled = @ \/ (\E r \in requests : Inner[r] = c)]]

(* CloseSession, which only its peer may ask for, and peer_vanished_cb:       *)
(* clear_session drops the endpoint.                                          *)
ClearSession(s) ==
  /\ sessions' = [sessions EXCEPT ![s] = "none"]
  /\ Finalized(s)
  /\ CancelInner({c \in Calls : req[c].host = s})
  /\ UNCHANGED <<granted, ask, arguments, busVars, storeVars, endpointVars>>
=============================================================================
