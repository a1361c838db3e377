------------------------------- MODULE Remote -------------------------------
(* A store served on the session bus and over HTTP, the clients that query    *)
(* and update it and the portal that some of them go through.  A behaviour begins with the  *)
(* clients connected or about to connect, with the calls each of them is      *)
(* going to make, and with what may go wrong in it.                           *)
EXTENDS Portal, Http

CONSTANTS Clients,
          Jobs         \* what the clients of a behaviour do; see Init

(* A client that is about to connect, and one of a connection to the service. *)
New == [state |-> "new", site |-> "none", path |-> "none"]
Direct == [state |-> "ready", site |-> "service", path |-> "service"]

(* The calls of a behaviour that may go through the portal.                   *)
Sandboxed(job) ==
  {c \in Calls : /\ job.granted.sandboxed /\ job.ask[c].client \in Clients
                 /\ job.link[job.ask[c].client] = New}

ASSUME SitesAssumption ==
  /\ {"service", "portal"} \subseteq Sites /\ {"service", "web"} \subseteq Hosts
  /\ RowCount \in Nat

(* The number of a session is in its path.                                    *)
ASSUME PathsAssumption ==
  /\ SessionPaths \in Seq(Hosts \ {"service", "web", "none"})
  /\ \A i, j \in DOMAIN SessionPaths : SessionPaths[i] = SessionPaths[j] => i = j

(* Each client asks for what it asks for; the data of a batch have at least   *)
(* one part.  What goes through the portal has a call of the portal of its    *)
(* own, which is nobody else's.                                               *)
ASSUME JobsAssumption ==
  /\ {"none", "portal"} \cap Clients = {}
  /\ \A job \in Jobs :
       /\ job.ask \in [Calls -> Range(job.ask)]
       /\ job.policy \in [Hosts -> Range(job.policy)]
       /\ job.link \in [Clients -> {New, Direct}]
       /\ \A c \in Calls :
            /\ job.ask[c].client \in Clients \cup {"none"}
            /\ job.ask[c].client = "none" => job.ask[c].method = "none"
            /\ job.ask[c].method = "get" =>
                 job.ask[c].text = "description" /\ job.ask[c].args = {}
            /\ job.ask[c].n \in Nat
            /\ job.ask[c].ops \in Seq(Range(job.ask[c].ops))
            /\ \A op \in Range(job.ask[c].ops) :
                 op.kind = "sparql" \/ (op.kind = "rdf" /\ op.n \in Nat \ {0})
       /\ job.rebinds \in Seq(Range(job.rebinds))
       /\ \A c, d \in Sandboxed(job) :
            /\ Inner[c] \in Calls /\ job.ask[Inner[c]].client = "none"
            /\ c # d => Inner[c] # Inner[d]

(* No statement of a batch is bound again from when the batch is made until   *)
(* it is over: the new values wait for it, or it waits for them.              *)
Uses(asked, stmt) ==
  /\ asked.method = "array"
  /\ \E k \in DOMAIN asked.ops : asked.ops[k].kind = "sparql" /\ asked.ops[k].stmt = stmt

Apart(rebind, asked) ==
  \A c \in Calls : Uses(asked[c], rebind.stmt) => c \in rebind.after \cup rebind.before

ApartIn(job) == \A k \in DOMAIN job.rebinds : Apart(job.rebinds[k], job.ask)
RebindsApart == \A job \in Jobs : ApartIn(job)

VARIABLES link,        \* per client, the TrackerBusConnection: its state and its peer
          faults,      \* what can still go wrong
          rebinds,     \* the new bindings still to come: a statement and its values
          meant,       \* per call, the operations it was asked for when it was made
          floor,       \* per call, how much of the log was acknowledged by then
          disturbed    \* the faults that happened

remoteVars == <<link, faults, rebinds, meant, floor, disturbed>>

vars ==
  <<busVars, endpointVars, storeVars, requestVars, clientVars, portalVars, http, remoteVars>>

Asked == {c \in Calls : ask[c].client \in Clients}

Init ==
  \E job \in Jobs :
    /\ BusInit
    /\ EndpointInit(job.policy)
    /\ StoreInit
    /\ RequestInit({"service"})
    /\ ClientInit(job.ask, job.bound)
    /\ HttpInit
    /\ sessions = <<>>
    /\ granted = job.granted
    /\ link = job.link
    /\ faults = job.faults
    /\ rebinds = job.rebinds
    /\ meant = [c \in Calls |-> <<>>]
    /\ floor = [c \in Calls |-> 0]
    /\ disturbed = {}

(* ---- Connections: tracker_bus_connection_async_initable_init_async         *)

Linked(cl, state, site, path) ==
  link' = [link EXCEPT ![cl] = [state |-> state, site |-> site, path |-> path]]

(* ping_peer, ping_peer_cb: a sandboxed client does not see the service.      *)
PingPeer(cl) ==
  /\ link[cl].state = "new"
  /\ IF "service" \in up /\ ~granted.sandboxed
     THEN Linked(cl, "naming", "service", "service")
     ELSE IF granted.sandboxed THEN Linked(cl, "sandbox", "portal", "none")
     ELSE Linked(cl, "failed", "none", "none")
  /\ UNCHANGED <<busVars, endpointVars, storeVars, requestVars, clientVars, portalVars, http,
                 faults, rebinds, meant, floor, disturbed>>

(* init_sandbox, the portal's CreateSession and create_portal_session_cb.     *)
OpenSession(cl) ==
  /\ link[cl].state = "sandbox"
  /\ IF CanCreateSession("service")
     THEN CreateSession(cl) /\ Linked(cl, "naming", "portal", NextSession)
     ELSE /\ Linked(cl, "failed", "none", "none")
          /\ UNCHANGED <<portalVars, objects, policy, mru, bindings, req>>
  /\ UNCHANGED <<busVars, storeVars, clientVars, http, faults, rebinds, meant, floor, disturbed>>

(* query_namespaces_cb: the connection is there when the prefixes were read.  *)
Naming(c) == ask[c].text = "prefixes"

NamesRead(c) ==
  LET cl == ask[c].client IN
  /\ Naming(c) /\ link[cl].state = "naming" /\ call[c].phase = "done"
  /\ call[c].cursor \in {"end", "none"}
  /\ link' = [link EXCEPT ![cl].state = IF call[c].cursor = "end" THEN "ready" ELSE "failed"]
  /\ UNCHANGED <<busVars, endpointVars, storeVars, requestVars, clientVars, portalVars, http,
                 faults, rebinds, meant, floor, disturbed>>

(* tracker_bus_connection_close: the portal is told; the message comes after  *)
(* those the client sent before.                                              *)
CloseConnection(cl) ==
  /\ link[cl].state = "ready" /\ link[cl].site = "portal"
  /\ "close" \in faults
  /\ link' = [link EXCEPT ![cl].state = "closing"]
  /\ faults' = faults \ {"close"}
  /\ disturbed' = disturbed \cup {"close"}
  /\ UNCHANGED <<busVars, endpointVars, storeVars, requestVars, clientVars, portalVars, http,
                 rebinds, meant, floor>>

CloseSession(cl) ==
  /\ link[cl].state = "closing"
  /\ \A k \in DOMAIN mail["portal"] : ask[mail["portal"][k]].client # cl
  /\ link' = [link EXCEPT ![cl].state = "closed"]
  /\ IF link[cl].path \in Opened /\ sessions[link[cl].path] = cl
     THEN ClearSession(link[cl].path)
     ELSE UNCHANGED <<portalVars, requestVars, clientVars, busVars, storeVars, endpointVars>>
  /\ UNCHANGED <<http, faults, rebinds, meant, floor, disturbed>>

(* ---- Calls of the clients                                                  *)

Over(c) == call[c].phase = "done" /\ call[c].cursor \in {"none", "closed"}

Values(s) == IF s = "none" THEN {} ELSE arguments[s]

(* The operations a request stands for when it is made: with the constraints  *)
(* of the endpoints, and with the values its statement has then.              *)
OpMeant(op) ==
  IF op.kind = "sparql" THEN [text |-> Plain(op.text), args |-> Values(op.stmt)]
  ELSE [text |-> Plain(op.text), args |-> {<<"loaded", op.n>>}]

Meant(asked) ==
  CASE asked.method = "array" -> [k \in DOMAIN asked.ops |-> OpMeant(asked.ops[k])]
    [] asked.method \in {"update", "blank"} ->
         << [text |-> Rewritten("service", Plain(asked.text)), args |-> {}] >>
    [] asked.method = "deserialize" ->
         << [text |-> Plain("rdf"), args |-> {<<"loaded", asked.n>>}] >>
    [] OTHER -> <<>>

(* The last commit that was acknowledged to the client that waited for it.    *)
Acknowledged ==
  LET known == {k \in DOMAIN log : call[log[k].call].result = "ok"}
  IN  IF known = {} THEN 0 ELSE CHOOSE k \in known : \A j \in known : j <= k

MakeCall(c) ==
  LET cl == ask[c].client IN
  /\ c \in Asked
  /\ link[cl].state = IF Naming(c) THEN "naming" ELSE "ready"
  /\ \A b \in ask[c].after : Over(b)
  /\ \/ StartCall(c, link[cl].site, link[cl].path, ask[c]) /\ UNCHANGED http
     \/ SendMessage(c, ask[c])
  /\ meant' = [meant EXCEPT ![c] = Meant(ask[c])]
  /\ floor' = [floor EXCEPT ![c] = Acknowledged]
  /\ UNCHANGED <<ask, endpointVars, storeVars, requestVars, portalVars,
                 link, faults, rebinds, disturbed>>

Cancel(c) ==
  /\ "cancel" \in faults /\ c \in Asked /\ ~Naming(c)
  /\ CancelCall(c)
  /\ faults' = faults \ {"cancel"}
  /\ disturbed' = disturbed \cup {"cancel"}
  /\ UNCHANGED <<endpointVars, storeVars, requestVars, portalVars, http, link, rebinds, meant, floor>>

(* A statement gets new values for its next execution.                        *)
BindAgain ==
  /\ rebinds # <<>>
  /\ LET next == Head(rebinds) IN
       /\ \A c \in next.after : Over(c)
       /\ \A c \in next.during : call[c].phase # "idle"
       /\ \A c \in next.before : call[c].phase = "idle"
       /\ Rebind(next.stmt, next.values)
  /\ rebinds' = Tail(rebinds)
  /\ UNCHANGED <<endpointVars, storeVars, requestVars, portalVars, http,
                 link, faults, meant, floor, disturbed>>

(* ---- The threads and callbacks of the clients and of the portal's calls    *)

Outer(i) == {c \in Calls : Inner[c] = i}
ReadWanted(i) ==
  \A c \in Outer(i) : req[c].phase \in {"serving", "splicing"} /\ Len(call[i].rows) = req[c].written

ClientStep(c) ==
  /\ \/ WritePiece(c)
     \/ ReceiveReply(c)
     \/ CheckFinish(c)
     \/ ReadWanted(c) /\ (CursorNext(c) \/ StreamRead(c))
  /\ UNCHANGED <<endpointVars, storeVars, requestVars, portalVars, http, remoteVars>>

(* A client closes its cursor when it was told that there are no more rows or *)
(* that it was cancelled; the portal does when it stops passing rows on.      *)
Closes(c) ==
  /\ IF c \in Asked
     THEN /\ call[c].cursor = "end" \/ call[c].cancelled \/ "early" \in faults
          /\ ~Naming(c) \/ link[ask[c].client].state # "naming"
     ELSE \A o \in Outer(c) : req[o].phase \in {"ending", "freed", "none"}
  /\ IF IsHttp(c) THEN HttpCursorClose(c) ELSE CloseCursor(c) /\ UNCHANGED http
  /\ UNCHANGED <<endpointVars, storeVars, requestVars, portalVars, remoteVars>>

(* ---- The endpoint of the service                                           *)

ServiceMethodCall(c) ==
  /\ ToService(c)
  /\ MethodCall("service", "service", c, FALSE, Compiles(sent[c].text), "executing")
  /\ UNCHANGED <<clientVars, portalVars, http, remoteVars>>

ServiceExecuted(c) ==
  /\ ToService(c)
  /\ StmtExecuted(c, IF Executable(req[c].text, req[c].args) THEN "none" ELSE "unbound")
  /\ UNCHANGED <<clientVars, portalVars, http, remoteVars>>

(* The rows of an answer are read from one snapshot, the one of the first.    *)
ServiceNext(c) ==
  IF req[c].written >= RowCount THEN {}
  ELSE {[text |-> req[c].text, args |-> req[c].args, n |-> req[c].written + 1,
         snap |-> IF req[c].written = 0 THEN Len(log) ELSE req[c].snap]}

ServiceRow(c) ==
  /\ ToService(c)
  /\ PutHeader(c, ServiceNext(c)) \/ SpliceRdf(c, ServiceNext(c))
  /\ UNCHANGED <<clientVars, portalVars, http, remoteVars>>

(* ---- The HTTP endpoint of the service and its clients                      *)

(* The serializer of the cursor, or of the description of the endpoint.       *)
WebNext(c) ==
  IF ask[c].method = "get"
  THEN IF http[c].written = 1 THEN {}
       ELSE {[text |-> Plain("description"), args |-> {}, n |-> 1, snap |-> Len(log)]}
  ELSE IF http[c].written >= RowCount THEN {}
  ELSE {[text |-> http[c].text, args |-> http[c].args, n |-> http[c].written + 1,
         snap |-> IF http[c].written = 0 THEN Len(log) ELSE http[c].snap]}

Disallowed(c) == ask[c].client \in policy["web"].blocked

WebServerStep(c) ==
  /\ \/ SparqlServerCallback(c, Disallowed(c))
     \/ GotMessageBody(c, Disallowed(c))
     \/ QueryAsyncCb(c)
     \/ OnBytesRead(c, WebNext(c))
     \/ OnChunkWritten(c)
     \/ OnMessageFinished(c)
  /\ UNCHANGED <<busVars, endpointVars, storeVars, requestVars, clientVars, portalVars,
                 remoteVars>>

WebClientStep(c) ==
  /\ SendMessageCb(c) \/ HttpCursorNext(c)
  /\ UNCHANGED <<endpointVars, storeVars, requestVars, portalVars, remoteVars>>

(* ---- Both kinds of D-Bus endpoint                                           *)

EndpointStep(c) ==
  /\ \/ ReadUpdate(c)
     \/ ReadUpdateCb(c) \/ ReadUpdateBlankCb(c)
     \/ UpdateCb(c) \/ UpdateBlankCb(c) \/ BatchExecuteCb(c) \/ DeserializeCb(c)
     \/ PutValues(c)
     \/ /\ \A i \in Calls : Inner[c] = i => call[i].cursor \in {"none", "closed"}
        /\ FreeRequest(c)
  /\ UNCHANGED <<clientVars, portalVars, http, remoteVars>>

Watched(c) ==
  /\ FdWatch(c)
  /\ IF InSession(c) THEN CancelInner({c}) ELSE UNCHANGED call
  /\ UNCHANGED <<ask, arguments, portalVars, http, remoteVars>>

SessionStep(c) ==
  /\ SessionMethodCall(c) \/ SessionForwards(c) \/ SessionExecuted(c) \/ SessionRow(c)
  /\ UNCHANGED <<http, remoteVars>>

StoreStep ==
  /\ RunUpdate \/ BeginStream \/ ReadToken \/ ReadEnd \/ CommitBatch
  /\ UNCHANGED <<requestVars, clientVars, portalVars, http, remoteVars>>

(* ---- What can go wrong                                                     *)

Happens(fault) ==
  /\ fault \in faults
  /\ faults' = faults \ {fault}
  /\ disturbed' = disturbed \cup {fault}
  /\ UNCHANGED <<link, rebinds, meant, floor>>

EndpointFinalized ==
  /\ Happens("finalize") /\ "service" \in objects
  /\ Finalized("service")
  /\ UNCHANGED <<busVars, endpointVars, storeVars, clientVars, portalVars, http>>

Lost(requests) ==
  req' = [c \in Calls |-> IF c \in requests THEN NoRequest ELSE req[c]]

ServiceCrashes ==
  LET mine == {c \in Calls : ToService(c)} IN
  /\ Happens("crash") /\ "service" \in up
  /\ Vanished("service", mine, {c \in mine : sent[c].method \in Downloads},
                               {c \in mine : sent[c].method \in Uploads})
  /\ StoreLost
  /\ Lost(mine)
  /\ HttpVanished
  /\ objects' = objects \ {"service"}
  /\ UNCHANGED <<endpointVars, clientVars, portalVars>>

PortalCrashes ==
  LET mine == {c \in Calls : InSession(c)}
      inner == {Inner[c] : c \in mine} IN
  /\ Happens("portal") /\ "portal" \in up
  /\ Vanished("portal", mine, {c \in mine : sent[c].method \in Downloads},
                               {c \in mine : sent[c].method \in Uploads} \cup inner)
  /\ Lost(mine)
  /\ call' = [c \in Calls |-> IF c \in inner
                THEN [call[c] EXCEPT !.phase = "gone", !.cursor = "none"] ELSE call[c]]
  /\ sessions' = [s \in Opened |-> "none"]
  /\ objects' = objects \ Opened
  /\ UNCHANGED <<granted, ask, arguments, endpointVars, storeVars, http>>

ClientDies(cl) ==
  /\ Happens(cl)
  /\ ClientVanished(cl)
  /\ UNCHANGED <<endpointVars, storeVars, requestVars, portalVars, http>>

(* peer_vanished_cb of a session whose client is gone.                        *)
PeerVanished(s) ==
  /\ s \in Opened /\ sessions[s] \in disturbed
  /\ ClearSession(s)
  /\ UNCHANGED <<http, remoteVars>>

Fault ==
  EndpointFinalized \/ ServiceCrashes \/ PortalCrashes \/ \E cl \in Clients : ClientDies(cl)

Progress ==
  \/ StoreStep
  \/ \E cl \in Clients : PingPeer(cl) \/ OpenSession(cl) \/ CloseSession(cl)
  \/ \E s \in Hosts : PeerVanished(s)
  \/ \E c \in Calls :
       \/ NamesRead(c) \/ ClientStep(c) \/ Closes(c) \/ ServiceMethodCall(c)
       \/ ServiceExecuted(c) \/ ServiceRow(c) \/ EndpointStep(c) \/ Watched(c) \/ SessionStep(c)
       \/ WebServerStep(c) \/ WebClientStep(c)

Next ==
  \/ Progress
  \/ Fault
  \/ BindAgain
  \/ \E c \in Calls : MakeCall(c) \/ Cancel(c)
  \/ \E cl \in Clients : CloseConnection(cl)

(* The threads, the main loops and the bus keep working, and so do clients    *)
(* that have rows to read; whether a call is made, cancelled or disturbed is  *)
(* not said.  A behaviour has finitely many steps of each kind.               *)
Spec == Init /\ [][Next]_vars /\ WF_vars(Progress)

-----------------------------------------------------------------------------

ViaPortal(c) == link[ask[c].client].site = "portal"

(* The rows of a cursor answer the query it was made for, with the values of  *)
(* that call, in order and from one snapshot that has every update known to   *)
(* be done when the call was made; all of them have been read when the cursor *)
(* says that there are no more, unless the other side was lost.               *)
Expected(c) ==
  LET text == Plain(ask[c].text) IN
  IF ask[c].method = "get" THEN text
  ELSE IF ask[c].method = "post" THEN Rewritten("web", text)
  ELSE Rewritten("service", IF ViaPortal(c) THEN Rewritten(link[ask[c].client].path, text) ELSE text)

OwnRows ==
  \A c \in Asked :
    LET rows == call[c].rows IN
    /\ \A k \in DOMAIN rows :
         \/ /\ rows[k].text = Expected(c) /\ rows[k].args = ask[c].args
            /\ rows[k].n = k
            /\ rows[k].snap = rows[1].snap /\ rows[k].snap >= floor[c]
         \/ rows[k] = UnboundRow /\ disturbed # {}
    /\ call[c].cursor = "end" /\ disturbed = {} =>
         Len(rows) = IF ask[c].method = "get" THEN 1 ELSE RowCount

(* The log has whole requests, each once, with the texts and the values they  *)
(* had when they were made; one that was answered with success is in it and   *)
(* one that was answered with an error is not.  Only a deserialization whose  *)
(* client went away may be there with a part of its data.                     *)
Entries(c) == {k \in DOMAIN log : log[k].call = c}
Unknown == {"none", "cancelled", "no reply"}

Shortened(c) ==
  {<< [meant[c][1] EXCEPT !.args = {<<"loaded", k>>}] >> : k \in 0..ask[c].n}

CommittedWhole ==
  \A c \in Asked :
    /\ Cardinality(Entries(c)) <= 1
    /\ \A k \in Entries(c) :
         \/ log[k].ops = meant[c]
         \/ /\ ask[c].method = "deserialize" /\ disturbed # {}
            /\ log[k].ops \in Shortened(c)
    /\ call[c].phase = "done" /\ Uploading(c) /\ meant[c] # <<>> =>
         /\ call[c].result = "ok" => Entries(c) # {}
         /\ call[c].result \notin Unknown \cup {"ok"} => Entries(c) = {}
=============================================================================
