----------------------------- MODULE RemoteProofs -----------------------------
(* What holds of Remote for all clients, jobs, pipes and texts: every row a   *)
(* client reads is a row of its own query.  The steps that RemoteInvariant    *)
(* leaves: those that connect and disturb, calls over HTTP, calls made and    *)
(* messages handled, and faults.                                              *)
EXTENDS RemoteInvariant

(* ---- Steps that cancel, connect or disturb, and leave the answers alone    *)

OnlyCancels ==
  /\ Fcn(call', Calls) /\ Fcn(req', Calls)
  /\ \A d \in Calls : /\ \E b \in BOOLEAN : call'[d] = [call[d] EXCEPT !.cancelled = b]
                      /\ \E b \in BOOLEAN : req'[d] = [req[d] EXCEPT !.cancelled = b]

(* Who is cancelled although nothing was disturbed does not read any more.    *)
CancelsFor ==
  \A d \in Calls :
    /\ req'[d].cancelled => req[d].cancelled \/ disturbed' # {} \/ ~pipe[d].reader
    /\ InSession(d) /\ call'[Inner[d]].cancelled =>
         call[Inner[d]].cancelled \/ disturbed' # {} \/ ~pipe[d].reader
    /\ Portaled(d) /\ ~Sent(d) /\ call'[Inner[d]].cancelled =>
         call[Inner[d]].cancelled \/ disturbed' # {}

(* Connections, sessions and objects change as far as the invariant allows.   *)
LinksGo ==
  /\ Fcn(policy', Hosts) /\ LinkShape' /\ Links' /\ Opened \subseteq Opened'
  /\ \A h \in Opened \cup {"service", "web"} : policy'[h] = policy[h]
  /\ disturbed \subseteq disturbed'
  /\ \A cl \in Clients : link[cl].state \notin {"new", "sandbox"} =>
       /\ link'[cl].state \notin {"new", "sandbox"}
       /\ link'[cl].site = link[cl].site /\ link'[cl].path = link[cl].path
  /\ \A o \in Calls : InSession(o)' => InSession(o)
  /\ \A o \in Calls : Portaled(o)' => Portaled(o)

LEMMA CancelMarks ==
  ASSUME Shape, OnlyCancels, NEW d \in Calls
  PROVE  /\ IsCall(call'[d]) /\ IsRequest(req'[d])
         /\ call'[d].phase = call[d].phase /\ call'[d].write = call[d].write
         /\ call'[d].rows = call[d].rows /\ call'[d].cursor = call[d].cursor
         /\ req'[d].phase = req[d].phase /\ req'[d].host = req[d].host
         /\ req'[d].text = req[d].text /\ req'[d].args = req[d].args
         /\ req'[d].written = req[d].written /\ req'[d].snap = req[d].snap
         /\ req'[d].row = req[d].row
<1>1. IsCall(call[d]) /\ IsRequest(req[d])
  BY Shapes
<1>2. PICK b \in BOOLEAN : call'[d] = [call[d] EXCEPT !.cancelled = b]
  BY DEF OnlyCancels
<1>3. PICK marked \in BOOLEAN : req'[d] = [req[d] EXCEPT !.cancelled = marked]
  BY DEF OnlyCancels
<1>4. /\ IsCall(call'[d])
      /\ call'[d].phase = call[d].phase /\ call'[d].write = call[d].write
      /\ call'[d].rows = call[d].rows /\ call'[d].cursor = call[d].cursor
  BY ONLY <1>1, <1>2 DEF IsCall
<1>5. /\ IsRequest(req'[d])
      /\ req'[d].phase = req[d].phase /\ req'[d].host = req[d].host
      /\ req'[d].text = req[d].text /\ req'[d].args = req[d].args
      /\ req'[d].written = req[d].written /\ req'[d].snap = req[d].snap
      /\ req'[d].row = req[d].row
  BY ONLY <1>1, <1>3 DEF IsRequest
<1>6. QED
  BY <1>4, <1>5

LEMMA SteadyStep ==
  ASSUME IInv, OnlyCancels, CancelsFor, LinksGo,
         UNCHANGED <<mail, reply, pipe, sent, ask, http, queue, running, log, floor, mru, bindings>>
  PROVE  IInv'
<1>1. Shape /\ Links /\ Mails /\ Tasks
  BY DEF IInv
<1>2. MailShape' /\ PipeShape' /\ SentShape' /\ HttpShape'
  BY <1>1 DEF Shape, MailShape, PipeShape, SentShape, HttpShape, Fcn
<1>3. CallShape' /\ ReqShape'
  BY <1>1, CancelMarks DEF OnlyCancels, Shape, CallShape, ReqShape
<1>4. AskShape'
  BY <1>1 DEF Shape, AskShape, Fcn, IsHttp, Asked
<1>5. StoreShape'
  BY <1>1 DEF Shape, StoreShape, LinksGo, Fcn
<1>6. FloorShape'
  BY <1>1 DEF Shape, FloorShape
<1>7. Shape'
  BY <1>2, <1>3, <1>4, <1>5, <1>6 DEF Shape, LinksGo
<1>8. Context
  <2>1. IsSeq(log) /\ IsSeq(log') /\ Len(log) <= Len(log')
    BY <1>1, SeqFacts DEF Shape, StoreShape
  <2>2. \A e \in Calls : Grow(call[e].rows, call'[e].rows)
    <3>1. SUFFICES ASSUME NEW e \in Calls PROVE Grow(call[e].rows, call'[e].rows)
      OBVIOUS
    <3>2. QED
      BY <1>1, CancelMarks, Shapes
  <2>3. QED
    BY <2>1, <2>2 DEF LinksGo, Context, Asked
<1>9. ASSUME NEW d \in Calls PROVE Same(d)
  BY <1>1, CancelMarks DEF CancelsFor, Same
<1>10. Mails'
  <2>1. \A s \in Sites : \A k \in DOMAIN mail[s] : mail[s][k] \in Calls
    BY <1>1 DEF Shape, MailShape
  <2>2. \A d \in Calls : req'[d].phase = req[d].phase
    BY <1>1, CancelMarks
  <2>3. QED
    BY <1>1, <2>1, <2>2 DEF Mails, Sent, SiteOf
<1>11. Tasks'
  BY <1>1 DEF Tasks
<1>12. ASSUME NEW d \in Calls PROVE CallInv(d)'
  <2>1. CallInv(d)
    BY DEF IInv
  <2>2. QED
    BY <1>1, <1>7, <1>8, <1>9, <2>1, Untouched DEF Shape
<1>13. Spared'
  BY DEF IInv, Spared, LinksGo, CancelsFor, Sent
<1>14. QED
  BY <1>7, <1>10, <1>11, <1>12, <1>13 DEF IInv, LinksGo

LEMMA Uncancelled ==
  ASSUME Shape, call' = call, req' = req
  PROVE  OnlyCancels /\ CancelsFor
<1>1. Fcn(call, Calls) /\ Fcn(req, Calls)
  BY DEF Shape, CallShape, ReqShape
<1>2. ASSUME NEW d \in Calls
      PROVE  /\ \E b \in BOOLEAN : call[d] = [call[d] EXCEPT !.cancelled = b]
             /\ \E b \in BOOLEAN : req[d] = [req[d] EXCEPT !.cancelled = b]
  <2>1. IsCall(call[d]) /\ IsRequest(req[d])
    BY <1>2, Shapes
  <2>2. call[d] = [call[d] EXCEPT !.cancelled = call[d].cancelled] /\ call[d].cancelled \in BOOLEAN
    BY ONLY <2>1 DEF IsCall
  <2>3. req[d] = [req[d] EXCEPT !.cancelled = req[d].cancelled] /\ req[d].cancelled \in BOOLEAN
    BY ONLY <2>1 DEF IsRequest
  <2>4. QED
    BY <2>2, <2>3
<1>3. QED
  BY <1>1, <1>2 DEF OnlyCancels, CancelsFor

(* Sessions stay, open or not; an object goes only in a disturbed behaviour.   *)
ObjectsGo ==
  /\ Fcn(sessions', Opened) /\ disturbed \subseteq disturbed'
  /\ objects' = objects \/ disturbed' # {}

LEMMA ObjectsStay ==
  ASSUME IInv, UNCHANGED <<sessions, objects>>, disturbed \subseteq disturbed'
  PROVE  ObjectsGo
BY DEF IInv, Shape, LinkShape, ObjectsGo

LEMMA ObjectsKept ==
  ASSUME IInv, UNCHANGED <<policy, sent, ask, granted>>, ObjectsGo,
         Fcn(link', Clients), \A k \in Clients : IsLink(link'[k]) /\ LinkOk(link[k])',
         \A k \in Clients : link[k].state \notin {"new", "sandbox"} =>
           /\ link'[k].state \notin {"new", "sandbox"}
           /\ link'[k].site = link[k].site /\ link'[k].path = link[k].path,
         \A c \in Calls : Portaled(c)' => Portaled(c)
  PROVE  LinksGo
<1>1. LinkShape /\ Links /\ StoreShape
  BY DEF IInv, Shape
<1>2. Opened' = Opened /\ Asked' = Asked
  BY DEF Opened, Asked, ObjectsGo, Fcn
<1>3. Links'
  BY <1>1, <1>2 DEF Links, ObjectsGo
<1>4. LinkShape'
  BY <1>1, <1>2 DEF LinkShape, ObjectsGo
<1>5. \A o \in Calls : InSession(o)' => InSession(o)
  BY <1>2 DEF InSession
<1>6. QED
  BY <1>1, <1>2, <1>3, <1>4, <1>5 DEF LinksGo, StoreShape, ObjectsGo

(* One connection moves on, the others stay as they are.                      *)
LEMMA LinkMoves ==
  ASSUME IInv, UNCHANGED <<policy, sent, ask, granted>>, ObjectsGo,
         NEW cl \in Clients, NEW l, IsLink(l), LinkOk(l)', link' = [link EXCEPT ![cl] = l],
         link[cl].state \notin {"new", "sandbox"} =>
           l.state \notin {"new", "sandbox"} /\ l.site = link[cl].site /\ l.path = link[cl].path,
         l.site = "portal" =>
           link[cl].site = "portal" \/ (link[cl].state = "new" /\ granted.sandboxed),
         l.state # "new"
  PROVE  LinksGo
<1>1. LinkShape /\ Links
  BY DEF IInv, Shape
<1>2. /\ link'[cl] = l /\ Fcn(link', Clients)
      /\ \A k \in Clients \ {cl} : link'[k] = link[k]
  BY <1>1 DEF LinkShape, Fcn
<1>3. Opened' = Opened /\ Asked' = Asked /\ disturbed \subseteq disturbed'
  BY DEF Opened, Asked, ObjectsGo, Fcn
<1>4. \A k \in Clients : IsLink(link'[k]) /\ LinkOk(link[k])'
  <2>1. \A k \in Clients : IsLink(link'[k])
    BY <1>1, <1>2 DEF LinkShape
  <2>2. LinkOk(link[cl])'
    BY <1>2 DEF LinkOk, Connected, Place
  <2>3. ASSUME NEW k \in Clients, k # cl PROVE LinkOk(link[k])'
    <3>1. link'[k] = link[k] /\ LinkOk(link[k])
      BY <1>1, <1>2, <2>3 DEF Links
    <3>2. QED
      BY <1>3, <3>1 DEF LinkOk, Connected, Place
  <2>4. QED
    BY <2>1, <2>2, <2>3
<1>5. \A c \in Calls : Portaled(c)' => Portaled(c)
  <2>1. SUFFICES ASSUME NEW c \in Calls, Portaled(c)' PROVE Portaled(c)
    OBVIOUS
  <2>2. c \in Asked /\ ask[c].client \in Clients
    BY <1>3, <2>1 DEF Portaled, Asked
  <2>3. QED
    BY <1>2, <1>3, <2>1, <2>2 DEF Portaled
<1>6. QED
  BY <1>2, <1>4, <1>5, ObjectsKept

LEMMA LinksStay ==
  ASSUME IInv, UNCHANGED <<policy, sent, ask, granted, link>>, ObjectsGo
  PROVE  LinksGo
<1>1. LinkShape /\ Links
  BY DEF IInv, Shape
<1>2. Opened' = Opened /\ Asked' = Asked /\ disturbed \subseteq disturbed'
  BY DEF Opened, Asked, ObjectsGo, Fcn
<1>3. \A k \in Clients : IsLink(link'[k]) /\ LinkOk(link[k])'
  <2>1. SUFFICES ASSUME NEW k \in Clients PROVE IsLink(link'[k]) /\ LinkOk(link[k])'
    OBVIOUS
  <2>2. link'[k] = link[k] /\ IsLink(link[k]) /\ LinkOk(link[k])
    BY <1>1 DEF Links, LinkShape
  <2>3. QED
    BY <1>2, <2>2 DEF LinkOk, Connected, Place
<1>4. \A c \in Calls : Portaled(c)' => Portaled(c)
  BY <1>2 DEF Portaled
<1>5. QED
  BY <1>1, <1>2, <1>3, <1>4, ObjectsKept DEF LinkShape

LEMMA StepStutter ==
  ASSUME IInv, UNCHANGED vars
  PROVE  IInv'
<1>1. /\ UNCHANGED <<mail, reply, pipe, sent, ask, http, queue, running, log, floor, mru, bindings>>
      /\ UNCHANGED <<policy, sent, ask, sessions, granted, objects, disturbed, link>>
      /\ call' = call /\ req' = req
  BY DEF vars, busVars, endpointVars, storeVars, requestVars, clientVars, portalVars, remoteVars
<1>2. LinksGo
  BY <1>1, ObjectsStay, LinksStay
<1>3. OnlyCancels /\ CancelsFor
  BY <1>1, Uncancelled DEF IInv
<1>4. QED
  BY <1>1, <1>2, <1>3, SteadyStep

(* A statement is bound again.                                                *)
LEMMA StepBindAgain ==
  ASSUME IInv, BindAgain
  PROVE  IInv'
<1>1. /\ UNCHANGED <<mail, reply, pipe, sent, ask, http, queue, running, log, floor, mru, bindings>>
      /\ UNCHANGED <<policy, sent, ask, sessions, granted, objects, disturbed, link>>
      /\ call' = call /\ req' = req
  BY DEF BindAgain, Rebind, busVars, endpointVars, storeVars, requestVars, portalVars
<1>2. LinksGo
  BY <1>1, ObjectsStay, LinksStay
<1>3. OnlyCancels /\ CancelsFor
  BY <1>1, Uncancelled DEF IInv
<1>4. QED
  BY <1>1, <1>2, <1>3, SteadyStep

(* A connection to the service is found, or the portal is to be asked.        *)
LEMMA StepPingPeer ==
  ASSUME IInv, NEW cl \in Clients, PingPeer(cl)
  PROVE  IInv'
<1>1. /\ UNCHANGED <<mail, reply, pipe, sent, ask, http, queue, running, log, floor, mru, bindings>>
      /\ UNCHANGED <<policy, sent, ask, sessions, granted, objects, disturbed>>
      /\ call' = call /\ req' = req
  BY DEF PingPeer, busVars, endpointVars, storeVars, requestVars, clientVars, portalVars
<1>2. link[cl].state = "new"
  BY DEF PingPeer
<1>3. PICK l : /\ link' = [link EXCEPT ![cl] = l]
               /\ \/ l = [state |-> "naming", site |-> "service", path |-> "service"]
                  \/ l = [state |-> "sandbox", site |-> "portal", path |-> "none"]
                     /\ granted.sandboxed
                  \/ l = [state |-> "failed", site |-> "none", path |-> "none"]
  BY DEF PingPeer, Linked
<1>4. /\ IsLink(l) /\ LinkOk(l)' /\ l.state # "new"
      /\ l.site = "portal" => granted.sandboxed
  BY ONLY <1>1, <1>3 DEF IsLink, LinkOk, Connected, Place
<1>5. LinksGo
  BY <1>1, <1>2, <1>3, <1>4, ObjectsStay, LinkMoves
<1>6. OnlyCancels /\ CancelsFor
  BY <1>1, Uncancelled DEF IInv
<1>7. QED
  BY <1>1, <1>5, <1>6, SteadyStep

(* The prefixes were read: the connection is ready, or it failed.             *)
LEMMA StepNamesRead ==
  ASSUME IInv, NEW c \in Calls, NamesRead(c)
  PROVE  IInv'
<1>1. /\ UNCHANGED <<mail, reply, pipe, sent, ask, http, queue, running, log, floor, mru, bindings>>
      /\ UNCHANGED <<policy, sent, ask, sessions, granted, objects, disturbed>>
      /\ call' = call /\ req' = req
  BY DEF NamesRead, busVars, endpointVars, storeVars, requestVars, clientVars, portalVars
<1>2. OnlyCancels /\ CancelsFor
  BY <1>1, Uncancelled DEF IInv
<1>3. CASE ask[c].client \notin Clients
  <2>1. link' = link
    BY <1>3 DEF NamesRead, IInv, Shape, LinkShape, Fcn
  <2>2. LinksGo
    BY <1>1, <2>1, ObjectsStay, LinksStay
  <2>3. QED
    BY <1>1, <1>2, <2>2, SteadyStep
<1>4. CASE ask[c].client \in Clients
  <2>1. PICK cl \in Clients : cl = ask[c].client
    BY <1>4
  <2>2. IsLink(link[cl]) /\ LinkOk(link[cl]) /\ Fcn(link, Clients) /\ link[cl].state = "naming"
    BY <2>1 DEF IInv, Shape, LinkShape, Links, NamesRead
  <2>3. PICK state \in {"ready", "failed"} : link' = [link EXCEPT ![cl].state = state]
    BY <2>1 DEF NamesRead
  <2>9. PICK l : l = [link[cl] EXCEPT !.state = state]
    OBVIOUS
  <2>4. IsLink(l) /\ l.state = state /\ l.site = link[cl].site /\ l.path = link[cl].path
    BY ONLY <2>2, <2>9 DEF IsLink
  <2>5. link' = [link EXCEPT ![cl] = l]
    BY <2>3, <2>9
  <2>6. LinkOk(l)'
    BY ONLY <1>1, <2>2, <2>3, <2>4 DEF LinkOk, Connected, Place, Opened
  <2>7. LinksGo
    BY <1>1, <2>2, <2>3, <2>4, <2>5, <2>6, ObjectsStay, LinkMoves
  <2>8. QED
    BY <1>1, <1>2, <2>7, SteadyStep
<1>5. QED
  BY <1>3, <1>4

LEMMA DisturbedCancels ==
  ASSUME disturbed' # {}
  PROVE  CancelsFor
BY DEF CancelsFor

LEMMA FinalizedMarks ==
  ASSUME NEW h, Finalized(h)
  PROVE  /\ Fcn(req', Calls) /\ objects' = objects \ {h}
         /\ \A d \in Calls : \E b \in BOOLEAN : req'[d] = [req[d] EXCEPT !.cancelled = b]
<1>1. \A d \in Calls : req'[d] = [req[d] EXCEPT !.cancelled = @ \/ req[d].host = h]
  BY DEF Finalized
<1>2. \A d \in Calls : (req[d].cancelled \/ req[d].host = h) \in BOOLEAN
  OBVIOUS
<1>3. \A d \in Calls : \E b \in BOOLEAN : req'[d] = [req[d] EXCEPT !.cancelled = b]
  BY <1>1, <1>2
<1>4. QED
  BY <1>3 DEF Finalized, Fcn

LEMMA InnerMarks ==
  ASSUME NEW R, CancelInner(R)
  PROVE  /\ Fcn(call', Calls)
         /\ \A d \in Calls : \E b \in BOOLEAN : call'[d] = [call[d] EXCEPT !.cancelled = b]
<1>1. \A d \in Calls : call'[d] = [call[d] EXCEPT !.cancelled = @ \/ (\E r \in R : Inner[r] = d)]
  BY DEF CancelInner
<1>2. \A d \in Calls : (call[d].cancelled \/ (\E r \in R : Inner[r] = d)) \in BOOLEAN
  OBVIOUS
<1>3. \A d \in Calls : \E b \in BOOLEAN : call'[d] = [call[d] EXCEPT !.cancelled = b]
  BY <1>1, <1>2
<1>4. QED
  BY <1>3 DEF CancelInner, Fcn

LEMMA SentPath ==
  ASSUME NEW d \in Calls, SaysOf(d)
  PROVE  sent[d].path \in Opened \cup {"service", "none"}
<1>1. CASE ~Sent(d)
  BY <1>1 DEF SaysOf, NoMessage
<1>2. CASE Sent(d) /\ d \in Asked
  BY <1>2 DEF SaysOf, AskedSays, Place
<1>3. CASE Sent(d) /\ d \notin Asked
  <2>1. PICK o \in Calls : Relays(o, d)
    BY <1>3 DEF SaysOf
  <2>2. QED
    BY <2>1 DEF Relays
<1>4. QED
  BY <1>1, <1>2, <1>3

(* A new session has a path that nobody used yet.                             *)
LEMMA NextPath ==
  ASSUME LinkShape, Cardinality(Opened) < Len(SessionPaths),
         Opened' = Opened \cup {NextSession}
  PROVE  /\ NextSession \notin Opened \cup {"service", "web", "none"} /\ NextSession \in Hosts
         /\ IsFiniteSet(Opened') /\ Cardinality(Opened') <= Len(SessionPaths)
         /\ Opened' = {SessionPaths[k] : k \in 1..Cardinality(Opened')}
<1> DEFINE n == Cardinality(Opened)
<1>1. n \in Nat /\ Len(SessionPaths) \in Nat /\ DOMAIN SessionPaths = 1..Len(SessionPaths)
  BY OpenedPaths, PathsAssumption
<1>2. NextSession = SessionPaths[n + 1] /\ n + 1 \in DOMAIN SessionPaths
  BY <1>1 DEF NextSession
<1>3. NextSession \in Hosts \ {"service", "web", "none"}
  BY <1>2, PathsAssumption
<1>4. Opened = {SessionPaths[k] : k \in 1..n}
  BY DEF LinkShape
<1>5. NextSession \notin Opened
  BY <1>1, <1>2, <1>4, PathsAssumption
<1>6. IsFiniteSet(Opened') /\ Cardinality(Opened') = n + 1
  BY <1>5, FS_AddElement DEF LinkShape
<1> HIDE DEF n
<1>7. Opened' = {SessionPaths[k] : k \in 1..(n + 1)}
  <2>1. 1..(n + 1) = (1..n) \cup {n + 1}
    BY <1>1
  <2>2. Opened' = {SessionPaths[k] : k \in 1..n} \cup {SessionPaths[n + 1]}
    BY <1>2, <1>4
  <2>3. QED
    BY <2>1, <2>2
<1>8. n + 1 <= Len(SessionPaths)
  BY <1>1, <1>2
<1>9. QED
  BY <1>3, <1>5, <1>6, <1>7, <1>8

(* A connection of the portal is closed by its client.                        *)
LEMMA StepCloseConnection ==
  ASSUME IInv, NEW cl \in Clients, CloseConnection(cl)
  PROVE  IInv'
<1>1. /\ UNCHANGED <<mail, reply, pipe, sent, ask, http, queue, running, log, floor, mru, bindings>>
      /\ UNCHANGED <<policy, sent, ask, sessions, granted, objects>>
      /\ call' = call /\ req' = req /\ disturbed' = disturbed \cup {"close"}
  BY DEF CloseConnection, busVars, endpointVars, storeVars, requestVars, clientVars, portalVars
<1>2. OnlyCancels /\ CancelsFor
  BY <1>1, Uncancelled DEF IInv
<1>3. /\ IsLink(link[cl]) /\ LinkOk(link[cl]) /\ link[cl].state = "ready"
      /\ link[cl].site = "portal"
  BY DEF IInv, Shape, LinkShape, Links, CloseConnection
<1>4. PICK l : l = [link[cl] EXCEPT !.state = "closing"]
  OBVIOUS
<1>5. IsLink(l) /\ l.state = "closing" /\ l.site = link[cl].site /\ l.path = link[cl].path
  BY ONLY <1>3, <1>4 DEF IsLink
<1>6. link' = [link EXCEPT ![cl] = l]
  BY <1>4 DEF CloseConnection
<1>7. LinkOk(l)'
  BY ONLY <1>1, <1>3, <1>5 DEF LinkOk, Connected, Place, Opened
<1>8. LinksGo
  BY <1>1, <1>3, <1>5, <1>6, <1>7, ObjectsStay, LinkMoves
<1>9. QED
  BY <1>1, <1>2, <1>8, SteadyStep

LEMMA StepCancel ==
  ASSUME IInv, NEW c \in Calls, Cancel(c)
  PROVE  IInv'
<1>1. /\ UNCHANGED <<mail, reply, pipe, sent, ask, http, queue, running, log, floor, mru, bindings>>
      /\ UNCHANGED <<policy, sent, ask, sessions, granted, objects, link>>
      /\ call' = [call EXCEPT ![c].cancelled = TRUE] /\ req' = req
      /\ disturbed' = disturbed \cup {"cancel"}
  BY DEF Cancel, CancelCall, busVars, endpointVars, storeVars, requestVars, clientVars, portalVars
<1>2. LinksGo
  BY <1>1, ObjectsStay, LinksStay
<1>3. CancelsFor
  BY <1>1, DisturbedCancels
<1>4. OnlyCancels
  <2>1. Fcn(call, Calls) /\ Fcn(req, Calls) /\ \A d \in Calls : IsCall(call[d]) /\ IsRequest(req[d])
    BY Shapes DEF IInv
  <2>2. Fcn(call', Calls) /\ call'[c] = [call[c] EXCEPT !.cancelled = TRUE]
        /\ \A d \in Calls \ {c} : call'[d] = call[d]
    BY <1>1, <2>1 DEF Fcn
  <2>3. ASSUME NEW d \in Calls
        PROVE  /\ call[d] = [call[d] EXCEPT !.cancelled = call[d].cancelled]
               /\ call[d].cancelled \in BOOLEAN
               /\ req[d] = [req[d] EXCEPT !.cancelled = req[d].cancelled]
               /\ req[d].cancelled \in BOOLEAN
    BY <2>1, <2>3 DEF IsCall, IsRequest
  <2>4. ASSUME NEW d \in Calls
        PROVE  /\ \E b \in BOOLEAN : call'[d] = [call[d] EXCEPT !.cancelled = b]
               /\ \E b \in BOOLEAN : req'[d] = [req[d] EXCEPT !.cancelled = b]
    BY <1>1, <2>2, <2>3, <2>4
  <2>5. QED
    BY <1>1, <2>1, <2>2, <2>4 DEF OnlyCancels
<1>5. QED
  BY <1>1, <1>2, <1>3, <1>4, SteadyStep

(* The marks of one kind, where the other variable stays.                     *)
LEMMA MarksOnly ==
  ASSUME Shape, Fcn(call', Calls), Fcn(req', Calls),
         call' = call \/ \A d \in Calls : \E b \in BOOLEAN : call'[d] = [call[d] EXCEPT !.cancelled = b],
         req' = req \/ \A d \in Calls : \E b \in BOOLEAN : req'[d] = [req[d] EXCEPT !.cancelled = b]
  PROVE  OnlyCancels
<1>1. ASSUME NEW d \in Calls
      PROVE  /\ call[d] = [call[d] EXCEPT !.cancelled = call[d].cancelled]
             /\ call[d].cancelled \in BOOLEAN
             /\ req[d] = [req[d] EXCEPT !.cancelled = req[d].cancelled]
             /\ req[d].cancelled \in BOOLEAN
  BY <1>1, Shapes DEF IsCall, IsRequest
<1>2. \A d \in Calls : \E b \in BOOLEAN : call'[d] = [call[d] EXCEPT !.cancelled = b]
  BY <1>1
<1>3. \A d \in Calls : \E b \in BOOLEAN : req'[d] = [req[d] EXCEPT !.cancelled = b]
  BY <1>1
<1>4. QED
  BY <1>2, <1>3 DEF OnlyCancels

(* The endpoint of the service is finalized.                                  *)
LEMMA StepEndpointFinalized ==
  ASSUME IInv, EndpointFinalized
  PROVE  IInv'
<1>1. /\ UNCHANGED <<mail, reply, pipe, sent, ask, http, queue, running, log, floor, mru, bindings>>
      /\ UNCHANGED <<policy, sent, ask, sessions, granted, link, call>>
      /\ disturbed' = disturbed \cup {"finalize"} /\ Finalized("service")
  BY DEF EndpointFinalized, Happens, busVars, endpointVars, storeVars, clientVars, portalVars
<1>2. ObjectsGo
  BY <1>1, OpenedPaths DEF ObjectsGo, IInv, Shape, LinkShape
<1>3. LinksGo
  BY <1>1, <1>2, LinksStay
<1>4. CancelsFor
  BY <1>1, DisturbedCancels
<1>5. OnlyCancels
  BY <1>1, FinalizedMarks, MarksOnly DEF IInv, Shape, CallShape
<1>6. QED
  BY <1>1, <1>3, <1>4, <1>5, SteadyStep

(* A session is cleared only when something had disturbed the behaviour.      *)
LEMMA SessionCleared ==
  ASSUME IInv, NEW s \in Opened, ClearSession(s), disturbed # {}, disturbed' = disturbed
  PROVE  ObjectsGo /\ OnlyCancels /\ CancelsFor
<1>1. Fcn(sessions, Opened)
  BY DEF IInv, Shape, LinkShape
<1>2. Fcn(sessions', Opened)
  BY <1>1 DEF ClearSession, Fcn
<1>3. ObjectsGo
  BY <1>2 DEF ObjectsGo
<1>4. PICK R : CancelInner(R)
  BY DEF ClearSession
<1>5. OnlyCancels
  BY <1>4, FinalizedMarks, InnerMarks, MarksOnly DEF ClearSession, IInv
<1>6. QED
  BY <1>3, <1>5, DisturbedCancels

LEMMA StepPeerVanished ==
  ASSUME IInv, NEW s \in Hosts, PeerVanished(s)
  PROVE  IInv'
<1>1. /\ UNCHANGED <<mail, reply, pipe, sent, ask, http, queue, running, log, floor, mru, bindings>>
      /\ UNCHANGED <<policy, sent, ask, granted, link, disturbed>>
  BY DEF PeerVanished, ClearSession, busVars, endpointVars, storeVars, remoteVars
<1>2. s \in Opened /\ ClearSession(s) /\ disturbed # {} /\ disturbed' = disturbed
  BY <1>1 DEF PeerVanished
<1>3. ObjectsGo /\ OnlyCancels /\ CancelsFor
  BY <1>2, SessionCleared
<1>4. LinksGo
  BY <1>1, <1>3, LinksStay
<1>5. QED
  BY <1>1, <1>3, <1>4, SteadyStep

LEMMA StepCloseSession ==
  ASSUME IInv, NEW cl \in Clients, CloseSession(cl)
  PROVE  IInv'
<1>1. /\ UNCHANGED <<mail, reply, pipe, sent, ask, http, queue, running, log, floor, mru, bindings>>
      /\ UNCHANGED <<policy, sent, ask, granted, disturbed>>
  BY DEF CloseSession, ClearSession, busVars, endpointVars, storeVars, clientVars, portalVars
<1>2. /\ IsLink(link[cl]) /\ LinkOk(link[cl]) /\ link[cl].state = "closing"
      /\ disturbed # {}
  BY DEF IInv, Shape, LinkShape, Links, CloseSession, LinkOk
<1>3. ObjectsGo /\ OnlyCancels /\ CancelsFor
  <2>1. CASE link[cl].path \in Opened /\ sessions[link[cl].path] = cl
    BY <1>1, <1>2, <2>1, SessionCleared DEF CloseSession
  <2>2. CASE ~(link[cl].path \in Opened /\ sessions[link[cl].path] = cl)
    <3>1. UNCHANGED <<sessions, objects, call, req>>
      BY <2>2 DEF CloseSession, portalVars, requestVars, clientVars
    <3>2. QED
      BY <1>1, <3>1, ObjectsStay, Uncancelled DEF IInv
  <2>3. QED
    BY <2>1, <2>2
<1>4. PICK l : l = [link[cl] EXCEPT !.state = "closed"]
  OBVIOUS
<1>5. IsLink(l) /\ l.state = "closed" /\ l.site = link[cl].site /\ l.path = link[cl].path
  BY ONLY <1>2, <1>4 DEF IsLink
<1>6. link' = [link EXCEPT ![cl] = l]
  BY <1>4 DEF CloseSession
<1>7. Opened' = Opened
  BY <1>3 DEF ObjectsGo, Opened, Fcn
<1>8. LinkOk(l)'
  BY ONLY <1>1, <1>2, <1>5, <1>7 DEF LinkOk, Connected, Place
<1>9. LinksGo
  BY <1>1, <1>2, <1>3, <1>5, <1>6, <1>8, LinkMoves
<1>10. QED
  BY <1>1, <1>3, <1>9, SteadyStep

(* A session is opened by a client in a sandbox, or there is none for it.     *)
LEMMA StepOpenSession ==
  ASSUME IInv, NEW cl \in Clients, OpenSession(cl)
  PROVE  IInv'
<1>1. /\ UNCHANGED <<mail, reply, pipe, sent, ask, http, queue, running, log, floor, mru, bindings>>
      /\ UNCHANGED <<granted, disturbed>> /\ call' = call /\ req' = req
  BY DEF OpenSession, CreateSession, busVars, storeVars, clientVars, portalVars
<1>2. OnlyCancels /\ CancelsFor
  BY <1>1, Uncancelled DEF IInv
<1>3. /\ LinkShape /\ Links /\ StoreShape /\ link[cl].state = "sandbox"
      /\ \A d \in Calls : SaysOf(d)
  BY DEF IInv, Shape, OpenSession, CallInv
<1>4. CASE ~CanCreateSession("service")
  <2>1. UNCHANGED <<policy, sessions, objects>>
        /\ link' = [link EXCEPT ![cl] = [state |-> "failed", site |-> "none", path |-> "none"]]
    BY <1>4 DEF OpenSession, Linked, portalVars
  <2>2. PICK l : l = [state |-> "failed", site |-> "none", path |-> "none"]
    OBVIOUS
  <2>3. IsLink(l) /\ LinkOk(l)'
    BY ONLY <2>2 DEF IsLink, LinkOk, Connected
  <2>4. LinksGo
    BY <1>1, <1>3, <2>1, <2>2, <2>3, ObjectsStay, LinkMoves
  <2>5. QED
    BY <1>1, <1>2, <2>4, SteadyStep
<1>5. CASE CanCreateSession("service")
  <2>1. CreateSession(cl) /\ Linked(cl, "naming", "portal", NextSession)
    BY <1>5 DEF OpenSession
  <2>2. PICK l : l = [state |-> "naming", site |-> "portal", path |-> NextSession]
    OBVIOUS
  <2>3. /\ link' = [link EXCEPT ![cl] = l] /\ objects' = objects \cup {NextSession}
        /\ Opened' = Opened \cup {NextSession} /\ Fcn(sessions', Opened')
        /\ \E p : policy' = [policy EXCEPT ![NextSession] = p]
    BY <2>1, <2>2 DEF CreateSession, Linked, Opened, Fcn
  <2>4. /\ NextSession \notin Opened \cup {"service", "web", "none"} /\ NextSession \in Hosts
        /\ IsFiniteSet(Opened') /\ Cardinality(Opened') <= Len(SessionPaths)
        /\ Opened' = {SessionPaths[k] : k \in 1..Cardinality(Opened')}
    <3>1. Cardinality(Opened) < Len(SessionPaths)
      BY <1>5 DEF CanCreateSession
    <3>2. QED
      BY <1>3, <2>3, <3>1, NextPath
  <2>5. /\ link'[cl] = l /\ Fcn(link', Clients) /\ IsLink(l)
        /\ \A k \in Clients \ {cl} : link'[k] = link[k]
    BY <1>3, <2>2, <2>3 DEF LinkShape, Fcn, IsLink
  <2>6. LinkShape'
    BY <1>3, <2>3, <2>4, <2>5 DEF LinkShape
  <2>7. granted.sandboxed /\ link[cl].site = "portal" /\ Asked' = Asked
    BY <1>1, <1>3 DEF Links, LinkOk, Asked
  <2>8. ASSUME NEW c \in Calls, Portaled(c)' PROVE Portaled(c)
    <3>1. c \in Asked /\ ask[c].client \in Clients /\ ask' = ask
      BY <1>1, <2>7, <2>8 DEF Portaled, Asked
    <3>2. CASE ask[c].client = cl
      BY <2>7, <3>1, <3>2 DEF Portaled
    <3>3. CASE ask[c].client # cl
      BY <1>1, <2>5, <2>8, <3>1, <3>3 DEF Portaled
    <3>4. QED
      BY <3>2, <3>3
  <2>9. Links'
    <3>1. ASSUME NEW k \in Clients PROVE LinkOk(link[k])'
      <4>1. CASE k = cl
        BY <1>1, <2>2, <2>3, <2>5, <2>7, <4>1 DEF LinkOk, Connected, Place
      <4>2. CASE k # cl
        <5>1. link'[k] = link[k] /\ LinkOk(link[k])
          BY <1>3, <2>5, <3>1, <4>2 DEF Links
        <5>2. QED
          BY <1>1, <2>3, <5>1 DEF LinkOk, Connected, Place
      <4>3. QED
        BY <4>1, <4>2
    <3>2. QED
      BY <1>1, <1>3, <2>3, <2>7, <2>8, <3>1 DEF Links
  <2>10. \A o \in Calls : InSession(o)' => InSession(o)
    BY <1>1, <1>3, <2>3, <2>4, SentPath DEF InSession
  <2>11. Fcn(policy', Hosts) /\ \A h \in Opened \cup {"service", "web"} : policy'[h] = policy[h]
    <3>1. Opened \cup {"service", "web"} \subseteq Hosts /\ Fcn(policy, Hosts)
      BY <1>3, OpenedPaths, SitesAssumption DEF StoreShape
    <3>2. QED
      BY <2>3, <2>4, <3>1 DEF Fcn
  <2>12. \A k \in Clients : link[k].state \notin {"new", "sandbox"} =>
           /\ link'[k].state \notin {"new", "sandbox"}
           /\ link'[k].site = link[k].site /\ link'[k].path = link[k].path
    BY <1>3, <2>5
  <2>13. LinksGo
    BY <1>1, <2>3, <2>6, <2>9, <2>10, <2>11, <2>12, <2>8 DEF LinksGo
  <2>14. QED
    BY <1>1, <1>2, <2>13, SteadyStep
<1>6. QED
  BY <1>4, <1>5

(* A request whose reader went away is cancelled, with its inner call.        *)
LEMMA StepWatched ==
  ASSUME IInv, NEW c \in Calls, Watched(c)
  PROVE  IInv'
<1>1. /\ UNCHANGED <<mail, reply, pipe, sent, ask, http, queue, running, log, floor, mru, bindings>>
      /\ UNCHANGED <<policy, sent, ask, granted, link, disturbed, sessions, objects>>
  BY DEF Watched, FdWatch, busVars, endpointVars, storeVars, portalVars, remoteVars
<1>2. /\ LinkShape /\ Links /\ Shape /\ ~pipe[c].reader
      /\ \A d \in Calls : SaysOf(d)
      /\ req' = [req EXCEPT ![c].cancelled = TRUE]
      /\ IF InSession(c) THEN CancelInner({c}) ELSE call' = call
  BY DEF IInv, Shape, Watched, FdWatch, CallInv, Broken
<1>3. LinksGo
  BY <1>1, ObjectsStay, LinksStay
<1>4. \A d \in Calls : InSession(d) \/ Portaled(d) => Portaled(d) /\ Inner[d] \in Calls
  BY <1>2, OpenedPaths, InnerOf DEF Links
<1>5. Fcn(req, Calls) /\ Fcn(call, Calls) /\ IsRequest(req[c])
      /\ \A d \in Calls : IsCall(call[d]) /\ IsRequest(req[d])
  BY <1>2, Shapes
<1>6. /\ Fcn(req', Calls) /\ req'[c] = [req[c] EXCEPT !.cancelled = TRUE]
      /\ \A d \in Calls \ {c} : req'[d] = req[d]
  BY ONLY <1>2, <1>5 DEF Fcn
<1>7. \A d \in Calls : \E b \in BOOLEAN : req'[d] = [req[d] EXCEPT !.cancelled = b]
  <2>1. ASSUME NEW d \in Calls, d # c
        PROVE  req[d] = [req[d] EXCEPT !.cancelled = req[d].cancelled] /\ req[d].cancelled \in BOOLEAN
    BY <1>5, <2>1 DEF IsRequest
  <2>2. QED
    BY <1>6, <2>1
<1>8. OnlyCancels
  <2>1. CASE InSession(c)
    BY <1>2, <1>6, <1>7, <2>1, InnerMarks, MarksOnly
  <2>2. CASE ~InSession(c)
    BY <1>2, <1>5, <1>6, <1>7, <2>2, MarksOnly
  <2>3. QED
    BY <2>1, <2>2
<1>9. CancelsFor
  <2>1. \A d \in Calls : req'[d].cancelled => req[d].cancelled \/ ~pipe[d].reader
    BY <1>2, <1>6
  <2>2. ASSUME NEW d \in Calls, Portaled(d), InSession(c) => d # c, call'[Inner[d]].cancelled
        PROVE  call[Inner[d]].cancelled
    <3>1. CASE InSession(c)
      <4>1. Inner[c] # Inner[d]
        BY <1>2, <1>4, <2>2, <3>1 DEF Links
      <4>2. call'[Inner[d]] = [call[Inner[d]] EXCEPT !.cancelled =
                                 @ \/ (\E r \in {c} : Inner[r] = Inner[d])]
        BY <1>2, <1>4, <2>2, <3>1 DEF CancelInner
      <4>3. ~(\E r \in {c} : Inner[r] = Inner[d])
        BY <4>1
      <4>4. IsCall(call[Inner[d]])
        BY <1>4, <1>5, <2>2
      <4>5. QED
        BY <2>2, <4>2, <4>3, <4>4 DEF IsCall
    <3>2. CASE ~InSession(c)
      BY <1>2, <2>2, <3>2
    <3>3. QED
      BY <3>1, <3>2
  <2>3. InSession(c) => Sent(c)
    BY <1>2, OpenedPaths, InnerOf
  <2>4. QED
    BY <1>2, <1>4, <2>1, <2>2, <2>3 DEF CancelsFor
<1>10. QED
  BY <1>1, <1>3, <1>8, <1>9, SteadyStep

(* ---- Calls over HTTP                                                       *)

LEMMA WebStep ==
  ASSUME IInv, NEW c \in Calls, IsHttp(c), Touches(c), StoreGoes, req' = req, reply' = reply,
         call'[c].write = call[c].write,
         call'[c].phase \in {"idle", "running"} =>
           call'[c].phase = call[c].phase /\ call'[c].rows = call[c].rows
           /\ call'[c].cursor \in {call[c].cursor, "none"},
         call'[c].phase = "idle" => http'[c] = http[c],
         Web(c)'
  PROVE  IInv'
<1>1. SaysOf(c) /\ RequestOf(c) /\ c \in Asked
  <2>1. AskShape
    BY DEF IInv, Shape
  <2>2. c \in Asked
    BY ONLY <2>1, IsHttp(c), c \in Calls DEF AskShape
  <2>3. CallInv(c)
    BY DEF IInv
  <2>4. QED
    BY <2>2, <2>3 DEF CallInv
<1>2. ~Sent(c) /\ ~Download(c)
  <2>1. IsSent(sent[c])
    BY Shapes DEF IInv
  <2>2. QED
    BY <1>1, <2>1 DEF SaysOf, IsHttp, Sent, Download, Downloads, Uploads, IsSent
<1>3. SaysOf(c)'
  BY <1>1, <1>2, TouchedSays DEF SaysOf
<1>4. ~Download(c)' /\ ~Sent(c)'
  BY <1>2, TouchedStill
<1>5. req[c].phase = "none" /\ sent'[c] = sent[c]
  BY <1>1, <1>2 DEF SaysOf, Touches
<1>6. RequestOf(c)'
  BY <1>4, <1>5 DEF RequestOf, UploadPhases, RowPhases
<1>7. CallInv(c)'
  BY <1>3, <1>4, <1>6 DEF CallInv
<1>8. QED
  BY <1>7, TouchedStep

LEMMA WebStill ==
  ASSUME NEW c, Touches(c)
  PROVE  /\ \A s, k : WebRow(c, s, k)' = WebRow(c, s, k)
         /\ WebCount(c)' = WebCount(c)
         /\ Rewritten("web", Plain(ask[c].text))' = Rewritten("web", Plain(ask[c].text))
         /\ ask'[c] = ask[c] /\ floor'[c] = floor[c]
BY DEF Touches, WebRow, WebCount, Rewritten

LEMMA WebRowsStay ==
  ASSUME NEW c \in Calls, Touches(c), log' = log, WebRows(c),
         call'[c].rows = call[c].rows, http'[c].chunks = http[c].chunks,
         http'[c].written = http[c].written, http'[c].snap = http[c].snap
  PROVE  WebRows(c)'
<1>1. PICK s \in 0..Len(log) : WebFrom(c, s)
  BY DEF WebRows
<1>2. WebFrom(c, s)'
  BY <1>1, WebStill DEF WebFrom
<1>3. QED
  BY <1>1, <1>2 DEF WebRows

(* A step of the server changes the exchange of one call.                     *)
LEMMA ServerTouches ==
  ASSUME IInv, NEW c \in Calls, NEW h, IsExchange(h), http' = [http EXCEPT ![c] = h],
         UNCHANGED <<busVars, endpointVars, storeVars, requestVars, clientVars, portalVars,
                     remoteVars>>
  PROVE  /\ Touches(c) /\ StoreGoes /\ req' = req /\ reply' = reply /\ call' = call /\ log' = log
         /\ http'[c] = h
<1>1. /\ UNCHANGED <<mail, sent, ask, policy, mru, bindings, sessions, granted, link, floor,
                     disturbed, objects, reply, pipe, call, req, log>>
      /\ UNCHANGED storeVars
  BY DEF busVars, endpointVars, storeVars, requestVars, clientVars, portalVars, remoteVars
<1>2. StoreGoes
  BY <1>1, StoreStays
<1>3. Fcn(http', Calls) /\ http'[c] = h /\ \A d \in Calls \ {c} : http'[d] = http[d]
  <2>1. Fcn(http, Calls)
    BY DEF IInv, Shape, HttpShape
  <2>2. QED
    BY <2>1 DEF Fcn
<1>4. Touches(c)
  <2>1. /\ Fcn(reply, Calls) /\ Fcn(pipe, Calls) /\ Fcn(call, Calls) /\ Fcn(req, Calls)
        /\ IsPipe(pipe[c]) /\ IsCall(call[c]) /\ IsRequest(req[c])
        /\ Grow(call[c].rows, call[c].rows)
    BY Shapes DEF IInv
  <2>2. QED
    BY ONLY <1>1, <1>3, <2>1, IsExchange(h), c \in Calls DEF Touches, Fcn
<1>5. QED
  BY <1>1, <1>2, <1>3, <1>4

LEMMA ServerStep ==
  ASSUME IInv, NEW c \in Calls, NEW h, IsExchange(h), http' = [http EXCEPT ![c] = h],
         UNCHANGED <<busVars, endpointVars, storeVars, requestVars, clientVars, portalVars,
                     remoteVars>>,
         http[c].stage # "none", Web(c)'
  PROVE  IInv'
<1>1. /\ Touches(c) /\ StoreGoes /\ req' = req /\ reply' = reply /\ call' = call
  BY ServerTouches
<1>2. IsHttp(c) /\ call[c].phase # "idle"
  BY DEF IInv, CallInv, SaysOf, NoExchange
<1>3. QED
  BY <1>1, <1>2, WebStep

ServerFrame ==
  UNCHANGED <<busVars, endpointVars, storeVars, requestVars, clientVars, portalVars, remoteVars>>

(* A step of the server that leaves the rows of an exchange as they are.      *)
ServerMoves(c, h) ==
  /\ ServerFrame /\ IsExchange(h) /\ http' = [http EXCEPT ![c] = h] /\ http[c].stage # "none"
  /\ h.chunks = http[c].chunks /\ h.written = http[c].written /\ h.snap = http[c].snap

LEMMA ServerKeeps ==
  ASSUME IInv, NEW c \in Calls, NEW h, ServerMoves(c, h)
  PROVE  /\ IsHttp(c) /\ Web(c) /\ http'[c] = h /\ call' = call /\ WebRows(c)'
         /\ ask'[c] = ask[c] /\ WebCount(c)' = WebCount(c)
         /\ Rewritten("web", Plain(ask[c].text))' = Rewritten("web", Plain(ask[c].text))
         /\ WebStages(c)' /\ WebEnds(c)' => IInv'
<1>1. /\ Touches(c) /\ StoreGoes /\ req' = req /\ reply' = reply /\ call' = call /\ log' = log
      /\ http'[c] = h
  BY ServerTouches DEF ServerFrame, ServerMoves
<1>2. IsHttp(c) /\ Web(c)
  BY DEF IInv, CallInv, SaysOf, NoExchange, ServerMoves
<1>3. WebRows(c)'
  <2>1. WebRows(c)
    BY <1>2 DEF Web
  <2>2. QED
    BY <1>1, <2>1, WebRowsStay DEF ServerMoves
<1>4. WebStages(c)' /\ WebEnds(c)' => IInv'
  <2>1. SUFFICES ASSUME WebStages(c)', WebEnds(c)' PROVE IInv'
    OBVIOUS
  <2>2. Web(c)'
    BY <1>3, <2>1 DEF Web
  <2>3. QED
    BY <2>2, ServerStep DEF ServerFrame, ServerMoves
<1>5. QED
  BY <1>1, <1>2, <1>3, <1>4, WebStill

LEMMA BadRequest == 400 \in Nat \ {0, 200}
OBVIOUS

LEMMA StepSoupError ==
  ASSUME IInv, NEW c \in Calls, ServerFrame, NEW code \in Nat \ {0, 200}, SoupError(c, code),
         http[c].stage \in {"sent", "awaiting body", "querying"}
  PROVE  IInv'
<1>1. PICK h : h = [http[c] EXCEPT !.stage = "freed", !.status = code, !.complete = TRUE]
  OBVIOUS
<1>2. IsExchange(http[c])
  BY Shapes DEF IInv
<1>9. h = [stage |-> "freed", text |-> http[c].text, args |-> http[c].args, status |-> code,
           type |-> http[c].type, chunks |-> http[c].chunks, written |-> http[c].written,
           snap |-> http[c].snap, complete |-> TRUE, open |-> http[c].open, lost |-> http[c].lost]
      /\ http[c].written \in Nat /\ http[c].open \in BOOLEAN /\ http[c].lost \in BOOLEAN
  BY ONLY <1>1, <1>2 DEF IsExchange
<1>3. /\ IsExchange(h) /\ h.stage = "freed" /\ h.status = code
      /\ h.chunks = http[c].chunks /\ h.written = http[c].written /\ h.snap = http[c].snap
  BY ONLY <1>9 DEF IsExchange
<1>4. http' = [http EXCEPT ![c] = h]
  BY <1>1 DEF SoupError
<1>5. /\ Web(c) /\ http'[c] = h /\ call' = call /\ ask'[c] = ask[c] /\ WebCount(c)' = WebCount(c)
      /\ WebStages(c)' /\ WebEnds(c)' => IInv'
  <2>1. ServerMoves(c, h)
    BY <1>3, <1>4 DEF ServerMoves
  <2>2. QED
    BY <2>1, ServerKeeps
<1>6. WebStages(c)'
  BY <1>3, <1>5 DEF Web, WebStages
<1>7. WebEnds(c)'
  <2>1. http[c].status = 0 /\ WebEnds(c)
    BY <1>5 DEF Web, WebStages
  <2>2. call[c].cursor = "none"
    BY ONLY <2>1 DEF WebEnds
  <2>3. QED
    BY ONLY <1>3, <1>5, <2>2 DEF WebEnds
<1>8. QED
  BY <1>5, <1>6, <1>7

LEMMA StepSoupResponse ==
  ASSUME IInv, NEW c \in Calls, NEW type, ServerFrame, SoupResponse(c, type),
         \/ http[c].stage = "querying"
         \/ http[c].stage \in {"sent", "awaiting body"} /\ ask[c].method # "post"
  PROVE  IInv'
<1>1. PICK h : h = [http[c] EXCEPT !.stage = "reading", !.status = 200, !.type = type]
  OBVIOUS
<1>2. IsExchange(http[c])
  BY Shapes DEF IInv
<1>9. h = [stage |-> "reading", text |-> http[c].text, args |-> http[c].args, status |-> 200,
           type |-> type, chunks |-> http[c].chunks, written |-> http[c].written,
           snap |-> http[c].snap, complete |-> http[c].complete, open |-> http[c].open,
           lost |-> http[c].lost]
      /\ http[c].written \in Nat /\ http[c].open \in BOOLEAN /\ http[c].lost \in BOOLEAN
      /\ http[c].complete \in BOOLEAN
  BY ONLY <1>1, <1>2 DEF IsExchange
<1>3. /\ IsExchange(h) /\ h.stage = "reading" /\ h.status = 200 /\ h.complete = http[c].complete
      /\ h.chunks = http[c].chunks /\ h.written = http[c].written /\ h.snap = http[c].snap
      /\ h.args = http[c].args /\ h.text = http[c].text
  BY ONLY <1>9 DEF IsExchange
<1>4. http' = [http EXCEPT ![c] = h]
  BY <1>1 DEF SoupResponse
<1>5. /\ Web(c) /\ http'[c] = h /\ call' = call /\ ask'[c] = ask[c] /\ WebCount(c)' = WebCount(c)
      /\ Rewritten("web", Plain(ask[c].text))' = Rewritten("web", Plain(ask[c].text))
      /\ WebStages(c)' /\ WebEnds(c)' => IInv'
  <2>1. ServerMoves(c, h)
    BY <1>3, <1>4 DEF ServerMoves
  <2>2. QED
    BY <2>1, ServerKeeps
<1>6. WebStages(c)'
  BY <1>3, <1>5 DEF Web, WebStages
<1>7. WebEnds(c)'
  BY <1>3, <1>5 DEF Web, WebStages, WebEnds
<1>8. QED
  BY <1>5, <1>6, <1>7

LEMMA StepRequestCb ==
  ASSUME IInv, NEW c \in Calls, NEW blocked, ServerFrame, RequestCb(c, blocked),
         http[c].stage \in {"sent", "awaiting body"}
  PROVE  IInv'
<1>1. CASE SoupError(c, 400)
  <2>2. PICK code \in Nat \ {0, 200} : SoupError(c, code)
    BY ONLY <1>1, BadRequest
  <2>3. QED
    BY ONLY IInv, c \in Calls, ServerFrame, <2>2, StepSoupError,
       http[c].stage \in {"sent", "awaiting body"}
<1>2. CASE ask[c].method # "post" /\ \E type : SoupResponse(c, type)
  BY <1>2, StepSoupResponse
<1>3. CASE /\ ask[c].method = "post"
           /\ \E type : http' = [http EXCEPT ![c] = [@ EXCEPT !.stage = "querying", !.type = type,
                                   !.text = Rewritten("web", Plain(ask[c].text))]]
  <2>1. PICK type : http' = [http EXCEPT ![c] = [@ EXCEPT !.stage = "querying", !.type = type,
                               !.text = Rewritten("web", Plain(ask[c].text))]]
    BY <1>3
  <2>2. PICK h : h = [http[c] EXCEPT !.stage = "querying", !.type = type,
                               !.text = Rewritten("web", Plain(ask[c].text))]
    OBVIOUS
  <2>3. IsExchange(http[c])
    BY Shapes DEF IInv
  <2>4. /\ IsExchange(h) /\ h.stage = "querying" /\ h.status = http[c].status
        /\ h.complete = http[c].complete
        /\ h.chunks = http[c].chunks /\ h.written = http[c].written /\ h.snap = http[c].snap
        /\ h.args = http[c].args /\ h.text = Rewritten("web", Plain(ask[c].text))
    BY ONLY <2>2, <2>3 DEF IsExchange
  <2>5. http' = [http EXCEPT ![c] = h]
    BY <2>1, <2>2
  <2>6. /\ Web(c) /\ http'[c] = h /\ call' = call /\ ask'[c] = ask[c] /\ WebCount(c)' = WebCount(c)
        /\ Rewritten("web", Plain(ask[c].text))' = Rewritten("web", Plain(ask[c].text))
        /\ WebStages(c)' /\ WebEnds(c)' => IInv'
    <3>1. ServerMoves(c, h)
      BY <2>4, <2>5 DEF ServerMoves
    <3>2. QED
      BY <3>1, ServerKeeps
  <2>7. WebStages(c)'
    BY <1>3, <2>4, <2>6 DEF Web, WebStages
  <2>8. WebEnds(c)'
    BY <2>4, <2>6 DEF Web, WebStages, WebEnds
  <2>9. QED
    BY <2>6, <2>7, <2>8
<1>4. QED
  BY <1>1, <1>2, <1>3 DEF RequestCb

(* The next stage, with nothing else.                                         *)
LEMMA StepStage ==
  ASSUME IInv, NEW c \in Calls, NEW stage, ServerFrame, http' = [http EXCEPT ![c].stage = stage],
         \/ http[c].stage = "sent" /\ stage = "awaiting body"
         \/ http[c].stage = "writing" /\ stage \in {"reading", "freed"}
  PROVE  IInv'
<1>1. PICK h : h = [http[c] EXCEPT !.stage = stage]
  OBVIOUS
<1>2. IsExchange(http[c])
  BY Shapes DEF IInv
<1>3. /\ IsExchange(h) /\ h.stage = stage /\ h.status = http[c].status
      /\ h.complete = http[c].complete
      /\ h.chunks = http[c].chunks /\ h.written = http[c].written /\ h.snap = http[c].snap
      /\ h.args = http[c].args /\ h.text = http[c].text
  BY ONLY <1>1, <1>2 DEF IsExchange
<1>4. http' = [http EXCEPT ![c] = h]
  BY <1>1
<1>5. /\ Web(c) /\ http'[c] = h /\ call' = call /\ ask'[c] = ask[c] /\ WebCount(c)' = WebCount(c)
      /\ Rewritten("web", Plain(ask[c].text))' = Rewritten("web", Plain(ask[c].text))
      /\ WebStages(c)' /\ WebEnds(c)' => IInv'
  <2>1. ServerMoves(c, h)
    BY <1>3, <1>4 DEF ServerMoves
  <2>2. QED
    BY <2>1, ServerKeeps
<1>6. WebStages(c)'
  BY <1>3, <1>5 DEF Web, WebStages
<1>7. WebEnds(c)'
  BY <1>3, <1>5 DEF Web, WebStages, WebEnds
<1>8. QED
  BY <1>5, <1>6, <1>7

(* The last chunk was read.                                                   *)
LEMMA StepBodyEnded ==
  ASSUME IInv, NEW c \in Calls, ServerFrame, http[c].stage = "reading", WebNext(c) = {},
         http' = [http EXCEPT ![c] = [@ EXCEPT !.stage = "freed", !.complete = TRUE]]
  PROVE  IInv'
<1>1. PICK h : h = [http[c] EXCEPT !.stage = "freed", !.complete = TRUE]
  OBVIOUS
<1>2. IsExchange(http[c])
  BY Shapes DEF IInv
<1>3. h = [stage |-> "freed", text |-> http[c].text, args |-> http[c].args,
           status |-> http[c].status,
           type |-> http[c].type, chunks |-> http[c].chunks, written |-> http[c].written,
           snap |-> http[c].snap, complete |-> TRUE, open |-> http[c].open, lost |-> http[c].lost]
      /\ http[c].written \in Nat /\ http[c].open \in BOOLEAN /\ http[c].lost \in BOOLEAN
      /\ http[c].status \in Nat
  BY ONLY <1>1, <1>2 DEF IsExchange
<1>4. /\ IsExchange(h) /\ h.stage = "freed" /\ h.status = http[c].status
      /\ h.chunks = http[c].chunks /\ h.written = http[c].written /\ h.snap = http[c].snap
  BY ONLY <1>3 DEF IsExchange
<1>5. http' = [http EXCEPT ![c] = h]
  BY <1>1
<1>6. /\ Web(c) /\ http'[c] = h /\ call' = call /\ ask'[c] = ask[c] /\ WebCount(c)' = WebCount(c)
      /\ WebStages(c)' /\ WebEnds(c)' => IInv'
  <2>1. ServerMoves(c, h)
    BY <1>4, <1>5 DEF ServerMoves
  <2>2. QED
    BY <2>1, ServerKeeps
<1>7. WebStages(c)'
  BY <1>4, <1>6 DEF Web, WebStages
<1>8. http[c].written = WebCount(c)
  <2>1. WebCount(c) \in Nat /\ http[c].written <= WebCount(c)
    BY <1>6, SitesAssumption DEF Web, WebStages, WebCount
  <2>2. ask[c].method = "get" => http[c].written = 1
    BY DEF WebNext
  <2>3. ask[c].method # "get" => http[c].written >= RowCount
    BY DEF WebNext
  <2>4. QED
    BY <1>3, <2>1, <2>2, <2>3, SitesAssumption DEF WebCount
<1>9. call[c].cursor # "end"
  BY <1>6 DEF Web, WebEnds
<1>10. WebEnds(c)'
  BY <1>4, <1>6, <1>8, <1>9 DEF Web, WebEnds
<1>11. QED
  BY <1>6, <1>7, <1>10

(* A chunk was read: it is the next row, of the snapshot of the first.        *)
LEMMA StepChunkRead ==
  ASSUME IInv, NEW c \in Calls, ServerFrame, http[c].stage = "reading", NEW row \in WebNext(c),
         http' = [http EXCEPT ![c] = [@ EXCEPT !.stage = "writing", !.snap = row.snap,
                                      !.written = http[c].written + 1,
                                      !.chunks = Append(http[c].chunks, row)]]
  PROVE  IInv'
<1>1. PICK h : h = [http[c] EXCEPT !.stage = "writing", !.snap = row.snap,
                                   !.written = http[c].written + 1,
                                   !.chunks = Append(http[c].chunks, row)]
  OBVIOUS
<1>2. IsExchange(http[c])
  BY Shapes DEF IInv
<1>3. h = [stage |-> "writing", text |-> http[c].text, args |-> http[c].args,
           status |-> http[c].status,
           type |-> http[c].type, chunks |-> Append(http[c].chunks, row),
           written |-> http[c].written + 1,
           snap |-> row.snap, complete |-> http[c].complete, open |-> http[c].open,
           lost |-> http[c].lost]
      /\ http[c].written \in Nat /\ http[c].open \in BOOLEAN /\ http[c].lost \in BOOLEAN
      /\ http[c].status \in Nat /\ http[c].complete \in BOOLEAN
  BY ONLY <1>1, <1>2 DEF IsExchange
<1>4. /\ IsExchange(h) /\ h.stage = "writing" /\ h.status = http[c].status
      /\ h.chunks = Append(http[c].chunks, row) /\ h.written = http[c].written + 1
      /\ h.snap = row.snap /\ h.args = http[c].args /\ h.text = http[c].text
      /\ h.complete = http[c].complete
  BY ONLY <1>3 DEF IsExchange
<1>5. http' = [http EXCEPT ![c] = h]
  BY <1>1
<1>6. /\ Touches(c) /\ StoreGoes /\ call' = call /\ log' = log /\ http'[c] = h
  BY <1>4, <1>5, ServerTouches DEF ServerFrame
<1>7. Web(c) /\ IsHttp(c)
  BY DEF IInv, CallInv, SaysOf, NoExchange
<1>8. PICK t \in 0..Len(log) : WebFrom(c, t)
  BY <1>7 DEF Web, WebRows
<1>9. IsSeq(http[c].chunks) /\ http[c].written = Len(call[c].rows) + Len(http[c].chunks)
      /\ IsSeq(call[c].rows)
  BY <1>7, Shapes DEF Web, WebRows, IInv
<1>10. Len(log) \in Nat /\ floor[c] \in Nat /\ floor[c] <= Len(log)
  <2>1. StoreShape /\ FloorShape
    BY DEF IInv, Shape
  <2>2. QED
    BY <2>1, SeqFacts DEF StoreShape, FloorShape
<1>11. PICK s \in 0..Len(log) : s = IF http[c].written = 0 THEN Len(log) ELSE t
  BY <1>10
<1>12. row = WebRow(c, s, http[c].written + 1) /\ http[c].written < WebCount(c)
  <2>1. CASE ask[c].method = "get"
    <3>1. http[c].written # 1 /\ http[c].written <= 1
      BY <1>7, <2>1 DEF WebNext, Web, WebStages, WebCount
    <3>2. http[c].written = 0
      BY <1>3, <3>1
    <3>3. row = [text |-> Plain("description"), args |-> {}, n |-> 1, snap |-> Len(log)]
      BY <2>1, <3>1 DEF WebNext
    <3>4. ask[c].args = {}
      BY <2>1 DEF IInv, Shape, AskShape
    <3>5. QED
      BY <1>11, <2>1, <3>2, <3>3, <3>4 DEF WebRow, WebCount
  <2>2. CASE ask[c].method # "get"
    <3>1. ask[c].method = "post"
      BY <1>7, <2>2 DEF IsHttp
    <3>2. /\ ~(http[c].written >= RowCount)
          /\ row = [text |-> http[c].text, args |-> http[c].args, n |-> http[c].written + 1,
                    snap |-> IF http[c].written = 0 THEN Len(log) ELSE http[c].snap]
      BY <2>2 DEF WebNext
    <3>3. http[c].text = Rewritten("web", Plain(ask[c].text)) /\ http[c].args = ask[c].args
      BY <1>7, <3>1 DEF Web, WebStages
    <3>4. http[c].written > 0 => http[c].snap = t
      BY <1>8 DEF WebFrom
    <3>5. (IF http[c].written = 0 THEN Len(log) ELSE http[c].snap) = s
      BY <1>3, <1>11, <3>4
    <3>6. QED
      BY <1>3, <2>2, <3>2, <3>3, <3>5, SitesAssumption DEF WebRow, WebCount
  <2>3. QED
    BY <2>1, <2>2
<1>13. /\ IsSeq(h.chunks) /\ Len(h.chunks) = Len(http[c].chunks) + 1 /\ Len(http[c].chunks) \in Nat
       /\ h.chunks[Len(http[c].chunks) + 1] = row /\ DOMAIN h.chunks = 1..(Len(http[c].chunks) + 1)
       /\ \A k \in 1..Len(http[c].chunks) : h.chunks[k] = http[c].chunks[k]
       /\ DOMAIN http[c].chunks = 1..Len(http[c].chunks)
       /\ Len(call[c].rows) \in Nat /\ DOMAIN call[c].rows = 1..Len(call[c].rows)
  BY <1>4, <1>9, AppendSeq, SeqFacts
<1>20. PICK r \in Nat, q \in Nat : r = Len(call[c].rows) /\ q = Len(http[c].chunks)
  BY <1>13
<1>21. http[c].written = r + q /\ r \in Nat /\ q \in Nat
  BY <1>9, <1>20
<1>22. DOMAIN call[c].rows = 1..r /\ DOMAIN h.chunks = 1..(q + 1)
  BY <1>13, <1>20
<1>14. WebFrom(c, s)'
  <2>1. s >= floor'[c]
    BY <1>6, <1>8, <1>10, <1>11, WebStill DEF WebFrom
  <2>2. ASSUME NEW k \in DOMAIN call[c].rows PROVE call[c].rows[k] = WebRow(c, s, k)
    <3>1. http[c].written # 0
      <4>1. k \in 1..r
        BY <1>22
      <4>2. QED
        BY ONLY <1>21, <4>1
    <3>2. QED
      BY <1>8, <1>11, <2>2, <3>1 DEF WebFrom
  <2>3. ASSUME NEW j \in DOMAIN h.chunks PROVE h.chunks[j] = WebRow(c, s, Len(call[c].rows) + j)
    <3>1. CASE j = Len(http[c].chunks) + 1
      <4>1. Len(call[c].rows) + j = http[c].written + 1
        <5>1. j = q + 1 /\ Len(call[c].rows) = r
          BY <1>20, <3>1
        <5>2. QED
          BY ONLY <1>21, <5>1
      <4>2. QED
        BY <1>12, <1>13, <3>1, <4>1
    <3>2. CASE j # Len(http[c].chunks) + 1
      <4>1. j \in 1..Len(http[c].chunks) /\ http[c].written # 0
        <5>1. j \in 1..(q + 1) /\ j # q + 1
          BY <1>20, <1>22, <3>2
        <5>2. j \in 1..q /\ http[c].written # 0
          BY ONLY <1>21, <5>1
        <5>3. QED
          BY <1>20, <5>2
      <4>2. http[c].chunks[j] = WebRow(c, t, Len(call[c].rows) + j)
        BY <1>8, <1>13, <4>1 DEF WebFrom
      <4>3. QED
        BY <1>11, <1>13, <4>1, <4>2
    <3>3. QED
      BY <3>1, <3>2
  <2>4. h.snap = s /\ row.snap = s
    BY ONLY <1>4, <1>12 DEF WebRow
  <2>5. QED
    BY ONLY <1>6, <2>1, <2>2, <2>3, <2>4, WebStill, Touches(c) DEF WebFrom
<1>15. WebRows(c)'
  <2>1. h.written = Len(call[c].rows) + Len(h.chunks)
    <3>1. Len(h.chunks) = q + 1
      BY <1>13, <1>20
    <3>2. h.written = http[c].written + 1
      BY ONLY <1>4
    <3>3. h.written = r + (q + 1)
      BY ONLY <1>21, <3>2
    <3>4. QED
      BY ONLY <1>20, <3>1, <3>3
  <2>2. QED
    BY <1>4, <1>6, <1>13, <1>14, <2>1 DEF WebRows
<1>16. WebStages(c)'
  <2>1. http[c].written + 1 <= WebCount(c)
    BY <1>3, <1>12, SitesAssumption DEF WebCount
  <2>2. QED
    BY <1>4, <1>6, <1>7, <2>1, WebStill DEF Web, WebStages
<1>17. WebEnds(c)'
  <2>1. ~http[c].complete /\ call[c].cursor # "end"
    BY <1>7 DEF Web, WebEnds
  <2>2. QED
    BY <1>4, <1>6, <1>7, <2>1 DEF Web, WebEnds
<1>18. Web(c)'
  BY <1>15, <1>16, <1>17 DEF Web
<1>19. QED
  BY <1>4, <1>5, <1>18, ServerStep DEF ServerFrame

LEMMA StepWebServer ==
  ASSUME IInv, NEW c \in Calls, WebServerStep(c)
  PROVE  IInv'
<1>1. ServerFrame
  BY DEF WebServerStep, ServerFrame
<1>2. CASE SparqlServerCallback(c, Disallowed(c)) \/ GotMessageBody(c, Disallowed(c))
  <2>1. CASE RequestCb(c, Disallowed(c)) /\ http[c].stage \in {"sent", "awaiting body"}
    BY <1>1, <2>1, StepRequestCb
  <2>2. CASE http[c].stage = "sent" /\ http' = [http EXCEPT ![c].stage = "awaiting body"]
    BY <1>1, <2>2, StepStage
  <2>3. QED
    BY <1>2, <2>1, <2>2 DEF SparqlServerCallback, GotMessageBody, Stage
<1>3. CASE QueryAsyncCb(c)
  <2>1. http[c].stage = "querying"
    BY <1>3 DEF QueryAsyncCb, Stage
  <2>2. CASE SoupResponse(c, http[c].type)
    BY <1>1, <2>1, <2>2, StepSoupResponse
  <2>3. CASE SoupError(c, 400)
    <3>1. PICK code \in Nat \ {0, 200} : SoupError(c, code)
      BY ONLY <2>3, BadRequest
    <3>2. http[c].stage \in {"sent", "awaiting body", "querying"}
      BY ONLY <2>1
    <3>3. QED
      BY ONLY IInv, c \in Calls, <1>1, <3>1, <3>2, StepSoupError
  <2>4. QED
    BY <1>3, <2>2, <2>3 DEF QueryAsyncCb
<1>4. CASE OnBytesRead(c, WebNext(c))
  <2>1. http[c].stage = "reading"
    BY <1>4 DEF OnBytesRead, Stage
  <2>2. CASE WebNext(c) = {} /\ http' = [http EXCEPT ![c] = [@ EXCEPT !.stage = "freed", !.complete = TRUE]]
    BY <1>1, <2>1, <2>2, StepBodyEnded
  <2>3. CASE \E row \in WebNext(c) :
               http' = [http EXCEPT ![c] = [@ EXCEPT !.stage = "writing", !.snap = row.snap,
                                            !.written = http[c].written + 1,
                                            !.chunks = Append(http[c].chunks, row)]]
    BY <1>1, <2>1, <2>3, StepChunkRead
  <2>4. QED
    BY <1>4, <2>2, <2>3 DEF OnBytesRead
<1>5. CASE OnChunkWritten(c) \/ OnMessageFinished(c)
  BY <1>1, <1>5, StepStage DEF OnChunkWritten, OnMessageFinished, Stage
<1>6. QED
  BY <1>2, <1>3, <1>4, <1>5 DEF WebServerStep

(* A step of a client of the HTTP endpoint.                                   *)
BrowserFrame ==
  UNCHANGED <<ask, arguments, busVars, endpointVars, storeVars, requestVars, portalVars, remoteVars>>

LEMMA BrowserTouches ==
  ASSUME IInv, NEW c \in Calls, BrowserFrame,
         Fcn(call', Calls), IsCall(call'[c]), \A d \in Calls \ {c} : call'[d] = call[d],
         Fcn(http', Calls), IsExchange(http'[c]), \A d \in Calls \ {c} : http'[d] = http[d],
         Grow(call[c].rows, call'[c].rows), call'[c].cancelled = call[c].cancelled
  PROVE  Touches(c) /\ StoreGoes /\ req' = req /\ reply' = reply /\ log' = log
<1>1. /\ UNCHANGED <<mail, sent, ask, policy, mru, bindings, sessions, granted, link, floor,
                     disturbed, objects, reply, pipe, req, log>>
      /\ UNCHANGED storeVars
  BY DEF BrowserFrame, busVars, endpointVars, storeVars, requestVars, portalVars, remoteVars
<1>2. StoreGoes
  BY <1>1, StoreStays
<1>3. /\ Fcn(reply, Calls) /\ Fcn(pipe, Calls) /\ Fcn(req, Calls)
      /\ IsPipe(pipe[c]) /\ IsRequest(req[c])
  BY Shapes DEF IInv
<1>4. Touches(c)
  BY <1>1, <1>3 DEF Touches, Fcn
<1>5. QED
  BY <1>1, <1>2, <1>4

(* The cursor of a response moves or is closed, and its rows stay.            *)
LEMMA BrowserMoves ==
  ASSUME IInv, NEW c \in Calls, IsHttp(c), BrowserFrame,
         Fcn(call', Calls), IsCall(call'[c]), \A d \in Calls \ {c} : call'[d] = call[d],
         call'[c].rows = call[c].rows, call'[c].cancelled = call[c].cancelled,
         call'[c].write = call[c].write,
         call'[c].phase \in {call[c].phase, "done"},
         call[c].phase \in {"idle", "running"} => call'[c].phase = "done",
         http' = http \/ \E open \in BOOLEAN : http' = [http EXCEPT ![c].open = open],
         \/ call'[c].cursor \in {"none", "closed"}
         \/ call'[c].cursor = "open" /\ http[c].status = 200
         \/ call'[c].cursor = "end" /\ http[c].status = 200 /\ http[c].complete /\ http[c].chunks = << >>,
         call'[c].cursor = "closed" => http[c].status = 200
  PROVE  IInv'
<1>1. /\ Fcn(http', Calls) /\ IsExchange(http'[c]) /\ \A d \in Calls \ {c} : http'[d] = http[d]
      /\ http'[c].stage = http[c].stage /\ http'[c].text = http[c].text
      /\ http'[c].args = http[c].args /\ http'[c].status = http[c].status
      /\ http'[c].chunks = http[c].chunks /\ http'[c].written = http[c].written
      /\ http'[c].snap = http[c].snap /\ http'[c].complete = http[c].complete
  <2>1. Fcn(http, Calls) /\ IsExchange(http[c])
    BY Shapes DEF IInv
  <2>2. CASE \E open \in BOOLEAN : http' = [http EXCEPT ![c].open = open]
    BY ONLY <2>1, <2>2, c \in Calls DEF IsExchange, Fcn
  <2>3. QED
    BY <2>1, <2>2
<1>2. Grow(call[c].rows, call'[c].rows)
  BY Shapes DEF IInv
<1>3. Touches(c) /\ StoreGoes /\ req' = req /\ reply' = reply /\ log' = log
  BY <1>1, <1>2, BrowserTouches
<1>4. Web(c)
  BY DEF IInv, CallInv
<1>5. WebRows(c)'
  BY <1>1, <1>3, <1>4, WebRowsStay DEF Web
<1>6. WebStages(c)'
  <2>1. /\ WebCount(c)' = WebCount(c) /\ ask'[c] = ask[c]
        /\ Rewritten("web", Plain(ask[c].text))' = Rewritten("web", Plain(ask[c].text))
    BY <1>3, WebStill
  <2>2. QED
    BY ONLY <1>1, <1>4, <2>1 DEF Web, WebStages
<1>7. WebEnds(c)'
  BY <1>1, <1>3, <1>4, WebStill DEF Web, WebEnds
<1>8. Web(c)'
  BY <1>5, <1>6, <1>7 DEF Web
<1>9. call'[c].phase \in {"idle", "running"} => FALSE
  <2>1. call[c].phase \notin {"idle", "running"} => call'[c].phase \notin {"idle", "running"}
    OBVIOUS
  <2>2. QED
    BY <2>1
<1>10. QED
  BY <1>3, <1>8, <1>9, WebStep

LEMMA StepSendMessageCb ==
  ASSUME IInv, NEW c \in Calls, SendMessageCb(c),
         UNCHANGED <<endpointVars, storeVars, requestVars, portalVars, remoteVars>>
  PROVE  IInv'
<1>1. BrowserFrame
  BY DEF SendMessageCb, BrowserFrame
<1>2. IsHttp(c) /\ call[c].phase = "running"
  BY DEF SendMessageCb
<1>3. Outcome(c) = "ok" => http[c].status = 200
  BY DEF Outcome
<1>4. call' = [call EXCEPT ![c].phase = "done", ![c].result = Outcome(c),
                           ![c].cursor = IF Outcome(c) = "ok" THEN "open" ELSE "none"]
  BY DEF SendMessageCb
<1>5. /\ Fcn(call', Calls) /\ IsCall(call'[c]) /\ \A d \in Calls \ {c} : call'[d] = call[d]
      /\ call'[c].rows = call[c].rows /\ call'[c].cancelled = call[c].cancelled
      /\ call'[c].write = call[c].write /\ call'[c].phase = "done"
      /\ call'[c].cursor = IF Outcome(c) = "ok" THEN "open" ELSE "none"
  <2>1. Fcn(call, Calls) /\ IsCall(call[c])
    BY Shapes DEF IInv
  <2>2. QED
    BY ONLY <1>4, <2>1, c \in Calls DEF IsCall, Fcn
<1>6. \E open \in BOOLEAN : http' = [http EXCEPT ![c].open = open]
  <2>1. (Outcome(c) = "ok") \in BOOLEAN
    OBVIOUS
  <2>2. http' = [http EXCEPT ![c].open = (Outcome(c) = "ok")]
    BY DEF SendMessageCb
  <2>3. QED
    BY <2>1, <2>2
<1>7. \/ call'[c].cursor \in {"none", "closed"}
      \/ call'[c].cursor = "open" /\ http[c].status = 200
  BY <1>3, <1>5
<1>8. call'[c].cursor # "closed"
  BY <1>5
<1>9. QED
  BY ONLY IInv, c \in Calls, <1>1, <1>2, <1>5, <1>6, <1>7, <1>8, BrowserMoves

LEMMA StepHttpCursorClose ==
  ASSUME IInv, NEW c \in Calls, IsHttp(c), HttpCursorClose(c),
         UNCHANGED <<endpointVars, storeVars, requestVars, portalVars, remoteVars>>
  PROVE  IInv'
<1>1. BrowserFrame
  BY DEF HttpCursorClose, BrowserFrame
<1>2. SaysOf(c) /\ Web(c)
  BY DEF IInv, CallInv
<1>3. call[c].phase \notin {"idle", "running"} /\ http[c].status = 200
  BY <1>2 DEF HttpCursorClose, SaysOf, Web, WebEnds
<1>4. /\ Fcn(call', Calls) /\ IsCall(call'[c]) /\ \A d \in Calls \ {c} : call'[d] = call[d]
      /\ call'[c].rows = call[c].rows /\ call'[c].cancelled = call[c].cancelled
      /\ call'[c].write = call[c].write /\ call'[c].phase = call[c].phase
      /\ call'[c].cursor = "closed"
  <2>1. Fcn(call, Calls) /\ IsCall(call[c]) /\ call' = [call EXCEPT ![c].cursor = "closed"]
    BY Shapes DEF IInv, HttpCursorClose
  <2>2. QED
    BY ONLY <2>1, c \in Calls DEF IsCall, Fcn
<1>5. \E open \in BOOLEAN : http' = [http EXCEPT ![c].open = open]
  BY DEF HttpCursorClose
<1>6. QED
  BY ONLY IInv, c \in Calls, IsHttp(c), <1>1, <1>3, <1>4, <1>5, BrowserMoves

(* The next row of a response is read.                                        *)
LEMMA StepBrowserRow ==
  ASSUME IInv, NEW c \in Calls, IsHttp(c), BrowserFrame, call[c].cursor = "open",
         http[c].chunks # << >>, CursorRow(c, Head(http[c].chunks)),
         http' = [http EXCEPT ![c].chunks = Tail(@)]
  PROVE  IInv'
<1>1. Web(c) /\ SaysOf(c)
  BY DEF IInv, CallInv
<1>2. IsSeq(http[c].chunks) /\ IsSeq(call[c].rows)
      /\ http[c].written = Len(call[c].rows) + Len(http[c].chunks)
  BY <1>1, Shapes DEF Web, WebRows, IInv
<1>3. /\ Fcn(http', Calls) /\ IsExchange(http'[c]) /\ \A d \in Calls \ {c} : http'[d] = http[d]
      /\ http'[c].stage = http[c].stage /\ http'[c].text = http[c].text
      /\ http'[c].args = http[c].args /\ http'[c].status = http[c].status
      /\ http'[c].chunks = Tail(http[c].chunks) /\ http'[c].written = http[c].written
      /\ http'[c].snap = http[c].snap /\ http'[c].complete = http[c].complete
  <2>1. Fcn(http, Calls) /\ IsExchange(http[c])
    BY Shapes DEF IInv
  <2>2. PICK chunks : chunks = Tail(http[c].chunks)
    OBVIOUS
  <2>3. PICK h : h = [http[c] EXCEPT !.chunks = chunks]
    OBVIOUS
  <2>4. http' = [http EXCEPT ![c] = h]
    BY <2>2, <2>3
  <2>5. Fcn(http', Calls) /\ http'[c] = h /\ \A d \in Calls \ {c} : http'[d] = http[d]
    BY ONLY <2>1, <2>4, c \in Calls DEF Fcn
  <2>6. /\ IsExchange(h) /\ h.stage = http[c].stage /\ h.text = http[c].text
        /\ h.args = http[c].args /\ h.status = http[c].status
        /\ h.chunks = chunks /\ h.written = http[c].written
        /\ h.snap = http[c].snap /\ h.complete = http[c].complete
    BY ONLY <2>1, <2>3 DEF IsExchange
  <2>7. QED
    BY <2>2, <2>5, <2>6
<1>4. PICK row : row = Head(http[c].chunks)
  OBVIOUS
<1>5. /\ Fcn(call', Calls) /\ IsCall(call'[c]) /\ \A d \in Calls \ {c} : call'[d] = call[d]
      /\ call'[c].rows = Append(call[c].rows, row) /\ call'[c].cancelled = call[c].cancelled
      /\ call'[c].write = call[c].write /\ call'[c].phase = call[c].phase
      /\ call'[c].cursor = "open"
  <2>1. Fcn(call, Calls) /\ IsCall(call[c])
    BY Shapes DEF IInv
  <2>2. PICK rows : rows = Append(call[c].rows, row)
    OBVIOUS
  <2>3. call' = [call EXCEPT ![c].cursor = "open", ![c].rows = rows]
    BY <1>4, <2>2 DEF CursorRow
  <2>4. /\ Fcn(call', Calls) /\ IsCall(call'[c]) /\ \A d \in Calls \ {c} : call'[d] = call[d]
        /\ call'[c].rows = rows /\ call'[c].cancelled = call[c].cancelled
        /\ call'[c].write = call[c].write /\ call'[c].phase = call[c].phase
        /\ call'[c].cursor = "open"
    BY ONLY <2>1, <2>3, c \in Calls DEF IsCall, Fcn
  <2>5. QED
    BY <2>2, <2>4
<1>6. Grow(call[c].rows, call'[c].rows)
  BY <1>2, <1>5, GrowAppend
<1>7. Touches(c) /\ StoreGoes /\ req' = req /\ reply' = reply /\ log' = log
  BY ONLY IInv, c \in Calls, BrowserFrame, <1>3, <1>5, <1>6, BrowserTouches
<1>8. call[c].phase \notin {"idle", "running"}
  BY <1>1 DEF SaysOf
<1>9. PICK s \in 0..Len(log) : WebFrom(c, s)
  BY <1>1 DEF Web, WebRows
<1>10. PICK r \in Nat, q \in Nat : r = Len(call[c].rows) /\ q + 1 = Len(http[c].chunks)
  <2>1. Len(call[c].rows) \in Nat /\ Len(http[c].chunks) \in Nat \ {0}
    BY <1>2, SeqFacts, TailSeq
  <2>2. Len(http[c].chunks) - 1 \in Nat /\ (Len(http[c].chunks) - 1) + 1 = Len(http[c].chunks)
    BY <2>1
  <2>3. QED
    BY <2>1, <2>2
<1>11. /\ IsSeq(Tail(http[c].chunks)) /\ Len(Tail(http[c].chunks)) = q
       /\ \A k \in 1..q : Tail(http[c].chunks)[k] = http[c].chunks[k + 1]
       /\ row = http[c].chunks[1]
  <2>1. /\ IsSeq(Tail(http[c].chunks)) /\ Len(Tail(http[c].chunks)) = (q + 1) - 1
        /\ \A k \in 1..Len(Tail(http[c].chunks)) : Tail(http[c].chunks)[k] = http[c].chunks[k + 1]
        /\ Head(http[c].chunks) = http[c].chunks[1]
    BY <1>2, <1>10, TailSeq
  <2>2. (q + 1) - 1 = q
    OBVIOUS
  <2>3. QED
    BY <1>4, <2>1, <2>2
<1>12. /\ IsSeq(Append(call[c].rows, row)) /\ Len(Append(call[c].rows, row)) = r + 1
       /\ Append(call[c].rows, row)[r + 1] = row
       /\ \A k \in 1..r : Append(call[c].rows, row)[k] = call[c].rows[k]
  BY <1>2, <1>10, AppendSeq
<1>13. /\ DOMAIN Append(call[c].rows, row) = 1..(r + 1) /\ DOMAIN call[c].rows = 1..r
       /\ DOMAIN Tail(http[c].chunks) = 1..q /\ DOMAIN http[c].chunks = 1..(q + 1)
  BY <1>2, <1>10, <1>11, <1>12, SeqFacts
<1>14. WebFrom(c, s)'
  <2>1. s >= floor'[c] /\ (http'[c].written > 0 => http'[c].snap = s)
    BY <1>3, <1>7, <1>9, WebStill DEF WebFrom
  <2>2. ASSUME NEW k \in 1..(r + 1) PROVE Append(call[c].rows, row)[k] = WebRow(c, s, k)
    <3>1. CASE k = r + 1
      <4>1. 1 \in 1..(q + 1)
        OBVIOUS
      <4>2. http[c].chunks[1] = WebRow(c, s, Len(call[c].rows) + 1)
        BY <1>9, <1>13, <4>1 DEF WebFrom
      <4>3. QED
        BY <1>10, <1>11, <1>12, <3>1, <4>2
    <3>2. CASE k # r + 1
      <4>1. k \in 1..r
        BY <3>2
      <4>2. QED
        BY <1>9, <1>12, <1>13, <4>1 DEF WebFrom
    <3>3. QED
      BY <3>1, <3>2
  <2>3. ASSUME NEW j \in 1..q PROVE Tail(http[c].chunks)[j] = WebRow(c, s, (r + 1) + j)
    <3>1. j + 1 \in 1..(q + 1) /\ r + (j + 1) = (r + 1) + j
      OBVIOUS
    <3>2. http[c].chunks[j + 1] = WebRow(c, s, r + (j + 1))
      BY <1>9, <1>10, <1>13, <3>1 DEF WebFrom
    <3>3. QED
      BY <1>11, <3>1, <3>2
  <2>4. \A k : WebRow(c, s, k)' = WebRow(c, s, k)
    BY <1>7, WebStill
  <2>5. \A k \in DOMAIN call'[c].rows : call'[c].rows[k] = WebRow(c, s, k)
    BY <1>5, <1>13, <2>2
  <2>6. \A j \in DOMAIN http'[c].chunks :
          http'[c].chunks[j] = WebRow(c, s, Len(call'[c].rows) + j)
    <3>1. DOMAIN http'[c].chunks = 1..q
      BY <1>3, <1>13
    <3>2. http'[c].chunks = Tail(http[c].chunks) /\ Len(call'[c].rows) = r + 1
      BY <1>3, <1>5, <1>12
    <3>3. QED
      BY ONLY <2>3, <3>1, <3>2
  <2>7. QED
    BY ONLY <2>1, <2>4, <2>5, <2>6 DEF WebFrom
<1>15. WebRows(c)'
  <2>1. http[c].written = r + (q + 1)
    BY <1>2, <1>10
  <2>2. http[c].written = (r + 1) + q
    BY <2>1
  <2>3. http'[c].written = Len(call'[c].rows) + Len(http'[c].chunks)
    BY <1>3, <1>5, <1>11, <1>12, <2>2
  <2>4. IsSeq(http'[c].chunks)
    BY <1>3, <1>11
  <2>5. QED
    BY <1>7, <1>14, <2>3, <2>4 DEF WebRows
<1>16. WebStages(c)'
  <2>1. /\ WebCount(c)' = WebCount(c) /\ ask'[c] = ask[c]
        /\ Rewritten("web", Plain(ask[c].text))' = Rewritten("web", Plain(ask[c].text))
    BY <1>7, WebStill
  <2>2. QED
    BY ONLY <1>1, <1>3, <2>1 DEF Web, WebStages
<1>17. WebEnds(c)'
  <2>1. WebCount(c)' = WebCount(c)
    BY <1>7, WebStill
  <2>2. QED
    BY <1>1, <1>3, <1>5, <2>1 DEF Web, WebEnds
<1>18. Web(c)'
  BY <1>15, <1>16, <1>17 DEF Web
<1>19. QED
  BY <1>5, <1>7, <1>8, <1>18, WebStep

LEMMA StepWebClient ==
  ASSUME IInv, NEW c \in Calls, WebClientStep(c)
  PROVE  IInv'
<1>1. UNCHANGED <<endpointVars, storeVars, requestVars, portalVars, remoteVars>>
  BY DEF WebClientStep
<1>2. CASE SendMessageCb(c)
  BY <1>1, <1>2, StepSendMessageCb
<1>3. CASE HttpCursorNext(c)
  <2>1. BrowserFrame /\ IsHttp(c) /\ call[c].cursor = "open"
    BY <1>1, <1>3 DEF HttpCursorNext, BrowserFrame
  <2>2. Web(c) /\ SaysOf(c)
    BY <2>1 DEF IInv, CallInv
  <2>3. http[c].status = 200 /\ call[c].phase \notin {"idle", "running"}
    BY <2>1, <2>2 DEF Web, WebEnds, SaysOf
  <2>4. Fcn(call, Calls) /\ IsCall(call[c])
    BY Shapes DEF IInv
  <2>5. CASE /\ http[c].chunks # << >> /\ CursorRow(c, Head(http[c].chunks))
             /\ http' = [http EXCEPT ![c].chunks = Tail(@)]
    BY <2>1, <2>5, StepBrowserRow
  <2>6. CASE /\ http[c].chunks = << >> /\ http[c].complete
             /\ call' = [call EXCEPT ![c].cursor = "end"]
             /\ http' = http
    <3>1. /\ Fcn(call', Calls) /\ IsCall(call'[c]) /\ \A d \in Calls \ {c} : call'[d] = call[d]
          /\ call'[c].rows = call[c].rows /\ call'[c].cancelled = call[c].cancelled
          /\ call'[c].write = call[c].write /\ call'[c].phase = call[c].phase
          /\ call'[c].cursor = "end"
      BY ONLY <2>4, <2>6, c \in Calls DEF IsCall, Fcn
    <3>2. QED
      BY ONLY IInv, c \in Calls, <2>1, <2>3, <2>6, <3>1, BrowserMoves
  <2>7. CASE /\ call' = [call EXCEPT ![c].cursor = "closed", ![c].result = "no reply"]
             /\ http' = [http EXCEPT ![c].open = FALSE]
    <3>1. /\ Fcn(call', Calls) /\ IsCall(call'[c]) /\ \A d \in Calls \ {c} : call'[d] = call[d]
          /\ call'[c].rows = call[c].rows /\ call'[c].cancelled = call[c].cancelled
          /\ call'[c].write = call[c].write /\ call'[c].phase = call[c].phase
          /\ call'[c].cursor = "closed"
      BY ONLY <2>4, <2>7, c \in Calls DEF IsCall, Fcn
    <3>2. QED
      BY ONLY IInv, c \in Calls, <2>1, <2>3, <2>7, <3>1, BrowserMoves
  <2>8. QED
    BY <1>3, <2>5, <2>6, <2>7 DEF HttpCursorNext
<1>4. QED
  BY <1>2, <1>3 DEF WebClientStep

(* ---- A message is handled                                                  *)

(* The statement of a text is in the cache after it was used.                 *)
LEMMA Remembered ==
  ASSUME Shape, NEW h \in Hosts, NEW text
  PROVE  IsSeq(UpdatedMru(h, text)) /\ text \in ToSet(UpdatedMru(h, text))
<1> DEFINE S == {mru[h][k] : k \in DOMAIN mru[h]} \cup {text}
<1>1. IsSeq(mru[h])
  BY DEF Shape, StoreShape
<1>2. mru[h] \in Seq(S)
  <2>1. {mru[h][k] : k \in DOMAIN mru[h]} \subseteq S
    OBVIOUS
  <2>2. QED
    BY <1>1, <2>1 DEF IsSeq
<1>3. <<text>> \in Seq(S) /\ Len(<<text>>) = 1 /\ <<text>>[1] = text /\ text \in S
  OBVIOUS
<1> HIDE DEF S
<1>4. \A t \in Seq(S) : /\ <<text>> \o t \in Seq(S) /\ Len(<<text>> \o t) = Len(t) + 1
                        /\ (<<text>> \o t)[1] = text
  <2>1. SUFFICES ASSUME NEW t \in Seq(S)
                 PROVE  /\ <<text>> \o t \in Seq(S) /\ Len(<<text>> \o t) = Len(t) + 1
                        /\ (<<text>> \o t)[1] = text
    OBVIOUS
  <2>2. Len(t) \in Nat
    OBVIOUS
  <2>3. QED
    BY <1>3, <2>2, ConcatProperties
<1>5. \A t \in Seq(S) : Len(t) >= 1 /\ t[1] = text => IsSeq(t) /\ text \in ToSet(t)
  BY SeqIs DEF ToSet
<1>6. CASE text \in ToSet(mru[h])
  <2>1. PICK at : at = (CHOOSE i \in DOMAIN mru[h] : mru[h][i] = text)
    OBVIOUS
  <2>2. at \in 1..Len(mru[h]) /\ Len(mru[h]) \in Nat
    <3>1. \E j \in DOMAIN mru[h] : mru[h][j] = text
      BY <1>6 DEF ToSet
    <3>2. QED
      BY <1>2, <2>1, <3>1
  <2>3. /\ SubSeq(mru[h], 1, at - 1) \in Seq(S)
        /\ SubSeq(mru[h], at + 1, Len(mru[h])) \in Seq(S)
    BY <1>2, <2>2, SubSeqProperties
  <2>4. PICK rest \in Seq(S) : rest = RemoveAt(mru[h], at)
    BY <2>3, ConcatProperties DEF RemoveAt
  <2>5. UpdatedMru(h, text) = <<text>> \o rest
    BY <1>6, <2>1, <2>4 DEF UpdatedMru
  <2>6. Len(<<text>> \o rest) >= 1
    <3>1. Len(rest) \in Nat
      OBVIOUS
    <3>2. QED
      BY <1>4, <3>1
  <2>7. QED
    BY <1>4, <1>5, <2>5, <2>6
<1>7. CASE text \notin ToSet(mru[h])
  <2>1. PICK all \in Seq(S) : all = <<text>> \o mru[h] /\ Len(all) = Len(mru[h]) + 1 /\ all[1] = text
    BY <1>2, <1>4
  <2>2. PICK n : n = (IF Len(all) > MAX_CACHED_STMTS THEN MAX_CACHED_STMTS ELSE Len(all))
    OBVIOUS
  <2>3. n \in 1..Len(all) /\ Len(all) \in Nat
    <3>1. Len(mru[h]) \in Nat /\ MAX_CACHED_STMTS \in Nat \ {0}
      BY <1>2, CacheAssumption
    <3>2. QED
      BY <2>1, <2>2, <3>1
  <2>4. UpdatedMru(h, text) = SubSeq(all, 1, n)
    BY <1>7, <2>1, <2>2 DEF UpdatedMru
  <2>5. /\ SubSeq(all, 1, n) \in Seq(S) /\ Len(SubSeq(all, 1, n)) >= 1
        /\ SubSeq(all, 1, n)[1] = text
    BY <2>1, <2>3, SubSeqProperties
  <2>6. QED
    BY <1>5, <2>4, <2>5
<1>8. QED
  BY <1>6, <1>7

(* The message that was the first leaves the mailbox.                         *)
LEMMA MailTaken ==
  ASSUME Shape, Mails, NEW site \in Sites, NEW c, mail[site] # << >>, c = Head(mail[site]),
         Delivered(site), UNCHANGED sent,
         \A d \in Calls \ {c} : req'[d].phase = req[d].phase /\ reply'[d] = reply[d]
  PROVE  /\ c \in Calls /\ Sent(c) /\ SiteOf(c) = site
         /\ req[c].phase = "none" /\ reply[c] = "none"
         /\ mail' \in [Sites -> Seq(Calls)] /\ Mails'
<1>1. mail \in [Sites -> Seq(Calls)] /\ mail' = [mail EXCEPT ![site] = Tail(mail[site])]
  BY DEF Shape, MailShape, Delivered
<1>2. mail' \in [Sites -> Seq(Calls)] /\ 1 \in DOMAIN mail[site] /\ mail[site][1] = c /\ c \in Calls
  BY <1>1
<1>3. Sent(c) /\ SiteOf(c) = site /\ req[c].phase = "none" /\ reply[c] = "none"
  BY <1>2 DEF Mails
<1>4. ASSUME NEW s \in Sites, NEW k \in DOMAIN mail'[s]
      PROVE  \E m \in DOMAIN mail[s] :
               /\ mail'[s][k] = mail[s][m]
               /\ s = site => m = k + 1
               /\ s # site => m = k
  <2>1. CASE s # site
    BY <1>1, <1>4, <2>1
  <2>2. CASE s = site
    <3>1. mail'[s] = Tail(mail[site]) /\ mail[site] \in Seq(Calls)
      BY <1>1, <2>2
    <3>2. k + 1 \in DOMAIN mail[site] /\ Tail(mail[site])[k] = mail[site][k + 1]
      BY <1>4, <3>1
    <3>3. QED
      BY <2>2, <3>1, <3>2
  <2>3. QED
    BY <2>1, <2>2
<1>5. ASSUME NEW s \in Sites, NEW k \in DOMAIN mail'[s], NEW d, d = mail'[s][k]
      PROVE  /\ Sent(d)' /\ SiteOf(d)' = s /\ req'[d].phase = "none" /\ reply'[d] = "none"
             /\ \A j \in DOMAIN mail'[s] : mail'[s][j] = d => j = k
  <2>1. PICK m \in DOMAIN mail[s] : /\ d = mail[s][m]
                                    /\ s = site => m = k + 1
                                    /\ s # site => m = k
    BY <1>4, <1>5
  <2>2. k \in Nat \ {0} /\ d \in Calls
    BY <1>2, <1>5
  <2>3. /\ Sent(d) /\ SiteOf(d) = s /\ req[d].phase = "none" /\ reply[d] = "none"
        /\ \A j \in DOMAIN mail[s] : mail[s][j] = d => j = m
    BY <2>1 DEF Mails
  <2>4. d # c
    BY <1>2, <1>3, <2>1, <2>2, <2>3
  <2>5. ASSUME NEW j \in DOMAIN mail'[s], mail'[s][j] = d PROVE j = k
    <3>1. j \in Nat
      BY <1>2, <2>5
    <3>2. PICK n \in DOMAIN mail[s] : /\ d = mail[s][n]
                                      /\ s = site => n = j + 1
                                      /\ s # site => n = j
      BY <1>4, <2>5
    <3>3. QED
      BY <2>1, <2>2, <2>3, <3>1, <3>2
  <2>6. QED
    BY <2>2, <2>3, <2>4, <2>5 DEF Sent, SiteOf
<1>6. Mails'
  BY <1>5 DEF Mails
<1>7. QED
  BY <1>2, <1>3, <1>6

MessageFrame == UNCHANGED <<clientVars, portalVars, http, remoteVars>>

(* What a method call leaves as it was, whatever it does.                     *)
LEMMA MethodCallFrame ==
  ASSUME IInv, NEW site \in Sites, NEW h, NEW c, NEW blocked, NEW compiled,
         MethodCall(site, h, c, blocked, compiled, "executing"), MessageFrame
  PROVE  /\ UNCHANGED <<sent, ask, sessions, granted, link, floor, disturbed, objects,
                        call, http, running, log, policy>>
         /\ mail[site] # << >> /\ c = Head(mail[site]) /\ Delivered(site) /\ c \in Calls
         /\ \/ /\ \E error : error \notin {"none", "ok"} /\ Refused(c, error)
               /\ UNCHANGED endpointVars
            \/ /\ Download(c)
               /\ \E text :
                    /\ text = Rewritten(h, sent[c].text)
                    /\ SelectAndBind(h, text, sent[c].args)
                    /\ req' = [req EXCEPT ![c] = [NoRequest EXCEPT !.phase = "executing",
                                 !.host = h, !.text = text, !.args = bindings'[h][text]]]
               /\ UNCHANGED <<reply, pipe, queue>>
            \/ sent[c].method \in Uploads /\ BeginUpdate(h, c)
<1>1. /\ UNCHANGED <<sent, ask, sessions, granted, link, floor, disturbed, objects,
                     call, http, running, log>>
      /\ mail[site] # << >> /\ c = Head(mail[site]) /\ Delivered(site)
  BY DEF MethodCall, MessageFrame, clientVars, portalVars, remoteVars
<1>2. c \in Calls
  <2>1. mail[site] \in Seq(Calls)
    BY DEF IInv, Shape, MailShape
  <2>2. QED
    BY <1>1, <2>1
<1>3. \/ /\ \E error : error \notin {"none", "ok"} /\ Refused(c, error)
         /\ UNCHANGED endpointVars
      \/ Download(c) /\ BeginQuery(h, c, compiled, "executing")
      \/ sent[c].method \in Uploads /\ BeginUpdate(h, c)
  <2>1. PICK error : error = Rejection(h, c, blocked)
    OBVIOUS
  <2>2. error # "ok"
    BY <2>1 DEF Rejection
  <2>3. CASE error # "none"
    BY <2>1, <2>2, <2>3 DEF MethodCall
  <2>4. CASE error = "none"
    BY <2>1, <2>4 DEF MethodCall, Download
  <2>5. QED
    BY <2>3, <2>4
<1>4. UNCHANGED policy
  BY <1>3 DEF BeginQuery, BeginUpdate, SelectAndBind, endpointVars
<1>5. ASSUME BeginQuery(h, c, compiled, "executing")
      PROVE  \/ /\ \E error : error \notin {"none", "ok"} /\ Refused(c, error)
                /\ UNCHANGED endpointVars
             \/ /\ \E text :
                     /\ text = Rewritten(h, sent[c].text)
                     /\ SelectAndBind(h, text, sent[c].args)
                     /\ req' = [req EXCEPT ![c] = [NoRequest EXCEPT !.phase = "executing",
                                  !.host = h, !.text = text, !.args = bindings'[h][text]]]
                /\ UNCHANGED <<reply, pipe, queue>>
  <2>1. CASE compiled
    <3>1. PICK text : text = Rewritten(h, sent[c].text)
      OBVIOUS
    <3>2. /\ SelectAndBind(h, text, sent[c].args)
          /\ req' = [req EXCEPT ![c] = [NoRequest EXCEPT !.phase = "executing",
                       !.host = h, !.text = text, !.args = bindings'[h][text]]]
          /\ UNCHANGED <<reply, pipe, queue>>
      BY ONLY <1>5, <2>1, <3>1 DEF BeginQuery
    <3>3. QED
      BY ONLY <3>1, <3>2
  <2>2. CASE ~compiled
    <3>1. Refused(c, "parse error") /\ UNCHANGED endpointVars
      BY ONLY <1>5, <2>2 DEF BeginQuery
    <3>2. QED
      BY ONLY <3>1
  <2>3. QED
    BY <2>1, <2>2
<1>6. QED
  BY <1>1, <1>2, <1>3, <1>4, <1>5, Zenon

(* The frame of a method call, with the message taken.                        *)
Handles(site, c) ==
  /\ UNCHANGED <<sent, ask, sessions, granted, link, floor, disturbed, objects,
                 call, http, running, log, policy>>
  /\ mail[site] # << >> /\ c = Head(mail[site]) /\ Delivered(site)

LEMMA HandlesTouches ==
  ASSUME IInv, NEW site \in Sites, NEW c \in Calls, Handles(site, c),
         Fcn(req', Calls), Fcn(reply', Calls), Fcn(pipe', Calls),
         \A d \in Calls \ {c} :
           req'[d] = req[d] /\ reply'[d] = reply[d] /\ pipe'[d] = pipe[d],
         IsRequest(req'[c]), IsPipe(pipe'[c]),
         UNCHANGED <<mru, bindings>>
           \/ (Fcn(mru', Hosts) /\ Fcn(bindings', Hosts) /\ \A h \in Hosts : IsSeq(mru'[h]))
  PROVE  /\ Touches(c) /\ Received
         /\ Sent(c) /\ SiteOf(c) = site /\ req[c].phase = "none" /\ reply[c] = "none"
<1>1. Shape /\ Mails
  BY DEF IInv
<1>2. /\ Sent(c) /\ SiteOf(c) = site /\ req[c].phase = "none" /\ reply[c] = "none"
      /\ mail' \in [Sites -> Seq(Calls)] /\ Mails'
  <2>1. UNCHANGED sent /\ mail[site] # << >> /\ c = Head(mail[site]) /\ Delivered(site)
    BY DEF Handles
  <2>2. QED
    BY <1>1, <2>1, MailTaken
<1>3. Received
  <2>1. StoreShape
    BY <1>1 DEF Shape
  <2>2. QED
    BY <1>2, <2>1 DEF Received, StoreShape, Fcn
<1>4. Touches(c)
  <2>1. Fcn(call, Calls) /\ Fcn(http, Calls) /\ IsCall(call[c])
        /\ IsExchange(http[c]) /\ Grow(call[c].rows, call[c].rows)
    BY <1>1, Shapes
  <2>2. QED
    BY <1>3, <2>1 DEF Handles, Touches, Fcn
<1>5. QED
  BY <1>2, <1>3, <1>4

(* A call that is refused has its answer, and its end of the pipe is closed.  *)
LEMMA StepRefused ==
  ASSUME IInv, NEW site \in Sites, NEW c \in Calls, Handles(site, c), UNCHANGED endpointVars,
         NEW error, error \notin {"none", "ok"}, Refused(c, error)
  PROVE  IInv'
<1>1. Shape /\ SaysOf(c) /\ RequestOf(c)
  BY DEF IInv, CallInv
<1>2. /\ Fcn(reply', Calls) /\ \A d \in Calls \ {c} : reply'[d] = reply[d]
      /\ reply'[c] = (IF reply[c] = "none" THEN error ELSE reply[c])
  BY <1>1, ReplyMoves DEF Refused
<1>3. /\ Fcn(pipe', Calls) /\ IsPipe(pipe'[c])
      /\ \A d \in Calls \ {c} : pipe'[d] = pipe[d]
      /\ sent[c].method \notin Uploads => pipe'[c] = [pipe[c] EXCEPT !.writer = FALSE]
  <2>1. CASE sent[c].method \in Uploads
    <3>1. ReaderClosed(c)
      BY <2>1 DEF Refused, ServiceEndClosed, ReaderClosed
    <3>2. QED
      BY <1>1, <2>1, <3>1, PipeMoves
  <2>2. CASE sent[c].method \notin Uploads
    <3>1. WriterClosed(c)
      BY <2>2 DEF Refused, ServiceEndClosed, WriterClosed
    <3>2. QED
      BY <1>1, <2>2, <3>1, PipeMoves
  <2>3. QED
    BY <2>1, <2>2
<1>4. UNCHANGED <<req, queue, mru, bindings>>
  BY DEF Refused, endpointVars
<1>5. /\ Touches(c) /\ Received
      /\ Sent(c) /\ req[c].phase = "none" /\ reply[c] = "none"
  BY <1>1, <1>2, <1>3, <1>4, Shapes, HandlesTouches
<1>6. call' = call /\ http' = http /\ disturbed' = disturbed /\ sent' = sent
      /\ UNCHANGED <<queue, running, log>> /\ reply'[c] \notin {"none", "ok"}
  BY <1>2, <1>4, <1>5 DEF Handles
<1>7. CASE ~Download(c)
  <2>1. sent[c].method \in Uploads
    <3>1. IsSent(sent[c]) /\ sent[c].method # "none"
      BY <1>1, <1>5, Shapes DEF Sent
    <3>2. QED
      BY ONLY <1>7, <3>1 DEF IsSent, Download, Uploads, Downloads
  <2>2. ~IsHttp(c)
    BY <1>1, <1>5, <2>1 DEF SaysOf, IsHttp, Uploads
  <2>3. StoreGoes
    BY <1>6, SeqFacts DEF StoreGoes, IInv, Shape, StoreShape, Tasks
  <2>4. QED
    BY <1>4, <1>5, <1>6, <1>7, <2>1, <2>2, <2>3, UploadStep
<1>8. CASE Download(c)
  <2>1. pipe'[c] = [pipe[c] EXCEPT !.writer = FALSE] /\ IsPipe(pipe[c]) /\ Waiting(c)
    <3>1. sent[c].method \notin Uploads
      BY <1>8 DEF Download, Downloads, Uploads
    <3>2. QED
      BY <1>1, <1>3, <1>5, <1>8, <3>1, Shapes DEF RequestOf
  <2>2. ~pipe'[c].writer /\ pipe'[c].data = << >> /\ pipe'[c].reader = pipe[c].reader
    BY <2>1 DEF IsPipe, Waiting
  <2>3. call'[c].rows = << >> /\ call'[c].cursor = "none" /\ req'[c].phase = "none"
        /\ call'[c] = call[c] /\ req'[c] = req[c]
    BY <1>4, <1>5, <1>6, <2>1 DEF Waiting
  <2>4. PICK s \in 0..Len(log) : FlowFrom(c, s)
    BY <1>8, DownloadFacts DEF Flow
  <2>5. FlowFrom(c, s)'
    <3>1. RowsOk(c, s)' /\ TokensOk(c, s)'
      BY ONLY <2>2, <2>3 DEF RowsOk, TokensOk
    <3>2. (InSession(c)' <=> InSession(c)) /\ (~InSession(c) => Since(c, s)')
      BY <1>5, <1>8, <2>4, TouchedStill, TouchedRows DEF FlowFrom
    <3>3. QED
      BY <2>3, <3>1, <3>2 DEF FlowFrom, RowPhases
  <2>6. RequestOf(c)'
    BY <1>6, <2>3 DEF RequestOf, UploadPhases, RowPhases
  <2>7. Ends(c)'
    <3>1. Ends(c) /\ (InSession(c)' <=> InSession(c))
      BY <1>5, <1>8, DownloadFacts, TouchedStill
    <3>2. QED
      BY ONLY <1>6, <2>2, <2>3, <3>1 DEF Ends, RowPhases
  <2>8. IsSeq(pipe'[c].data)
    BY <2>2, NothingSeq
  <2>9. QED
    BY <1>5, <1>6, <1>8, <2>3, <2>4, <2>5, <2>6, <2>7, <2>8, DownloadStep
<1>9. QED
  BY <1>7, <1>8

(* A query or a serialization is executed with the values of its message.     *)
LEMMA StepQueryBegun ==
  ASSUME IInv, NEW site \in Sites, NEW c \in Calls, Handles(site, c), Download(c),
         NEW h \in Hosts, h = sent[c].path, NEW text, text = Rewritten(h, sent[c].text),
         SelectAndBind(h, text, sent[c].args),
         req' = [req EXCEPT ![c] = [NoRequest EXCEPT !.phase = "executing", !.host = h,
                                      !.text = text, !.args = bindings'[h][text]]],
         UNCHANGED <<reply, pipe, queue>>
  PROVE  IInv'
<1>1. Shape /\ SaysOf(c) /\ RequestOf(c) /\ StoreShape
  BY DEF IInv, CallInv, Shape
<1>2. PICK texts : texts = ToSet(UpdatedMru(h, text))
  OBVIOUS
<1>3. text \in texts /\ IsSeq(UpdatedMru(h, text))
  BY <1>1, <1>2, Remembered
<1>4. /\ Fcn(mru', Hosts) /\ \A g \in Hosts : IsSeq(mru'[g])
      /\ Fcn(bindings', Hosts) /\ bindings'[h][text] = sent[c].args
  <2>1. mru' = [mru EXCEPT ![h] = UpdatedMru(h, text)]
    BY DEF SelectAndBind
  <2>2. Fcn(mru', Hosts) /\ \A g \in Hosts : IsSeq(mru'[g])
    BY <1>1, <1>3, <2>1 DEF StoreShape, Fcn
  <2>3. bindings' = [bindings EXCEPT ![h] =
                       [t \in texts |-> IF t = text THEN Bound({}, sent[c].args) ELSE bindings[h][t]]]
    BY <1>2 DEF SelectAndBind
  <2>4. Fcn(bindings', Hosts) /\ bindings'[h][text] = Bound({}, sent[c].args)
    BY ONLY <1>1, <1>3, <2>3, h \in Hosts DEF StoreShape, Fcn
  <2>5. Bound({}, sent[c].args) = sent[c].args
    BY DEF Bound
  <2>6. QED
    BY <2>2, <2>4, <2>5
<1>5. PICK r : r = [NoRequest EXCEPT !.phase = "executing", !.host = h, !.text = text,
                                     !.args = sent[c].args]
  OBVIOUS
<1>6. /\ r.phase = "executing" /\ r.host = h /\ r.text = text /\ r.args = sent[c].args
      /\ r.written = 0 /\ ~r.cancelled /\ IsRequest(r)
  BY ONLY <1>5 DEF NoRequest, IsRequest
<1>7. /\ Fcn(req', Calls) /\ req'[c] = r /\ \A d \in Calls \ {c} : req'[d] = req[d]
  <2>1. req' = [req EXCEPT ![c] = r]
    BY <1>4, <1>5
  <2>2. QED
    BY <1>1, <1>6, <2>1, ReqMoves
<1>8. /\ Touches(c) /\ Received
      /\ Sent(c) /\ req[c].phase = "none" /\ reply[c] = "none"
  BY <1>1, <1>4, <1>6, <1>7, Shapes, HandlesTouches
<1>9. call' = call /\ http' = http /\ disturbed' = disturbed /\ sent' = sent
      /\ UNCHANGED <<queue, running, log, pipe, reply>>
  BY DEF Handles
<1>10. Waiting(c) /\ reply'[c] = "none"
  BY <1>1, <1>8, <1>9 DEF RequestOf
<1>11. PICK s \in 0..Len(log) : FlowFrom(c, s)
  BY DownloadFacts DEF Flow
<1>12. FlowFrom(c, s)'
  <2>1. RowsOk(c, s)' /\ TokensOk(c, s)'
    BY ONLY <1>9, <1>10 DEF RowsOk, TokensOk, Waiting
  <2>2. (InSession(c)' <=> InSession(c)) /\ (~InSession(c) => Since(c, s)')
    BY <1>8, <1>11, TouchedStill, TouchedRows DEF FlowFrom
  <2>3. QED
    BY <1>6, <1>7, <2>1, <2>2 DEF FlowFrom, RowPhases
<1>13. RequestOf(c)'
  <2>1. Rewritten(sent[c].path, sent[c].text)' = text /\ (Download(c)' <=> Download(c))
    BY <1>8, <1>9, TouchedStill
  <2>2. QED
    BY ONLY <1>6, <1>7, <1>9, <1>10, <2>1, Download(c), h = sent[c].path
       DEF RequestOf, UploadPhases, RowPhases, Waiting
<1>14. Ends(c)'
  <2>1. Ends(c) /\ (InSession(c)' <=> InSession(c))
    BY <1>8, DownloadFacts, TouchedStill
  <2>2. QED
    BY ONLY <1>6, <1>7, <1>9, <1>10, <2>1 DEF Ends, RowPhases, Waiting
<1>15. IsSeq(pipe'[c].data)
  BY <1>9, <1>10, NothingSeq DEF Waiting
<1>16. QED
  BY <1>8, <1>9, <1>11, <1>12, <1>13, <1>14, <1>15, DownloadStep

(* The request of an update is read by a thread, or is left to the store.     *)
LEMMA StepUpdateBegun ==
  ASSUME IInv, NEW site \in Sites, NEW c \in Calls, Handles(site, c),
         sent[c].method \in Uploads, NEW h, BeginUpdate(h, c)
  PROVE  IInv'
<1>1. Shape /\ SaysOf(c) /\ RequestOf(c) /\ Tasks
  BY DEF IInv, CallInv
<1>2. PICK phase \in {"op", "stream"} : NewUpdate(h, c, phase)
  BY DEF BeginUpdate
<1>3. PICK r : r = [NoRequest EXCEPT !.phase = phase, !.host = h]
  OBVIOUS
<1>4. r.phase = phase /\ IsRequest(r)
  BY ONLY <1>3 DEF NoRequest, IsRequest
<1>5. /\ Fcn(req', Calls) /\ req'[c] = r /\ \A d \in Calls \ {c} : req'[d] = req[d]
  <2>1. req' = [req EXCEPT ![c] = r]
    BY <1>2, <1>3 DEF NewUpdate
  <2>2. QED
    BY <1>1, <1>4, <2>1, ReqMoves
<1>6. UNCHANGED <<reply, pipe, mru, bindings>>
  BY DEF BeginUpdate, endpointVars
<1>7. Touches(c) /\ Received
  BY <1>1, <1>4, <1>5, <1>6, Shapes, HandlesTouches
<1>8. StoreGoes
  <2>1. IsSeq(queue) /\ IsSeq(log) /\ IsTask(running) /\ Len(log) \in Nat /\ sent' = sent
        /\ UNCHANGED <<running, log>>
    BY <1>1, SeqFacts DEF Shape, StoreShape, Handles
  <2>2. CASE queue' = queue
    BY <1>1, <2>1, <2>2 DEF StoreGoes, Tasks
  <2>3. CASE \E kind : queue' = Append(queue, [call |-> c, kind |-> kind, text |-> NoText])
    <3>1. PICK kind : queue' = Append(queue, [call |-> c, kind |-> kind, text |-> NoText])
      BY <2>3
    <3>2. IsSeq(queue') /\ \A k \in DOMAIN queue' : queue'[k].call = c
                              \/ (k \in DOMAIN queue /\ queue'[k] = queue[k])
      BY <2>1, <3>1, AppendSeq, SeqFacts
    <3>3. QED
      BY <1>1, <2>1, <3>2 DEF StoreGoes, Tasks
  <2>4. QED
    BY <2>2, <2>3 DEF BeginUpdate, Queued
<1>9. ~Download(c) /\ ~IsHttp(c)
  BY <1>1 DEF SaysOf, Sent, Uploads, Download, Downloads, IsHttp
<1>10. QED
  BY <1>4, <1>5, <1>7, <1>8, <1>9, UploadStep DEF UploadPhases, Handles

LEMMA StepMethodCall ==
  ASSUME IInv, NEW site \in Sites, NEW h \in Hosts, NEW c, NEW blocked, NEW compiled,
         h = sent[c].path,
         MethodCall(site, h, c, blocked, compiled, "executing"), MessageFrame
  PROVE  IInv'
<1>1. Handles(site, c) /\ c \in Calls
  BY MethodCallFrame DEF Handles
<1>2. CASE UNCHANGED endpointVars /\ \E error : error \notin {"none", "ok"} /\ Refused(c, error)
  BY <1>1, <1>2, StepRefused
<1>3. CASE sent[c].method \in Uploads /\ BeginUpdate(h, c)
  BY <1>1, <1>3, StepUpdateBegun
<1>4. ASSUME Download(c), UNCHANGED <<reply, pipe, queue>>,
             NEW text, text = Rewritten(h, sent[c].text), SelectAndBind(h, text, sent[c].args),
             req' = [req EXCEPT ![c] = [NoRequest EXCEPT !.phase = "executing",
                                 !.host = h, !.text = text, !.args = bindings'[h][text]]]
      PROVE  IInv'
  BY <1>1, <1>4, StepQueryBegun
<1>5. QED
  BY <1>1, <1>2, <1>3, <1>4, MethodCallFrame

LEMMA StepHandled ==
  ASSUME IInv, NEW c \in Calls,
         ServiceMethodCall(c) \/ (SessionMethodCall(c) /\ UNCHANGED <<http, remoteVars>>)
  PROVE  IInv'
<1>1. {"service", "portal"} \subseteq Sites /\ "service" \in Hosts
  BY SitesAssumption
<1>2. CASE ServiceMethodCall(c)
  <2>1. MethodCall("service", "service", c, FALSE, Compiles(sent[c].text), "executing")
        /\ MessageFrame /\ sent[c].path = "service"
    BY <1>2 DEF ServiceMethodCall, MessageFrame, ToService
  <2>2. QED
    BY <1>1, <2>1, StepMethodCall
<1>3. CASE SessionMethodCall(c) /\ UNCHANGED <<http, remoteVars>>
  <2>1. MethodCall("portal", sent[c].path, c, BlockCall(sent[c].path, c), TRUE, "executing")
        /\ MessageFrame /\ sent[c].path \in Opened
    BY <1>3 DEF SessionMethodCall, MessageFrame, InSession
  <2>2. sent[c].path \in Hosts
    BY <2>1, OpenedPaths DEF IInv, Shape
  <2>3. QED
    BY <1>1, <2>1, <2>2, StepMethodCall
<1>4. QED
  BY <1>2, <1>3

(* ---- A call is made                                                        *)

(* A set of numbers below a bound has a greatest one.                         *)
LEMMA Greatest ==
  ASSUME NEW n \in Nat, NEW S, S \subseteq 1..n, S # {}
  PROVE  \E k \in S : \A j \in S : j <= k
<1> DEFINE T == {b \in Nat : \A j \in S : j <= b}
<1>1. T \subseteq Nat /\ n \in T
  OBVIOUS
<1>2. PICK m \in T : \A k \in T : <<k, m>> \notin OpToRel(<, Nat)
  <2>1. T # {} /\ T \subseteq Nat
    BY <1>1
  <2> HIDE DEF T
  <2>2. QED
    BY <2>1, WFMin, NatLessThanWellFounded, Zenon
<1>3. m \in Nat
  OBVIOUS
<1>4. \A k \in T : k \in Nat => ~(k < m)
  <2> HIDE DEF T
  <2>1. QED
    BY <1>2, <1>3, Zenon DEF OpToRel
<1>5. CASE m \in S
  BY <1>5
<1>6. CASE m \notin S
  <2>1. PICK j \in S : TRUE
    OBVIOUS
  <2>2. m - 1 \in Nat
    BY <2>1
  <2>3. m - 1 \in T
    BY <1>6, <2>2
  <2>4. QED
    BY <1>3, <1>4, <2>2, <2>3
<1>7. QED
  BY <1>5, <1>6

LEMMA AcknowledgedIn ==
  ASSUME Shape
  PROVE  Acknowledged \in 0..Len(log)
<1>1. Len(log) \in Nat /\ DOMAIN log = 1..Len(log)
  BY SeqFacts DEF Shape, StoreShape
<1>2. PICK S : S = {k \in DOMAIN log : call[log[k].call].result = "ok"}
  OBVIOUS
<1>3. CASE S = {}
  BY <1>1, <1>2, <1>3 DEF Acknowledged
<1>4. CASE S # {}
  <2>1. S \subseteq 1..Len(log)
    BY <1>1, <1>2
  <2>2. \E k \in S : \A j \in S : j <= k
    BY <1>1, <1>4, <2>1, Greatest, Zenon
  <2>3. Acknowledged = CHOOSE k \in S : \A j \in S : j <= k
    BY <1>2, <1>4, Zenon DEF Acknowledged
  <2>4. Acknowledged \in S
    BY <2>2, <2>3
  <2>5. QED
    BY <1>1, <2>1, <2>4
<1>5. QED
  BY <1>3, <1>4

(* The message was put into the mailbox of its site, or there was nobody.     *)
Posted(i) ==
  \/ mail' = mail
  \/ \E s \in Sites :
       /\ mail' = [mail EXCEPT ![s] = Append(@, i)]
       /\ Sent(i)' /\ SiteOf(i)' = s /\ req'[i].phase = "none" /\ reply'[i] = "none"

LEMMA PostedMails ==
  ASSUME Shape, Mails, NEW i \in Calls, ~Sent(i), Posted(i), \A d \in Calls \ {i} : Same(d)
  PROVE  mail' \in [Sites -> Seq(Calls)] /\ Mails'
<1>1. mail \in [Sites -> Seq(Calls)]
  BY DEF Shape, MailShape
<1>2. \A s \in Sites : \A k \in DOMAIN mail[s] : mail[s][k] \in Calls /\ mail[s][k] # i
  BY <1>1 DEF Mails
<1>3. \A d \in Calls \ {i} : /\ Sent(d)' <=> Sent(d)
                             /\ SiteOf(d)' = SiteOf(d)
                             /\ req'[d].phase = req[d].phase /\ reply'[d] = reply[d]
  BY DEF Same, Sent, SiteOf
<1>4. CASE mail' = mail
  BY <1>1, <1>2, <1>3, <1>4 DEF Mails
<1>5. CASE mail' # mail
  <2>1. PICK s \in Sites :
       /\ mail' = [mail EXCEPT ![s] = Append(mail[s], i)]
       /\ Sent(i)' /\ SiteOf(i)' = s /\ req'[i].phase = "none" /\ reply'[i] = "none"
    BY <1>5 DEF Posted
  <2>2. mail[s] \in Seq(Calls) /\ mail' \in [Sites -> Seq(Calls)]
        /\ mail'[s] = Append(mail[s], i) /\ \A t \in Sites \ {s} : mail'[t] = mail[t]
    BY <1>1, <2>1
  <2>3. Len(mail[s]) \in Nat /\ DOMAIN mail'[s] = 1..(Len(mail[s]) + 1)
        /\ mail'[s][Len(mail[s]) + 1] = i
        /\ \A k \in 1..Len(mail[s]) : mail'[s][k] = mail[s][k]
        /\ DOMAIN mail[s] = 1..Len(mail[s])
    BY <2>2
  <2>4. ASSUME NEW t \in Sites, NEW k \in DOMAIN mail'[t], NEW d, d = mail'[t][k]
        PROVE  /\ Sent(d)' /\ SiteOf(d)' = t /\ req'[d].phase = "none" /\ reply'[d] = "none"
               /\ \A j \in DOMAIN mail'[t] : mail'[t][j] = d => j = k
    <3>1. CASE t # s
      BY <1>2, <1>3, <2>2, <2>4, <3>1 DEF Mails
    <3>2. CASE t = s /\ k # Len(mail[s]) + 1
      <4>1. k \in DOMAIN mail[s] /\ d = mail[s][k] /\ d # i /\ d \in Calls
        BY <1>2, <2>3, <2>4, <3>2
      <4>2. /\ Sent(d) /\ SiteOf(d) = s /\ req[d].phase = "none" /\ reply[d] = "none"
            /\ \A j \in DOMAIN mail[s] : mail[s][j] = d => j = k
        BY <4>1 DEF Mails
      <4>3. QED
        BY <1>3, <2>3, <3>2, <4>1, <4>2
    <3>3. CASE t = s /\ k = Len(mail[s]) + 1
      BY <1>2, <2>1, <2>3, <2>4, <3>3
    <3>4. QED
      BY <3>1, <3>2, <3>3
  <2>5. QED
    BY <2>2, <2>4 DEF Mails
<1>6. QED
  BY <1>4, <1>5

(* A call that was not made before is made: the others stay as they are.      *)
LEMMA BegunStep ==
  ASSUME IInv, NEW i \in Calls, ~Sent(i), Posted(i), Shape', Links', Spared', Context,
         UNCHANGED <<queue, running>>,
         \A d \in Calls \ {i} : Same(d), CallInv(i)'
  PROVE  IInv'
<1>1. Shape /\ Links /\ Mails /\ Tasks
  BY DEF IInv
<1>2. Mails'
  BY <1>1, PostedMails
<1>3. Tasks'
  <2>1. \A d \in Calls : sent[d].method \in Uploads => sent'[d] = sent[d]
    BY DEF Context, Sent, Uploads
  <2>2. QED
    BY <1>1, <2>1 DEF Tasks
<1>4. ASSUME NEW d \in Calls, d # i PROVE CallInv(d)'
  <2>1. CallInv(d) /\ Same(d) /\ LinkShape' /\ AskShape'
    BY <1>4 DEF IInv, Shape
  <2>2. QED
    BY <1>1, <2>1, Untouched
<1>5. QED
  BY <1>2, <1>3, <1>4 DEF IInv

(* What the client c changes when it makes its call, whatever the call is.    *)
Makes(c) ==
  /\ UNCHANGED <<ask, policy, mru, bindings, queue, running, log, req, objects, sessions,
                 granted, link, disturbed>>
  /\ floor' = [floor EXCEPT ![c] = Acknowledged]
  /\ mail' \in [Sites -> Seq(Calls)]
  /\ Fcn(sent', Calls) /\ Fcn(reply', Calls) /\ Fcn(pipe', Calls)
  /\ Fcn(call', Calls) /\ Fcn(http', Calls)
  /\ \A d \in Calls \ {c} :
       /\ sent'[d] = sent[d] /\ reply'[d] = reply[d] /\ pipe'[d] = pipe[d]
       /\ call'[d] = call[d] /\ http'[d] = http[d]
  /\ IsSent(sent'[c]) /\ IsPipe(pipe'[c]) /\ IsCall(call'[c]) /\ IsExchange(http'[c])
  /\ call'[c].rows = << >> /\ call'[c].cursor = "none"
  /\ call'[c].cancelled = call[c].cancelled

LEMMA MadeShape ==
  ASSUME Shape, NEW c \in Calls, Makes(c)
  PROVE  Shape'
<1>1. MailShape' /\ PipeShape' /\ SentShape' /\ HttpShape'
  BY DEF Shape, MailShape, PipeShape, SentShape, HttpShape, Makes
<1>2. CallShape'
  BY NothingSeq DEF Shape, CallShape, Makes
<1>3. ReqShape'
  BY DEF Shape, ReqShape, Makes, Fcn
<1>4. AskShape'
  BY DEF Shape, AskShape, Makes, Fcn, IsHttp, Asked
<1>5. StoreShape'
  BY DEF Shape, StoreShape, Makes, Fcn
<1>6. LinkShape'
  <2>1. LinkShape /\ link' = link /\ Opened' = Opened /\ sessions' = sessions
    BY DEF Shape, Makes, Opened
  <2>2. QED
    BY <2>1 DEF LinkShape, Fcn
<1>7. FloorShape'
  <2>1. Acknowledged \in 0..Len(log) /\ Len(log) \in Nat /\ log' = log
    BY AcknowledgedIn, SeqFacts DEF Shape, StoreShape, Makes
  <2>2. QED
    BY <2>1 DEF Shape, FloorShape, Makes
<1>8. QED
  BY <1>1, <1>2, <1>3, <1>4, <1>5, <1>6, <1>7 DEF Shape

(* Nothing was sent for a call that is made through the portal.               *)
LEMMA InnerUnsent ==
  ASSUME IInv, NEW c \in Calls, Portaled(c), ~Sent(c)
  PROVE  ~Sent(Inner[c])
<1>1. Links /\ LinkShape /\ \A d \in Calls : SaysOf(d)
  BY DEF IInv, CallInv, Shape
<1>2. Inner[c] \in Calls \ Asked
  BY <1>1 DEF Links
<1>3. SUFFICES ASSUME Sent(Inner[c]) PROVE FALSE
  OBVIOUS
<1>4. PICK o \in Calls : Relays(o, Inner[c])
  BY <1>1, <1>2, <1>3 DEF SaysOf
<1>5. InSession(o) /\ Inner[o] = Inner[c]
  BY <1>4 DEF Relays
<1>6. Sent(o) /\ Portaled(o)
  BY <1>1, <1>5, OpenedPaths, InnerOf
<1>7. QED
  BY <1>1, <1>5, <1>6 DEF Links

LEMMA MadeKeeps ==
  ASSUME IInv, NEW c \in Calls, c \in Asked, call[c].phase = "idle", Makes(c),
         link[ask[c].client].state \in {"naming", "ready"},
         sent'[c] = sent[c] \/ sent'[c].path = link[ask[c].client].path
  PROVE  /\ Shape' /\ Links' /\ Spared' /\ Context /\ ~Sent(c)
         /\ \A d \in Calls \ {c} : Same(d)
         /\ InSession(c)' => (call'[Inner[c]].cancelled => disturbed' # {})
<1>1. Shape /\ Links /\ LinkShape /\ SaysOf(c) /\ Spared /\ \A d \in Calls : SaysOf(d)
  BY DEF IInv, CallInv, Shape
<1>2. ~Sent(c) /\ sent[c] = NoMessage /\ call[c].rows = << >>
  BY <1>1 DEF SaysOf
<1>3. Shape'
  BY <1>1, MadeShape
<1>4. Links'
  BY <1>1, LinksKept DEF Makes
<1>5. "none" \notin Opened /\ "service" \notin Opened /\ Opened' = Opened
  BY <1>1, OpenedPaths DEF Makes, Opened
<1>6. InSession(c)' => Portaled(c) /\ Inner[c] \in Calls
  <2>1. SUFFICES ASSUME InSession(c)' PROVE Portaled(c) /\ Inner[c] \in Calls
    OBVIOUS
  <2>2. sent'[c].path \in Opened
    BY <1>5, <2>1 DEF InSession
  <2>3. link[ask[c].client].path \in Opened
    BY <1>2, <1>5, <2>2 DEF NoMessage
  <2>4. Place(link[ask[c].client])
    BY <1>1 DEF Links, LinkOk, Connected, Asked
  <2>5. QED
    BY <1>1, <1>5, <2>3, <2>4 DEF Place, Portaled, Links
<1>7. \A d \in Calls : call'[d].cancelled = call[d].cancelled
  BY DEF Makes
<1>8. Spared'
  <2>1. \A d \in Calls : Portaled(d)' => Portaled(d) /\ Inner[d] \in Calls
    BY <1>1 DEF Links, Makes, Portaled, Asked
  <2>2. \A d \in Calls : ~Sent(d)' => ~Sent(d)
    BY <1>2 DEF Makes, Sent
  <2>3. QED
    BY <1>1, <1>7, <2>1, <2>2 DEF Spared, Makes
<1>9. InSession(c)' => (call'[Inner[c]].cancelled => disturbed' # {})
  BY <1>1, <1>2, <1>6, <1>7 DEF Spared, Makes
<1>10. Context
  <2>1. IsSeq(log) /\ IsSeq(log') /\ Len(log) <= Len(log')
    BY <1>1, SeqFacts DEF Shape, StoreShape, Makes
  <2>2. \A e \in Calls : Grow(call[e].rows, call'[e].rows)
    <3>1. SUFFICES ASSUME NEW e \in Calls PROVE Grow(call[e].rows, call'[e].rows)
      OBVIOUS
    <3>2. call'[e].rows = call[e].rows
      BY <1>2 DEF Makes
    <3>3. QED
      BY <1>1, <3>2, Shapes
  <2>3. \A o \in Calls : InSession(o)' => (InSession(o) /\ floor'[o] = floor[o]) \/ ~Sent(Inner[o])
    <3>1. SUFFICES ASSUME NEW o \in Calls, InSession(o)'
                   PROVE  (InSession(o) /\ floor'[o] = floor[o]) \/ ~Sent(Inner[o])
      OBVIOUS
    <3>2. CASE o = c
      BY <1>2, <1>6, <3>1, <3>2, InnerUnsent
    <3>3. CASE o # c
      <4>1. FloorShape
        BY <1>1 DEF Shape
      <4>2. QED
        BY <1>5, <3>1, <3>3, <4>1 DEF Makes, InSession, FloorShape
    <3>4. QED
      BY <3>2, <3>3
  <2>4. \A e \in Calls : Sent(e) => sent'[e] = sent[e]
    BY <1>2 DEF Makes
  <2>5. QED
    BY <1>5, <2>1, <2>2, <2>3, <2>4 DEF Context, Makes, Asked
<1>11. ASSUME NEW d \in Calls, d # c PROVE Same(d)
  <2>1. InSession(d) => Inner[d] \in Calls
    BY <1>1, <1>5, InnerOf
  <2>2. floor'[d] = floor[d]
    BY <1>1, <1>11 DEF Makes, Shape, FloorShape
  <2>3. QED
    BY <1>7, <1>11, <2>1, <2>2 DEF Makes, Same
<1>12. QED
  BY <1>2, <1>3, <1>4, <1>8, <1>9, <1>10, <1>11

(* A call for rows that was just made: nothing was done for it yet.           *)
LEMMA FreshDownload ==
  ASSUME Shape', NEW i \in Calls, Download(i)', pipe'[i].data = << >>, pipe'[i].reader,
         \/ pipe'[i].writer /\ reply'[i] = "none"
         \/ reply'[i] = "unknown service",
         req'[i].phase = "none", call'[i].rows = << >>, call'[i].cursor = "none",
         InSession(i)' => (call'[Inner[i]].cancelled => disturbed' # {})
  PROVE  RequestOf(i)' /\ Flow(i)' /\ Ends(i)'
<1>1. RequestOf(i)'
  BY DEF RequestOf, Waiting, UploadPhases, RowPhases
<1>2. Len(log') \in Nat
  BY SeqFacts DEF Shape, StoreShape
<1>3. FlowFrom(i, Len(log))'
  <2>1. Since(i, Len(log))'
    BY <1>2 DEF Shape, FloorShape, Since
  <2>2. DOMAIN call'[i].rows = {} /\ DOMAIN pipe'[i].data = {}
    BY ONLY call'[i].rows = << >>, pipe'[i].data = << >>
  <2>3. RowsOk(i, Len(log))' /\ TokensOk(i, Len(log))'
    BY <2>2 DEF RowsOk, TokensOk
  <2>4. QED
    BY <2>1, <2>3 DEF FlowFrom, RowPhases
<1>4. Flow(i)'
  <2>1. IsSeq(pipe'[i].data)
    BY ONLY pipe'[i].data = << >>, NothingSeq
  <2>2. Len(log') \in 0..Len(log')
    BY ONLY <1>2
  <2>3. QED
    BY <1>3, <2>1, <2>2 DEF Flow
<1>5. Ends(i)'
  BY DEF Ends, RowPhases
<1>6. QED
  BY <1>1, <1>4, <1>5

(* What sending a message does to the bus.                                    *)
LEMMA SendCallMoves ==
  ASSUME Shape, NEW i \in Calls, reply[i] = "none", req[i].phase = "none", req' = req,
         NEW site \in Sites, NEW m, IsSent(m), m.method \in Uploads \cup Downloads,
         site = (IF m.path = "service" THEN "service" ELSE "portal"),
         SendCall(i, site, m)
  PROVE  /\ mail' \in [Sites -> Seq(Calls)]
         /\ Fcn(sent', Calls) /\ Fcn(reply', Calls) /\ Fcn(pipe', Calls)
         /\ \A d \in Calls \ {i} :
              sent'[d] = sent[d] /\ reply'[d] = reply[d] /\ pipe'[d] = pipe[d]
         /\ sent'[i] = m /\ IsPipe(pipe'[i]) /\ pipe'[i].data = << >>
         /\ m.method \in Downloads =>
              /\ pipe'[i].reader
              /\ (pipe'[i].writer /\ reply'[i] = "none") \/ reply'[i] = "unknown service"
         /\ Posted(i)
<1>1. /\ mail \in [Sites -> Seq(Calls)] /\ Fcn(reply, Calls) /\ Fcn(pipe, Calls)
      /\ Fcn(sent, Calls)
  BY DEF Shape, MailShape, PipeShape, SentShape
<1>2. PICK p : p = [data   |-> << >>,
                    writer |-> m.method \in Uploads
                               \/ (site \in up /\ m.method \in Downloads),
                    reader |-> m.method \in Downloads
                               \/ (site \in up /\ m.method \in Uploads)]
  OBVIOUS
<1>3. /\ sent' = [sent EXCEPT ![i] = m] /\ pipe' = [pipe EXCEPT ![i] = p]
      /\ mail' = IF site \in up THEN [mail EXCEPT ![site] = Append(mail[site], i)] ELSE mail
      /\ reply' = [reply EXCEPT ![i] = IF site \in up THEN reply[i] ELSE "unknown service"]
  BY <1>2 DEF SendCall
<1>4. /\ IsPipe(p) /\ p.data = << >>
      /\ m.method \in Downloads => p.reader /\ (site \in up => p.writer)
  BY ONLY <1>2 DEF IsPipe
<1>5. /\ sent'[i] = m /\ pipe'[i] = p
      /\ Fcn(sent', Calls) /\ Fcn(reply', Calls) /\ Fcn(pipe', Calls)
      /\ \A d \in Calls \ {i} :
           sent'[d] = sent[d] /\ reply'[d] = reply[d] /\ pipe'[d] = pipe[d]
      /\ reply'[i] = (IF site \in up THEN reply[i] ELSE "unknown service")
  BY ONLY <1>1, <1>3, i \in Calls DEF Fcn
<1>6. mail' \in [Sites -> Seq(Calls)]
  <2>1. Append(mail[site], i) \in Seq(Calls)
    BY <1>1
  <2>2. QED
    BY ONLY <1>1, <1>3, <2>1
<1>7. Posted(i)
  <2>1. Sent(i)' /\ SiteOf(i)' = site
    BY ONLY <1>5, m.method \in Uploads \cup Downloads,
            site = (IF m.path = "service" THEN "service" ELSE "portal")
       DEF Sent, SiteOf, Uploads, Downloads
  <2>2. CASE site \in up
    <3>1. mail' = [mail EXCEPT ![site] = Append(mail[site], i)] /\ reply'[i] = "none"
          /\ req'[i].phase = "none"
      BY <1>3, <1>5, <2>2
    <3>2. QED
      BY ONLY <2>1, <3>1, site \in Sites DEF Posted
  <2>3. CASE site \notin up
    BY ONLY <1>3, <2>3 DEF Posted
  <2>4. QED
    BY <2>2, <2>3
<1>8. m.method \in Downloads =>
        /\ pipe'[i].reader
        /\ (pipe'[i].writer /\ reply'[i] = "none") \/ reply'[i] = "unknown service"
  BY ONLY <1>4, <1>5, reply[i] = "none"
<1>9. IsPipe(pipe'[i]) /\ pipe'[i].data = << >>
  BY ONLY <1>4, <1>5 DEF IsPipe
<1>10. QED
  BY ONLY <1>5, <1>6, <1>7, <1>8, <1>9, Zenon

(* What else MakeCall leaves alone.                                           *)
MakeFrame(c) ==
  /\ UNCHANGED <<ask, endpointVars, storeVars, requestVars, portalVars, link, faults, rebinds,
                 disturbed>>
  /\ floor' = [floor EXCEPT ![c] = Acknowledged]

LEMMA StepCallMethod ==
  ASSUME IInv, NEW c \in Calls, c \in Asked, call[c].phase = "idle", MakeFrame(c), http' = http,
         link[ask[c].client].state \in {"naming", "ready"},
         NEW method \in Uploads \cup Downloads, method = ask[c].method, NEW text, NEW args,
         method \in Downloads => text = Plain(ask[c].text) /\ args = ask[c].args,
         CallMethod(c, link[ask[c].client].site, link[ask[c].client].path, method, text, args)
  PROVE  IInv'
<1>1. Shape /\ Links /\ LinkShape /\ SaysOf(c)
  BY DEF IInv, CallInv, Shape
<1>2. PICK l : l = link[ask[c].client]
  OBVIOUS
<1>3. Place(l) /\ ask[c].client \in Clients
  BY <1>1, <1>2 DEF Links, LinkOk, Connected, Asked
<1>4. l.site \in Sites /\ l.site = (IF l.path = "service" THEN "service" ELSE "portal")
  BY <1>1, <1>3, OpenedPaths, SitesAssumption DEF Place
<1>5. PICK m : m = [method |-> method, path |-> l.path, text |-> text, args |-> args]
  OBVIOUS
<1>6. IsSent(m) /\ m.method = method /\ m.path = l.path /\ m.text = text /\ m.args = args
  BY ONLY <1>5, method \in Uploads \cup Downloads DEF IsSent
<1>7. SendCall(c, l.site, m)
      /\ call' = [call EXCEPT ![c].phase = "running",
                              ![c].write = IF method \in Uploads THEN "busy" ELSE "none"]
  BY ONLY <1>2, <1>5, CallMethod(c, link[ask[c].client].site, link[ask[c].client].path, method, text, args)
     DEF CallMethod
<1>8. reply[c] = "none" /\ req[c].phase = "none" /\ req' = req /\ call[c].rows = << >>
      /\ call[c].cursor = "none" /\ ~Sent(c) /\ http[c] = NoExchange
  BY <1>1 DEF SaysOf, MakeFrame, requestVars
<1>9. /\ mail' \in [Sites -> Seq(Calls)]
      /\ Fcn(sent', Calls) /\ Fcn(reply', Calls) /\ Fcn(pipe', Calls)
      /\ \A d \in Calls \ {c} :
           sent'[d] = sent[d] /\ reply'[d] = reply[d] /\ pipe'[d] = pipe[d]
      /\ sent'[c] = m /\ IsPipe(pipe'[c]) /\ pipe'[c].data = << >>
      /\ m.method \in Downloads =>
           /\ pipe'[c].reader
           /\ (pipe'[c].writer /\ reply'[c] = "none") \/ reply'[c] = "unknown service"
      /\ Posted(c)
  <2>1. m.method \in Uploads \cup Downloads
        /\ l.site = (IF m.path = "service" THEN "service" ELSE "portal")
    BY <1>4, <1>6
  <2>2. QED
    BY ONLY <1>1, <1>4, <1>6, <1>7, <1>8, <2>1, SendCallMoves, c \in Calls
<1>10. PICK write : write = (IF method \in Uploads THEN "busy" ELSE "none")
  OBVIOUS
<1>11. /\ Fcn(call', Calls) /\ IsCall(call'[c]) /\ \A d \in Calls \ {c} : call'[d] = call[d]
       /\ call'[c].phase = "running" /\ call'[c].write = write /\ call'[c].rows = call[c].rows
       /\ call'[c].cursor = call[c].cursor /\ call'[c].cancelled = call[c].cancelled
  <2>1. Fcn(call, Calls) /\ IsCall(call[c])
    BY <1>1, Shapes
  <2>2. call' = [call EXCEPT ![c].phase = "running", ![c].write = write]
    BY <1>7, <1>10
  <2>3. QED
    BY ONLY <2>1, <2>2, c \in Calls DEF Fcn, IsCall
<1>12. Makes(c)
  <2>1. Fcn(http, Calls) /\ IsExchange(http[c])
    BY <1>1, Shapes
  <2>2. UNCHANGED <<ask, policy, mru, bindings, queue, running, log, req, objects, sessions,
                    granted, link, disturbed>>
        /\ floor' = [floor EXCEPT ![c] = Acknowledged]
    BY DEF MakeFrame, endpointVars, storeVars, requestVars, portalVars
  <2>3. QED
    BY <1>6, <1>8, <1>9, <1>11, <2>1, <2>2 DEF Makes, Fcn
<1>13. /\ Shape' /\ Links' /\ Spared' /\ Context
       /\ \A d \in Calls \ {c} : Same(d)
       /\ InSession(c)' => (call'[Inner[c]].cancelled => disturbed' # {})
  BY <1>2, <1>6, <1>9, <1>12, MadeKeeps
<1>14. UNCHANGED <<ask, link, granted, sessions, req, http, queue, running>>
  BY DEF MakeFrame, storeVars, requestVars, portalVars
<1>15. (Sent(c)' /\ (Download(c)' <=> method \in Downloads) /\ ~IsHttp(c)') /\ sent'[c].method = method
  BY <1>6, <1>9, <1>14 DEF Sent, Download, IsHttp, Uploads, Downloads
<1>16. SaysOf(c)'
  <2>1. AskedSays(c)'
    <3>1. l.state \notin {"new", "sandbox"} /\ Place(l)' /\ link'[ask'[c].client] = l
      BY <1>2, <1>3, <1>14 DEF Place, Opened
    <3>2. QED
      BY <1>6, <1>9, <1>14, <1>15, <3>1 DEF AskedSays
  <2>2. c \in Asked'
    BY <1>14 DEF Asked
  <2>3. QED
    BY <1>6, <1>8, <1>9, <1>10, <1>11, <1>14, <1>15, <2>1, <2>2 DEF SaysOf
<1>17. CallInv(c)'
  <2>1. CASE method \in Downloads
    <3>1. RequestOf(c)' /\ Flow(c)' /\ Ends(c)'
      BY <1>6, <1>8, <1>9, <1>11, <1>13, <1>15, <2>1, FreshDownload
    <3>2. QED
      BY <1>15, <1>16, <3>1 DEF CallInv
  <2>2. CASE method \notin Downloads
    <3>1. RequestOf(c)'
      BY <1>8, <1>15, <2>2 DEF RequestOf, UploadPhases, RowPhases
    <3>2. QED
      BY <1>15, <1>16, <2>2, <3>1 DEF CallInv
  <2>3. QED
    BY <2>1, <2>2
<1>18. QED
  BY <1>8, <1>9, <1>13, <1>14, <1>17, BegunStep

(* A call that sends no message on the bus: a batch without operations, or    *)
(* one over HTTP, which may end at once.                                      *)
LEMMA StepUnsent ==
  ASSUME IInv, NEW c \in Calls, c \in Asked, call[c].phase = "idle", MakeFrame(c),
         UNCHANGED busVars, link[ask[c].client].state \in {"naming", "ready"},
         NEW phase \in {"done", "running"}, NEW result,
         call' = [call EXCEPT ![c].phase = phase, ![c].result = result],
         \/ http' = http
         \/ /\ IsHttp(c)
            /\ http' = [http EXCEPT ![c] = [NoExchange EXCEPT !.stage = "sent",
                                              !.open = TRUE, !.args = ask[c].args]]
  PROVE  IInv'
<1>1. Shape /\ SaysOf(c)
  BY DEF IInv, CallInv
<1>2. /\ ~Sent(c) /\ sent[c] = NoMessage /\ http[c] = NoExchange
      /\ call[c].rows = << >> /\ call[c].cursor = "none"
      /\ req[c].phase = "none" /\ reply[c] = "none"
      /\ call[c].write = "none"
  BY <1>1 DEF SaysOf, NoMessage, Uploads
<1>3. Fcn(call, Calls) /\ IsCall(call[c]) /\ Fcn(http, Calls) /\ Fcn(pipe, Calls)
      /\ Fcn(sent, Calls) /\ Fcn(reply, Calls) /\ IsPipe(pipe[c]) /\ IsSent(sent[c])
      /\ mail \in [Sites -> Seq(Calls)]
  BY <1>1, Shapes DEF Shape, MailShape
<1>4. /\ Fcn(call', Calls) /\ IsCall(call'[c]) /\ \A d \in Calls \ {c} : call'[d] = call[d]
      /\ call'[c].phase = phase /\ call'[c].write = call[c].write /\ call'[c].rows = call[c].rows
      /\ call'[c].cursor = call[c].cursor /\ call'[c].cancelled = call[c].cancelled
  BY ONLY <1>3, c \in Calls, call' = [call EXCEPT ![c].phase = phase, ![c].result = result]
     DEF Fcn, IsCall
<1>5. PICK h : h = [NoExchange EXCEPT !.stage = "sent", !.open = TRUE, !.args = ask[c].args]
  OBVIOUS
<1>6. /\ h.stage = "sent" /\ h.args = ask[c].args /\ h.status = 0 /\ h.written = 0
      /\ h.chunks = << >> /\ ~h.complete /\ IsExchange(h)
  BY ONLY <1>5 DEF NoExchange, IsExchange
<1>7. /\ NoExchange.stage = "none" /\ NoExchange.status = 0 /\ NoExchange.written = 0
      /\ NoExchange.chunks = << >> /\ ~NoExchange.complete /\ IsExchange(NoExchange)
  BY ONLY SMT DEF NoExchange, IsExchange
<1>8. /\ Fcn(http', Calls) /\ \A d \in Calls \ {c} : http'[d] = http[d]
      /\ http'[c] = NoExchange \/ (IsHttp(c) /\ http'[c] = h)
  <2>1. CASE http' = http
    BY <1>2, <1>3, <2>1
  <2>2. CASE IsHttp(c) /\ http' = [http EXCEPT ![c] = h]
    BY ONLY <1>3, <2>2, c \in Calls DEF Fcn
  <2>3. QED
    BY <1>5, <2>1, <2>2
<1>9. IsExchange(http'[c])
  BY ONLY <1>6, <1>7, <1>8
<1>10. UNCHANGED <<mail, reply, pipe, sent, ask, link, granted, sessions, req, queue, running>>
       /\ log' = log
  BY DEF MakeFrame, storeVars, requestVars, portalVars, busVars
<1>11. Makes(c)
  <2>1. UNCHANGED <<ask, policy, mru, bindings, queue, running, log, req, objects, sessions,
                    granted, link, disturbed>>
        /\ floor' = [floor EXCEPT ![c] = Acknowledged]
    BY DEF MakeFrame, endpointVars, storeVars, requestVars, portalVars
  <2>2. QED
    BY <1>2, <1>3, <1>4, <1>8, <1>9, <1>10, <2>1 DEF Makes, Fcn
<1>12. /\ Shape' /\ Links' /\ Spared' /\ Context
       /\ \A d \in Calls \ {c} : Same(d)
  BY <1>10, <1>11, MadeKeeps
<1>13. SaysOf(c)'
  BY <1>2, <1>4, <1>8, <1>10 DEF SaysOf, Sent, NoMessage, IsHttp
<1>14. RequestOf(c)'
  BY <1>2, <1>10 DEF RequestOf, UploadPhases, RowPhases, Download, Downloads, NoMessage
<1>15. IsHttp(c)' => Web(c)'
  <2>1. /\ http'[c].stage \in {"none", "sent"} /\ (http'[c].stage = "sent" => http'[c].args = ask'[c].args)
        /\ http'[c].status = 0 /\ http'[c].written = 0
        /\ http'[c].chunks = << >> /\ ~http'[c].complete
    BY ONLY <1>6, <1>7, <1>8, <1>10
  <2>2. WebStages(c)'
    <3>1. 0 <= WebCount(c)'
      BY SitesAssumption DEF WebCount
    <3>2. http'[c].written <= WebCount(c)'
      BY ONLY <2>1, <3>1
    <3>3. QED
      BY ONLY <2>1, <3>2 DEF WebStages
  <2>3. WebEnds(c)'
    BY ONLY <1>2, <1>4, <2>1 DEF WebEnds
  <2>4. call'[c].rows = << >>
    BY <1>2, <1>4
  <2>5. IsSeq(http'[c].chunks)
    BY ONLY <2>1, NothingSeq
  <2>6. Len(log') \in 0..Len(log') /\ floor'[c] <= Len(log')
    BY <1>12, SeqFacts DEF Shape, StoreShape, FloorShape
  <2>7. DOMAIN call'[c].rows = {} /\ DOMAIN http'[c].chunks = {}
        /\ Len(call'[c].rows) = 0 /\ Len(http'[c].chunks) = 0
    BY ONLY <2>1, <2>4
  <2>8. WebFrom(c, Len(log))'
    BY ONLY <2>1, <2>6, <2>7 DEF WebFrom
  <2>9. WebRows(c)'
    BY ONLY <2>1, <2>5, <2>6, <2>7, <2>8 DEF WebRows
  <2>10. QED
    BY <2>2, <2>3, <2>9 DEF Web
<1>16. CallInv(c)'
  <2>1. ~Download(c)'
    BY <1>2, <1>10 DEF Download, Downloads, NoMessage
  <2>2. QED
    BY <1>13, <1>14, <1>15, <2>1 DEF CallInv
<1>17. QED
  BY <1>2, <1>10, <1>12, <1>16, BegunStep DEF Posted

LEMMA StepMakeCall ==
  ASSUME IInv, NEW c \in Calls, MakeCall(c)
  PROVE  IInv'
<1>1. c \in Asked /\ link[ask[c].client].state \in {"naming", "ready"} /\ MakeFrame(c)
  BY DEF MakeCall, MakeFrame
<1>2. CASE SendMessage(c, ask[c])
  <2>1. IsHttp(c) /\ call[c].phase = "idle" /\ UNCHANGED busVars
    BY <1>2 DEF SendMessage
  <2>2. IsCall(call[c]) /\ Fcn(call, Calls)
    BY Shapes DEF IInv
  <2>3. CASE \E result : http' = http /\ call' = [call EXCEPT ![c].phase = "done", ![c].result = result]
    BY <1>1, <2>1, <2>3, StepUnsent
  <2>4. CASE call' = [call EXCEPT ![c].phase = "running"]
             /\ http' = [http EXCEPT ![c] = [NoExchange EXCEPT !.stage = "sent",
                                              !.open = TRUE, !.args = ask[c].args]]
    <3>1. PICK result : result = call[c].result
      OBVIOUS
    <3>2. call' = [call EXCEPT ![c].phase = "running", ![c].result = result]
      BY ONLY <2>2, <2>4, <3>1, c \in Calls DEF Fcn, IsCall
    <3>3. QED
      BY <1>1, <2>1, <2>4, <3>2, StepUnsent
  <2>5. QED
    BY ONLY <1>2, <2>3, <2>4 DEF SendMessage
<1>3. CASE StartCall(c, link[ask[c].client].site, link[ask[c].client].path, ask[c]) /\ http' = http
  <2>1. call[c].phase = "idle"
    BY <1>3 DEF StartCall
  <2>2. CASE UNCHANGED busVars /\ call' = [call EXCEPT ![c].phase = "done", ![c].result = "ok"]
    BY <1>1, <1>3, <2>1, <2>2, StepUnsent
  <2>3. ASSUME NEW method \in Uploads \cup Downloads, method = ask[c].method, NEW text, NEW args,
               method \in Downloads => text = Plain(ask[c].text) /\ args = ask[c].args,
               CallMethod(c, link[ask[c].client].site, link[ask[c].client].path, method, text, args)
        PROVE  IInv'
    BY <1>1, <1>3, <2>1, <2>3, StepCallMethod
  <2>4. \/ UNCHANGED busVars /\ call' = [call EXCEPT ![c].phase = "done", ![c].result = "ok"]
        \/ \E method \in Uploads \cup Downloads : \E text, args :
             /\ method = ask[c].method
             /\ method \in Downloads => text = Plain(ask[c].text) /\ args = ask[c].args
             /\ CallMethod(c, link[ask[c].client].site, link[ask[c].client].path, method, text, args)
    <3>1. CASE CallQuery(c, link[ask[c].client].site, link[ask[c].client].path, ask[c])
      BY ONLY <3>1 DEF CallQuery, Uploads, Downloads
    <3>2. CASE CallSerialize(c, link[ask[c].client].site, link[ask[c].client].path, ask[c])
      BY ONLY <3>2 DEF CallSerialize, Uploads, Downloads
    <3>3. CASE CallUpdate(c, link[ask[c].client].site, link[ask[c].client].path, ask[c])
      BY ONLY <3>3 DEF CallUpdate, Uploads, Downloads
    <3>4. CASE CallUpdateBlank(c, link[ask[c].client].site, link[ask[c].client].path, ask[c])
      BY ONLY <3>4 DEF CallUpdateBlank, Uploads, Downloads
    <3>5. CASE CallUpdateArray(c, link[ask[c].client].site, link[ask[c].client].path, ask[c])
      BY ONLY <3>5 DEF CallUpdateArray, Uploads, Downloads
    <3>6. CASE CallDeserialize(c, link[ask[c].client].site, link[ask[c].client].path, ask[c])
      BY ONLY <3>6 DEF CallDeserialize, Uploads, Downloads
    <3>7. QED
      BY ONLY <1>3, <3>1, <3>2, <3>3, <3>4, <3>5, <3>6 DEF StartCall
  <2>5. QED
    BY <2>2, <2>3, <2>4
<1>4. QED
  BY <1>2, <1>3 DEF MakeCall

(* The portal makes the inner call of a call of a session.                    *)
LEMMA StepSessionForwards ==
  ASSUME IInv, NEW c \in Calls, SessionForwards(c), UNCHANGED <<http, remoteVars>>
  PROVE  IInv'
<1>1. /\ Shape /\ Links /\ Mails /\ LinkShape /\ Spared /\ RequestOf(c)
      /\ \A d \in Calls : SaysOf(d)
  BY DEF IInv, CallInv, Shape
<1>2. PICK i : i = Inner[c]
  OBVIOUS
<1>3. /\ InSession(c) /\ req[c].phase = "executing" /\ call[i].phase = "idle"
      /\ UNCHANGED <<queue, running, log, policy, mru, bindings, req, objects, sessions, granted,
                     http, link, floor, disturbed>>
      /\ Opened' = Opened
  BY <1>2 DEF SessionForwards, At, storeVars, endpointVars, requestVars, portalVars, remoteVars,
     Opened
<1>4. "none" \notin Opened /\ "service" \notin Opened
  BY <1>1, OpenedPaths
<1>5. Sent(c) /\ Portaled(c) /\ i \in Calls \ Asked /\ Download(c)
  BY <1>1, <1>2, <1>3, <1>4, InnerOf DEF RequestOf, RowPhases
<1>6. /\ ~Sent(i) /\ http[i] = NoExchange /\ reply[i] = "none" /\ req[i].phase = "none"
      /\ call[i].rows = << >> /\ call[i].cursor = "none" /\ call[i].write = "none"
  BY <1>1, <1>3, <1>5 DEF SaysOf, NoMessage, Uploads
<1>7. PICK method : method = sent[c].method
  OBVIOUS
<1>8. PICK m : m = [method |-> method, path |-> "service", text |-> req[c].text,
                    args |-> req[c].args]
  OBVIOUS
<1>9. /\ IsSent(m) /\ m.method = method /\ m.path = "service" /\ method \in Downloads
      /\ m.text = Rewritten(sent[c].path, sent[c].text) /\ m.args = sent[c].args
  <2>1. method \in Downloads /\ req[c].args = sent[c].args
        /\ req[c].text = Rewritten(sent[c].path, sent[c].text)
    BY <1>1, <1>3, <1>5, <1>7 DEF RequestOf, Download
  <2>2. QED
    BY ONLY <1>8, <2>1 DEF IsSent
<1>10. PICK a : a = [NoAsk EXCEPT !.client = "portal", !.method = method]
  OBVIOUS
<1>11. a.client = "portal" /\ a.method = method
  BY ONLY <1>10 DEF NoAsk
<1>12. /\ ask' = [ask EXCEPT ![i] = a] /\ SendCall(i, "service", m)
       /\ call' = [call EXCEPT ![i].phase = "running", ![i].cancelled = req[c].cancelled]
  BY ONLY <1>2, <1>7, <1>8, <1>10, SessionForwards(c) DEF SessionForwards
<1>13. /\ mail' \in [Sites -> Seq(Calls)]
       /\ Fcn(sent', Calls) /\ Fcn(reply', Calls) /\ Fcn(pipe', Calls)
       /\ \A d \in Calls \ {i} :
            sent'[d] = sent[d] /\ reply'[d] = reply[d] /\ pipe'[d] = pipe[d]
       /\ sent'[i] = m /\ IsPipe(pipe'[i]) /\ pipe'[i].data = << >>
       /\ m.method \in Downloads =>
            /\ pipe'[i].reader
            /\ (pipe'[i].writer /\ reply'[i] = "none") \/ reply'[i] = "unknown service"
       /\ Posted(i)
  <2>1. m.method \in Uploads \cup Downloads /\ "service" \in Sites
        /\ "service" = (IF m.path = "service" THEN "service" ELSE "portal")
    BY <1>9, SitesAssumption
  <2>2. i \in Calls /\ req' = req
    BY <1>3, <1>5
  <2>3. QED
    BY ONLY <1>1, <1>6, <1>9, <1>12, <2>1, <2>2, SendCallMoves
<1>14. /\ Fcn(call', Calls) /\ IsCall(call'[i]) /\ \A d \in Calls \ {i} : call'[d] = call[d]
       /\ call'[i].phase = "running" /\ call'[i].write = call[i].write
       /\ call'[i].rows = call[i].rows /\ call'[i].cursor = call[i].cursor
       /\ call'[i].cancelled = req[c].cancelled
  <2>1. Fcn(call, Calls) /\ IsCall(call[i]) /\ i \in Calls /\ req[c].cancelled \in BOOLEAN
    BY <1>1, <1>5, Shapes DEF IsRequest
  <2>2. QED
    BY ONLY <1>12, <2>1 DEF Fcn, IsCall
<1>15. /\ Fcn(ask', Calls) /\ ask'[i] = a /\ \A d \in Calls \ {i} : ask'[d] = ask[d]
  <2>1. Fcn(ask, Calls) /\ i \in Calls
    BY <1>1, <1>5, Shapes
  <2>2. QED
    BY ONLY <1>12, <2>1 DEF Fcn
<1>16. Asked' = Asked
  BY <1>5, <1>11, <1>15, JobsAssumption DEF Asked
<1>17. \A d \in Calls : Portaled(d)' <=> Portaled(d)
  BY <1>3, <1>5, <1>15, <1>16 DEF Portaled
<1>18. Shape'
  <2>1. MailShape' /\ PipeShape' /\ SentShape'
    BY <1>1, <1>9, <1>13 DEF Shape, MailShape, PipeShape, SentShape
  <2>2. CallShape'
    BY <1>1, <1>14 DEF Shape, CallShape
  <2>3. ReqShape' /\ HttpShape' /\ StoreShape' /\ FloorShape'
    BY <1>1, <1>3 DEF Shape, ReqShape, HttpShape, StoreShape, FloorShape, Fcn
  <2>4. AskShape'
    BY <1>1, <1>9, <1>11, <1>15, <1>16 DEF Shape, AskShape, IsHttp, Downloads
  <2>5. LinkShape'
    BY <1>1, <1>3 DEF LinkShape, Fcn
  <2>6. QED
    BY <2>1, <2>2, <2>3, <2>4, <2>5 DEF Shape
<1>19. Links'
  BY <1>1, <1>3, <1>16, <1>17 DEF Links, LinkOk, Connected, Place
<1>20. \A d \in Calls : Portaled(d) /\ Inner[d] = i => d = c
  BY <1>1, <1>2, <1>5 DEF Links
<1>21. Spared'
  <2>1. SUFFICES ASSUME NEW d \in Calls, Portaled(d)', ~Sent(d)', call'[Inner[d]].cancelled
                 PROVE  disturbed' # {}
    BY DEF Spared
  <2>2. Portaled(d) /\ d # i /\ d # c
    BY <1>5, <1>13, <1>17, <2>1 DEF Portaled, Sent
  <2>3. ~Sent(d) /\ Inner[d] \in Calls \ {i}
    BY <1>1, <1>13, <1>20, <2>1, <2>2 DEF Sent, Links
  <2>4. QED
    BY <1>1, <1>3, <1>14, <2>1, <2>2, <2>3 DEF Spared
<1>22. ~InSession(i)'
  BY <1>3, <1>4, <1>9, <1>13 DEF InSession
<1>23. Context
  <2>1. IsSeq(log) /\ IsSeq(log') /\ Len(log) <= Len(log')
    BY <1>1, <1>3, SeqFacts DEF Shape, StoreShape
  <2>2. \A e \in Calls : Grow(call[e].rows, call'[e].rows)
    <3>1. SUFFICES ASSUME NEW e \in Calls PROVE Grow(call[e].rows, call'[e].rows)
      OBVIOUS
    <3>2. call'[e].rows = call[e].rows
      BY <1>14
    <3>3. QED
      BY <1>1, <3>2, Shapes
  <2>3. \A o \in Calls : InSession(o)' => InSession(o) /\ floor'[o] = floor[o]
    BY <1>3, <1>13, <1>22 DEF InSession
  <2>4. \A e \in Calls : Sent(e) => sent'[e] = sent[e]
    BY <1>6, <1>13
  <2>5. QED
    BY <1>3, <1>16, <2>1, <2>2, <2>3, <2>4 DEF Context
<1>24. ASSUME NEW d \in Calls, d # i PROVE Same(d)
  <2>1. ASSUME InSession(d), call'[Inner[d]].cancelled
        PROVE  call[Inner[d]].cancelled \/ disturbed' # {} \/ ~pipe[d].reader
    <3>1. Portaled(d) /\ Inner[d] \in Calls
      BY <1>1, <1>4, <2>1, InnerOf
    <3>2. CASE Inner[d] # i
      BY <1>14, <2>1, <3>1, <3>2
    <3>3. CASE Inner[d] = i
      <4>1. d = c /\ Ends(c)
        BY <1>5, <1>20, <3>1, <3>3, DownloadFacts
      <4>2. QED
        BY <1>3, <1>14, <2>1, <3>3, <4>1 DEF Ends
    <3>4. QED
      BY <3>2, <3>3
  <2>2. QED
    BY <1>3, <1>13, <1>14, <1>15, <1>24, <2>1 DEF Same
<1>25. CallInv(i)'
  <2>1. Sent(i)' /\ Download(i)' /\ ~IsHttp(i)' /\ sent'[i].method = method
    BY <1>9, <1>11, <1>13, <1>15 DEF Sent, Download, IsHttp, Downloads
  <2>2. Relays(c, i)'
    <3>1. InSession(c)' /\ sent'[c] = sent[c] /\ Download(c)'
      BY <1>3, <1>5, <1>6, <1>13 DEF InSession, Download
    <3>2. Rewritten(sent[c].path, sent[c].text)' = Rewritten(sent[c].path, sent[c].text)
      BY <1>3, <3>1 DEF Rewritten
    <3>3. sent'[i] = [method |-> sent'[c].method, path |-> "service",
                      text |-> Rewritten(sent[c].path, sent[c].text)', args |-> sent'[c].args]
      BY <1>7, <1>8, <1>9, <1>13, <3>1, <3>2
    <3>4. QED
      BY <1>2, <3>1, <3>3 DEF Relays
  <2>3. SaysOf(i)'
    BY <1>3, <1>5, <1>6, <1>9, <1>11, <1>14, <1>15, <1>16, <2>1, <2>2 DEF SaysOf
  <2>4. RequestOf(i)' /\ Flow(i)' /\ Ends(i)'
    <3>1. i \in Calls /\ req'[i].phase = "none" /\ call'[i].rows = << >> /\ call'[i].cursor = "none"
      BY <1>3, <1>5, <1>6, <1>14
    <3>2. QED
      BY <1>9, <1>13, <1>18, <1>22, <2>1, <3>1, FreshDownload
  <2>5. QED
    BY <2>1, <2>3, <2>4 DEF CallInv
<1>26. QED
  BY <1>3, <1>5, <1>6, <1>13, <1>18, <1>19, <1>21, <1>23, <1>24, <1>25, BegunStep

(* ---- Faults that break calls off                                           *)

(* What is left of a call when a process of it dies.                          *)
BrokenOff(d) ==
  /\ \/ reply'[d] = reply[d]
     \/ Sent(d) /\ reply'[d] # "none" /\ reply[d] = "none" /\ mail'[SiteOf(d)] = <<>>
  /\ pipe'[d].data = pipe[d].data
  /\ pipe'[d].writer => pipe[d].writer
  /\ pipe'[d].reader => pipe[d].reader
  /\ call'[d].rows = call[d].rows /\ call'[d].cursor \in {call[d].cursor, "none"}
  /\ call'[d].phase \in {call[d].phase, "gone"} /\ call'[d].write \in {call[d].write, "none"}
  /\ req'[d] \in {req[d], NoRequest}
  /\ Download(d) =>
       /\ pipe'[d].writer = pipe[d].writer \/ (reply'[d] # "none" /\ req'[d] = NoRequest)
       /\ reply'[d] = reply[d] \/ req'[d] = NoRequest
       /\ req'[d] = req[d] \/ reply'[d] # "none"
       /\ call'[d].phase # "gone" => pipe'[d].reader = pipe[d].reader
       /\ call'[d].cursor # "none" => pipe'[d].reader = pipe[d].reader
       /\ pipe'[d].reader => call'[d].cursor = call[d].cursor
  /\ \/ http'[d] = http[d]
     \/ /\ http[d].stage # "none"
        /\ http'[d] = [http[d] EXCEPT !.stage = "freed", !.lost = TRUE]

(* What a fault leaves alone.                                                 *)
Breaks ==
  /\ UNCHANGED <<sent, ask, log, floor, mru, bindings>> /\ disturbed' # {}
  /\ \/ queue' = queue /\ running' = running
     \/ queue' = <<>> /\ running' = NoTask
  /\ mail' \in [Sites -> Seq(Calls)]
  /\ \A s \in Sites : mail'[s] \in {mail[s], <<>>}
  /\ Fcn(reply', Calls) /\ Fcn(pipe', Calls) /\ Fcn(call', Calls)
  /\ Fcn(req', Calls) /\ Fcn(http', Calls)
  /\ \A d \in Calls : IsPipe(pipe'[d]) /\ IsCall(call'[d]) /\ BrokenOff(d)

LEMMA BrokenShapes ==
  ASSUME Shape, Breaks, NEW d \in Calls
  PROVE  IsRequest(req'[d]) /\ IsExchange(http'[d])
<1>1. IsRequest(req[d]) /\ IsExchange(http[d])
  BY Shapes
<1>2. IsRequest(req'[d])
  <2>1. IsRequest(NoRequest)
    BY Zenon DEF IsRequest, NoRequest
  <2>2. req'[d] \in {req[d], NoRequest}
    BY Zenon DEF Breaks, BrokenOff
  <2>3. QED
    BY ONLY <1>1, <2>1, <2>2
<1>3. IsExchange(http'[d])
  <2>1. IsExchange([http[d] EXCEPT !.stage = "freed", !.lost = TRUE])
    BY ONLY <1>1, Zenon DEF IsExchange
  <2>2. http'[d] = http[d] \/ http'[d] = [http[d] EXCEPT !.stage = "freed", !.lost = TRUE]
    BY Zenon DEF Breaks, BrokenOff
  <2>3. QED
    BY ONLY <1>1, <2>1, <2>2
<1>4. QED
  BY <1>2, <1>3

LEMMA BrokenShape ==
  ASSUME Shape, Breaks, LinksGo
  PROVE  Shape' /\ Context
<1>1. MailShape' /\ PipeShape' /\ SentShape' /\ CallShape'
  <2>1. MailShape' /\ PipeShape'
    BY DEF Breaks, MailShape, PipeShape
  <2>2. SentShape'
    BY Zenon DEF Shape, SentShape, Breaks, Fcn
  <2>3. CallShape'
    BY Zenon DEF Shape, CallShape, Breaks, BrokenOff
  <2>4. QED
    BY <2>1, <2>2, <2>3
<1>2. ReqShape' /\ HttpShape'
  BY BrokenShapes DEF Breaks, ReqShape, HttpShape
<1>3. AskShape'
  BY DEF Shape, AskShape, Breaks, Fcn, IsHttp, Asked
<1>4. StoreShape'
  <2>1. IsTask(NoTask) /\ IsSeq(<<>>)
    BY NothingSeq DEF IsTask, NoTask, Expects
  <2>2. IsSeq(queue') /\ IsSeq(log') /\ IsTask(running')
    BY <2>1 DEF Shape, StoreShape, Breaks
  <2>3. QED
    BY <2>2 DEF Shape, StoreShape, Breaks, LinksGo, Fcn
<1>5. FloorShape'
  BY DEF Shape, FloorShape, Breaks
<1>6. Shape'
  BY <1>1, <1>2, <1>3, <1>4, <1>5, Zenon DEF Shape, LinksGo
<1>7. \A e \in Calls : Grow(call[e].rows, call'[e].rows)
  BY Shapes, Zenon DEF Breaks, BrokenOff
<1>8. IsSeq(log) /\ IsSeq(log') /\ Len(log) <= Len(log')
  BY SeqFacts DEF Shape, StoreShape, Breaks
<1>9. QED
  BY <1>6, <1>7, <1>8 DEF LinksGo, Context, Asked, Breaks

LEMMA BrokenSays ==
  ASSUME Shape, Links, Shape', Context, Breaks, NEW d \in Calls, CallInv(d)
  PROVE  SaysOf(d)'
<1>1. SaysOf(d) /\ LinkShape /\ LinkShape'
  BY DEF CallInv, Shape
<1>2. BrokenOff(d) /\ sent' = sent /\ ask' = ask
  BY DEF Breaks
<1>3. /\ (Sent(d)' <=> Sent(d)) /\ (Download(d)' <=> Download(d)) /\ (InSession(d)' <=> InSession(d))
      /\ (IsHttp(d)' <=> IsHttp(d)) /\ (d \in Asked' <=> d \in Asked)
  BY <1>1, <1>2, StillSame DEF IsHttp, Context
<1>4. ASSUME Sent(d), d \in Asked PROVE AskedSays(d)'
  <2>1. AskedSays(d) /\ ask[d].client \in Clients
    BY <1>1, <1>4 DEF SaysOf, Asked
  <2>2. QED
    BY <2>1, <1>2, <1>3 DEF AskedSays, Place, Context
<1>5. ASSUME Sent(d), d \notin Asked PROVE \E o \in Calls : Relays(o, d)'
  <2>1. PICK o \in Calls : Relays(o, d)
    BY <1>1, <1>5 DEF SaysOf
  <2>2. InSession(o)'
    BY <1>2, <2>1 DEF Context, Relays, InSession
  <2>3. Rewritten(sent[o].path, sent[o].text)' = Rewritten(sent[o].path, sent[o].text)
    BY <1>2, <2>1, <2>2 DEF Rewritten, Context, Relays, InSession
  <2>4. Relays(o, d)'
    BY <1>2, <2>1, <2>2, <2>3 DEF Relays, Download
  <2>5. QED
    BY <2>4
<1>6. ~Sent(d) => (sent[d] = NoMessage /\ req[d].phase = "none" /\ reply[d] = "none")'
  BY <1>1, <1>2 DEF SaysOf, BrokenOff, NoRequest
<1>7. /\ (call[d].phase = "idle")' => ~Sent(d)
      /\ (call[d].phase = "idle")' \/ ~IsHttp(d) => (http[d] = NoExchange)'
  <2>1. call'[d].phase = "idle" => call[d].phase = "idle"
    BY <1>2 DEF BrokenOff
  <2>2. http[d] = NoExchange => http'[d] = http[d]
    BY ONLY <1>2 DEF BrokenOff, NoExchange
  <2>3. QED
    BY <1>1, <2>1, <2>2 DEF SaysOf
<1>8. /\ (call[d].phase \in {"idle", "running"})' =>
           (call[d].rows = <<>> /\ call[d].cursor = "none")'
      /\ ~Download(d) /\ (~IsHttp(d) \/ d \notin Asked) =>
           (call[d].rows = <<>> /\ call[d].cursor = "none")'
      /\ (call[d].write # "none" => sent[d].method \in Uploads)'
  BY <1>1, <1>2 DEF SaysOf, BrokenOff
<1>9. Sent(d) => ask'[d].method = sent'[d].method
  BY <1>1, <1>2 DEF SaysOf
<1>10. QED
  BY <1>3, <1>4, <1>5, <1>6, <1>7, <1>8, <1>9 DEF SaysOf

LEMMA BrokenRequest ==
  ASSUME Shape, Links, Shape', Context, Breaks, NEW d \in Calls, CallInv(d)
  PROVE  RequestOf(d)'
<1>1. SaysOf(d) /\ RequestOf(d) /\ LinkShape /\ LinkShape'
  BY DEF CallInv, Shape
<1>2. BrokenOff(d) /\ sent' = sent
  BY DEF Breaks
<1>3. (Download(d)' <=> Download(d)) /\ sent[d].path \in Opened \cup {"service", "none"}
      /\ (Sent(d) => sent[d].path \in Opened \cup {"service"})
  BY <1>1, <1>2, StillSame DEF InSession
<1>4. Sent(d) => Rewritten(sent[d].path, sent[d].text)' = Rewritten(sent[d].path, sent[d].text)
  BY <1>2, <1>3 DEF Context, Rewritten
<1>5. Download(d) => Sent(d)
  BY DEF Download, Downloads, Sent
<1>6. (Download(d) /\ reply[d] = "none" /\ req[d].phase \in {"none", "executing"} => Waiting(d))'
  <2>1. SUFFICES ASSUME Download(d), reply'[d] = "none", req'[d].phase \in {"none", "executing"}
                 PROVE  Waiting(d)'
    BY <1>3
  <2>2. reply[d] = "none" /\ pipe'[d].writer = pipe[d].writer
    BY <1>2, <2>1 DEF BrokenOff
  <2>3. Waiting(d)
    BY <1>1, <1>2, <2>1, <2>2 DEF RequestOf, BrokenOff
  <2>4. QED
    BY <1>2, <2>2, <2>3 DEF Waiting, BrokenOff
<1>7. CASE req'[d] = NoRequest
  BY <1>6, <1>7 DEF RequestOf, NoRequest, UploadPhases, RowPhases
<1>8. CASE req'[d] = req[d] /\ req[d] # NoRequest
  <2>1. Download(d) => reply'[d] = reply[d] /\ pipe'[d].writer = pipe[d].writer
    BY <1>2, <1>8 DEF BrokenOff
  <2>2. QED
    BY <1>1, <1>2, <1>3, <1>4, <1>5, <1>6, <1>8, <2>1 DEF RequestOf
<1>9. QED
  BY <1>2, <1>7, <1>8 DEF BrokenOff

LEMMA BrokenFlow ==
  ASSUME Shape, Links, Shape', Context, Breaks, NEW d \in Calls, CallInv(d), Download(d)
  PROVE  Flow(d)'
<1>1. SaysOf(d) /\ RequestOf(d) /\ Flow(d) /\ LinkShape /\ LinkShape'
  BY DEF CallInv, Shape
<1>2. BrokenOff(d) /\ sent' = sent /\ log' = log /\ floor' = floor /\ disturbed' # {}
  BY DEF Breaks
<1>3. /\ Sent(d) /\ Download(d)' /\ (InSession(d)' <=> InSession(d))
      /\ InSession(d) => Inner[d] \in Calls
      /\ ~InSession(d) => sent[d].path = "service"
      /\ InSession(d) => sent[d].path \in Opened
  BY <1>1, <1>2, StillSame DEF Download, Downloads, Sent, InSession
<1>4. PICK s \in 0..Len(log) : FlowFrom(d, s)
  BY <1>1, Zenon DEF Flow
<1>5. \A e \in Calls : call'[e].rows = call[e].rows
  BY Zenon DEF Breaks, BrokenOff
<1>6. Want(d)' = Want(d)
  BY <1>2, <1>3 DEF Want, Rewritten, Context
<1>7. \A k : (There(d, k)' <=> There(d, k)) /\ Row(d, s, k)' = Row(d, s, k)
  BY <1>2, <1>3, <1>5, <1>6 DEF There, Row
<1>8. ~InSession(d) => Since(d, s)'
  <2>1. SUFFICES ASSUME ~InSession(d) PROVE Since(d, s)'
    OBVIOUS
  <2>2. Since(d, s)
    BY <1>4, <2>1 DEF FlowFrom
  <2>3. \A o \in Calls : InSession(o)' /\ Inner[o] = d => InSession(o)
    BY <1>3 DEF Context
  <2>4. QED
    BY <1>2, <2>2, <2>3 DEF Since
<1>9. RowsOk(d, s)'
  <2>1. ASSUME NEW k \in DOMAIN call[d].rows, Cut(d, k) PROVE Cut(d, k)'
    BY <1>2, <2>1 DEF Cut, BrokenOff
  <2>2. QED
    BY <1>4, <1>5, <1>7, <2>1 DEF FlowFrom, RowsOk
<1>10. pipe'[d].reader =>
         /\ pipe[d].reader /\ Taken(d)' = Taken(d) /\ Arrived(d)' = Arrived(d)
         /\ pipe'[d].data = pipe[d].data
  BY <1>2, <1>5 DEF BrokenOff, Arrived, Taken, Tokens
<1>11. pipe'[d].reader => TokensOk(d, s)'
  BY <1>2, <1>4, <1>7, <1>10 DEF FlowFrom, TokensOk, Tokens
<1>12. req'[d].phase \in RowPhases => ServingOk(d, s)'
  <2>1. SUFFICES ASSUME req'[d].phase \in RowPhases PROVE ServingOk(d, s)'
    OBVIOUS
  <2>2. req'[d] = req[d]
    BY <1>2, <2>1 DEF BrokenOff, NoRequest, RowPhases
  <2>3. ServingOk(d, s)
    BY <1>4, <2>1, <2>2 DEF FlowFrom
  <2>4. pipe'[d].reader => Arrived(d)' = Produced(d)'
    BY <1>2, <1>10, <2>2, <2>3 DEF ServingOk, Produced, Tokens
  <2>5. InSession(d) => call'[Inner[d]].rows = call[Inner[d]].rows
    BY <1>3, <1>5
  <2>6. QED
    BY <1>3, <1>7, <2>2, <2>3, <2>4, <2>5 DEF ServingOk
<1>13. FlowFrom(d, s)'
  BY <1>3, <1>8, <1>9, <1>11, <1>12 DEF FlowFrom
<1>14. IsSeq(pipe'[d].data)
  BY <1>1, <1>2 DEF Flow, BrokenOff
<1>15. QED
  BY <1>2, <1>13, <1>14 DEF Flow

LEMMA BrokenEnds ==
  ASSUME Shape, Breaks, NEW d \in Calls, CallInv(d), Download(d)
  PROVE  Ends(d)'
<1>1. SaysOf(d) /\ RequestOf(d) /\ Ends(d)
  BY DEF CallInv
<1>2. BrokenOff(d) /\ sent' = sent /\ disturbed' # {}
  BY DEF Breaks
<1>3. call[d].cursor \in {"none", "open", "row", "end", "closed"}
      /\ call'[d].cursor \in {call[d].cursor, "none"}
  BY <1>1, <1>2 DEF Ends, BrokenOff
<1>4. call'[d].phase = "running" => pipe'[d].reader
  BY <1>1, <1>2 DEF Ends, BrokenOff
<1>5. call'[d].cursor \in {"open", "row", "end"} => reply'[d] = "ok" /\ pipe'[d].reader
  BY <1>1, <1>2 DEF Ends, BrokenOff
<1>6. call'[d].cursor = "end" => pipe'[d].data = <<>> /\ ~pipe'[d].writer
  BY <1>1, <1>2 DEF Ends, BrokenOff
<1>7. call'[d].cursor = "row" => sent'[d].method = "query"
  BY <1>1, <1>2, <1>3 DEF Ends
<1>8. QED
  BY <1>2, <1>3, <1>4, <1>5, <1>6, <1>7 DEF Ends

LEMMA BrokenWeb ==
  ASSUME Shape, Context, Breaks, NEW d \in Calls, CallInv(d), IsHttp(d)
  PROVE  Web(d)'
<1>1. Web(d) /\ IsExchange(http[d])
  BY Shapes, Zenon DEF CallInv
<1>2. BrokenOff(d) /\ ask' = ask /\ log' = log /\ floor' = floor
      /\ policy'["web"] = policy["web"] /\ call'[d].rows = call[d].rows
  <2>1. BrokenOff(d) /\ ask' = ask /\ log' = log /\ floor' = floor
    BY Zenon DEF Breaks
  <2>2. policy'["web"] = policy["web"]
    BY Zenon DEF Context
  <2>3. call'[d].rows = call[d].rows
    BY <2>1, Zenon DEF BrokenOff
  <2>4. QED
    BY <2>1, <2>2, <2>3
<1>3. /\ http'[d].text = http[d].text /\ http'[d].args = http[d].args
      /\ http'[d].status = http[d].status /\ http'[d].written = http[d].written
      /\ http'[d].chunks = http[d].chunks /\ http'[d].snap = http[d].snap
      /\ http'[d].complete = http[d].complete /\ http'[d].stage \in {http[d].stage, "freed"}
  <2>1. CASE http'[d] = http[d]
    BY <2>1
  <2>2. CASE http'[d] = [http[d] EXCEPT !.stage = "freed", !.lost = TRUE]
    BY ONLY <1>1, <2>2 DEF IsExchange
  <2>3. QED
    BY <1>2, <2>1, <2>2 DEF BrokenOff
<1>4. \A s, k : WebRow(d, s, k)' = WebRow(d, s, k)
  BY <1>2 DEF WebRow, Rewritten
<1>5. WebCount(d)' = WebCount(d)
      /\ Rewritten("web", Plain(ask[d].text))' = Rewritten("web", Plain(ask[d].text))
  BY <1>2 DEF WebCount, Rewritten
<1>6. WebRows(d)'
  <2>1. PICK s \in 0..Len(log) : WebFrom(d, s)
    BY <1>1 DEF Web, WebRows
  <2>2. WebFrom(d, s)'
    BY <1>2, <1>3, <1>4, <2>1 DEF WebFrom
  <2>3. QED
    BY <1>1, <1>2, <1>3, <2>1, <2>2 DEF Web, WebRows
<1>7. WebStages(d)'
  BY <1>1, <1>2, <1>3, <1>5 DEF Web, WebStages
<1>8. WebEnds(d)'
  BY <1>1, <1>2, <1>3, <1>5 DEF Web, WebEnds, BrokenOff
<1>9. QED
  BY <1>6, <1>7, <1>8 DEF Web

(* A fault keeps the invariant: what was answered so far is right, and what   *)
(* is missing is missing because of it.                                       *)
LEMMA BrokenStep ==
  ASSUME IInv, Breaks, LinksGo
  PROVE  IInv'
<1>1. Shape /\ Links /\ Mails /\ Tasks
  BY DEF IInv
<1>2. Shape' /\ Context /\ Links'
  BY <1>1, BrokenShape DEF LinksGo
<1>3. ASSUME NEW d \in Calls PROVE CallInv(d)'
  <2>1. CallInv(d)
    BY DEF IInv
  <2>2. (Download(d)' <=> Download(d)) /\ (IsHttp(d)' <=> IsHttp(d))
    BY DEF Breaks, Download, IsHttp
  <2>3. SaysOf(d)' /\ RequestOf(d)'
    BY <1>1, <1>2, <2>1, BrokenSays, BrokenRequest
  <2>4. Download(d) => Flow(d)' /\ Ends(d)'
    BY <1>1, <1>2, <2>1, BrokenFlow, BrokenEnds
  <2>5. IsHttp(d) => Web(d)'
    BY <1>1, <1>2, <2>1, BrokenWeb
  <2>6. QED
    BY <2>2, <2>3, <2>4, <2>5 DEF CallInv
<1>4. Mails'
  <2>1. SUFFICES ASSUME NEW s \in Sites, NEW k \in DOMAIN mail'[s], NEW c, c = mail'[s][k]
                 PROVE  /\ Sent(c)' /\ SiteOf(c)' = s /\ req'[c].phase = "none"
                        /\ reply'[c] = "none"
                        /\ \A j \in DOMAIN mail'[s] : mail'[s][j] = c => j = k
    BY DEF Mails, Sent, SiteOf
  <2>2. mail'[s] = mail[s] /\ mail'[s] # <<>>
    BY <2>1 DEF Breaks
  <2>3. c = mail[s][k]
    BY <2>1, <2>2
  <2>4. /\ c \in Calls /\ Sent(c) /\ SiteOf(c) = s /\ req[c].phase = "none" /\ reply[c] = "none"
        /\ \A j \in DOMAIN mail[s] : mail[s][j] = c => j = k
    BY <1>1, <2>1, <2>2, <2>3 DEF Mails, Shape, MailShape
  <2>5. BrokenOff(c) /\ sent' = sent
    BY <2>4 DEF Breaks
  <2>6. reply'[c] = "none" /\ req'[c].phase = "none"
    BY <2>2, <2>4, <2>5 DEF BrokenOff, NoRequest
  <2>7. Sent(c)' /\ SiteOf(c)' = s
    BY <2>4, <2>5 DEF Sent, SiteOf
  <2>8. QED
    BY <2>2, <2>3, <2>4, <2>6, <2>7
<1>5. Tasks'
  BY <1>1 DEF Tasks, Breaks
<1>6. Spared'
  BY DEF Spared, Breaks
<1>7. QED
  BY <1>2, <1>3, <1>4, <1>5, <1>6 DEF IInv

(* What remains on the bus of a process that died.                            *)
LEMMA VanishedLeaves ==
  ASSUME Shape, NEW site \in Sites, NEW pending, NEW writes, NEW reads,
         Vanished(site, pending, writes, reads), NEW d \in Calls
  PROVE  /\ Fcn(reply', Calls) /\ Fcn(pipe', Calls) /\ sent' = sent
         /\ mail' \in [Sites -> Seq(Calls)] /\ mail'[site] = <<>>
         /\ \A s \in Sites : mail'[s] \in {mail[s], <<>>}
         /\ reply'[d] = (IF d \in pending /\ reply[d] = "none" THEN "no reply" ELSE reply[d])
         /\ IsPipe(pipe'[d]) /\ pipe'[d].data = pipe[d].data
         /\ pipe'[d].writer = (pipe[d].writer /\ d \notin writes)
         /\ pipe'[d].reader = (pipe[d].reader /\ d \notin reads)
<1>1. IsPipe(pipe[d])
  BY Shapes
<1>2. pipe'[d] = [pipe[d] EXCEPT !.writer = (pipe[d].writer /\ d \notin writes),
                                 !.reader = (pipe[d].reader /\ d \notin reads)]
  BY DEF Vanished
<1>3. PICK w \in BOOLEAN, r \in BOOLEAN :
        w = (pipe[d].writer /\ d \notin writes) /\ r = (pipe[d].reader /\ d \notin reads)
  OBVIOUS
<1>4. pipe'[d] = [pipe[d] EXCEPT !.writer = w, !.reader = r]
  BY ONLY <1>2, <1>3
<1>5. IsPipe(pipe'[d]) /\ pipe'[d].data = pipe[d].data /\ pipe'[d].writer = w /\ pipe'[d].reader = r
  BY ONLY <1>1, <1>4, w \in BOOLEAN, r \in BOOLEAN DEF IsPipe
<1>6. Fcn(reply', Calls) /\ Fcn(pipe', Calls) /\ sent' = sent
  BY DEF Vanished, Fcn
<1>7. /\ mail' \in [Sites -> Seq(Calls)] /\ mail'[site] = <<>>
      /\ \A s \in Sites : mail'[s] \in {mail[s], <<>>}
  <2>1. mail \in [Sites -> Seq(Calls)] /\ <<>> \in Seq(Calls)
    BY DEF Shape, MailShape
  <2>2. mail' = [mail EXCEPT ![site] = <<>>]
    BY DEF Vanished
  <2>3. QED
    BY ONLY <2>1, <2>2, site \in Sites
<1>8. reply'[d] = (IF d \in pending /\ reply[d] = "none" THEN "no reply" ELSE reply[d])
  BY DEF Vanished
<1>9. QED
  BY <1>3, <1>5, <1>6, <1>7, <1>8

(* The service dies, with what it had not answered.                           *)
LEMMA StepServiceCrashes ==
  ASSUME IInv, ServiceCrashes
  PROVE  IInv'
<1> DEFINE mine == {c \in Calls : ToService(c)}
           writes == {c \in mine : sent[c].method \in Downloads}
           reads == {c \in mine : sent[c].method \in Uploads}
<1>1. /\ Vanished("service", mine, writes, reads) /\ StoreLost /\ Lost(mine) /\ HttpVanished
      /\ disturbed' = disturbed \cup {"crash"} /\ UNCHANGED <<link, floor>>
      /\ UNCHANGED <<policy, mru, bindings, sessions, granted, ask, call>>
  BY DEF ServiceCrashes, Happens, endpointVars, clientVars, portalVars
<1>2. "service" \in Sites /\ Shape
  BY SitesAssumption DEF IInv
<1>3. LinksGo
  <2>1. ObjectsGo
    BY <1>1, <1>2 DEF ObjectsGo, Shape, LinkShape
  <2>2. sent' = sent
    BY <1>1 DEF Vanished
  <2>3. QED
    BY <1>1, <2>1, <2>2, LinksStay
<1>4. /\ log' = log /\ queue' = <<>> /\ running' = NoTask
      /\ Fcn(req', Calls) /\ Fcn(http', Calls)
  BY <1>1 DEF StoreLost, Lost, HttpVanished, Fcn
<1>5. ASSUME NEW d \in Calls
      PROVE  /\ req'[d] = (IF d \in mine THEN NoRequest ELSE req[d])
             /\ http'[d] = (IF http[d].stage \in {"none", "freed"} THEN http[d]
                            ELSE [http[d] EXCEPT !.stage = "freed", !.lost = TRUE])
  BY <1>1 DEF Lost, HttpVanished
<1> HIDE DEF mine, writes, reads
<1>6. ASSUME NEW d \in Calls PROVE IsPipe(pipe'[d]) /\ IsCall(call'[d]) /\ BrokenOff(d)
  <2>1. /\ mail'["service"] = <<>>
        /\ reply'[d] = (IF d \in mine /\ reply[d] = "none" THEN "no reply" ELSE reply[d])
        /\ IsPipe(pipe'[d]) /\ pipe'[d].data = pipe[d].data
        /\ pipe'[d].writer = (pipe[d].writer /\ d \notin writes)
        /\ pipe'[d].reader = (pipe[d].reader /\ d \notin reads)
    BY <1>1, <1>2, VanishedLeaves
  <2>2. IsCall(call'[d]) /\ call'[d] = call[d]
    BY <1>1, <1>2, Shapes
  <2>3. d \in mine => Sent(d) /\ SiteOf(d) = "service"
    <3>1. SaysOf(d)
      BY DEF IInv, CallInv
    <3>2. QED
      BY <3>1 DEF mine, ToService, SaysOf, NoMessage, SiteOf
  <2>4. d \in writes => d \in mine
    BY DEF writes
  <2>5. Download(d) => d \notin reads
    BY DEF reads, Download, Downloads, Uploads
  <2>6. IsPipe(pipe[d])
    BY <1>2, Shapes
  <2>7. http'[d] = http[d] \/ (http[d].stage # "none"
          /\ http'[d] = [http[d] EXCEPT !.stage = "freed", !.lost = TRUE])
    BY <1>5
  <2>8. req'[d] = (IF d \in mine THEN NoRequest ELSE req[d])
    BY <1>5
  <2>9. BrokenOff(d)
    BY ONLY <2>1, <2>2, <2>3, <2>4, <2>5, <2>6, <2>7, <2>8 DEF BrokenOff, IsPipe
  <2>10. QED
    BY <2>1, <2>2, <2>9
<1>7. /\ sent' = sent /\ mail' \in [Sites -> Seq(Calls)]
      /\ Fcn(reply', Calls) /\ Fcn(pipe', Calls)
      /\ \A s \in Sites : mail'[s] \in {mail[s], <<>>}
  <2>1. sent' = sent /\ Fcn(reply', Calls) /\ Fcn(pipe', Calls)
    BY <1>1 DEF Vanished, Fcn
  <2>2. mail' = [mail EXCEPT !["service"] = <<>>] /\ mail \in [Sites -> Seq(Calls)]
    BY <1>1, <1>2 DEF Vanished, Shape, MailShape
  <2>3. <<>> \in Seq(Calls)
    OBVIOUS
  <2>4. QED
    BY <2>1, <2>2, <2>3
<1>8. Fcn(call', Calls)
  BY <1>1, <1>2 DEF Shape, CallShape
<1>9. Breaks
  BY ONLY <1>1, <1>4, <1>6, <1>7, <1>8 DEF Breaks
<1>10. QED
  BY <1>3, <1>9, BrokenStep

(* The portal dies: with it go its sessions and the calls it had made.        *)
LEMMA StepPortalCrashes ==
  ASSUME IInv, PortalCrashes
  PROVE  IInv'
<1> DEFINE mine == {c \in Calls : InSession(c)}
           inner == {Inner[c] : c \in mine}
           writes == {c \in mine : sent[c].method \in Downloads}
           reads == {c \in mine : sent[c].method \in Uploads} \cup inner
<1>1. /\ Vanished("portal", mine, writes, reads) /\ Lost(mine)
      /\ call' = [c \in Calls |-> IF c \in inner
                   THEN [call[c] EXCEPT !.phase = "gone", !.cursor = "none"] ELSE call[c]]
      /\ sessions' = [s \in Opened |-> "none"]
      /\ disturbed' = disturbed \cup {"portal"} /\ UNCHANGED <<link, floor>>
      /\ UNCHANGED <<policy, mru, bindings, granted, ask, queue, running, log, http>>
  BY DEF PortalCrashes, Happens, endpointVars, storeVars
<1>2. "portal" \in Sites /\ Shape
  BY SitesAssumption DEF IInv
<1>3. LinksGo
  <2>1. ObjectsGo
    BY <1>1 DEF ObjectsGo, Fcn
  <2>2. sent' = sent
    BY <1>1 DEF Vanished
  <2>3. QED
    BY <1>1, <2>1, <2>2, LinksStay
<1>4. Fcn(req', Calls) /\ Fcn(http', Calls) /\ Fcn(call', Calls)
  BY <1>1, <1>2 DEF Lost, Fcn, Shape, HttpShape
<1>5. ASSUME NEW d \in Calls
      PROVE  /\ req'[d] = (IF d \in mine THEN NoRequest ELSE req[d])
             /\ call'[d] = (IF d \in inner
                            THEN [call[d] EXCEPT !.phase = "gone", !.cursor = "none"] ELSE call[d])
  BY <1>1 DEF Lost
<1> HIDE DEF mine, inner, writes, reads
<1>6. ASSUME NEW d \in Calls PROVE IsPipe(pipe'[d]) /\ IsCall(call'[d]) /\ BrokenOff(d)
  <2>1. /\ mail'["portal"] = <<>>
        /\ reply'[d] = (IF d \in mine /\ reply[d] = "none" THEN "no reply" ELSE reply[d])
        /\ IsPipe(pipe'[d]) /\ pipe'[d].data = pipe[d].data
        /\ pipe'[d].writer = (pipe[d].writer /\ d \notin writes)
        /\ pipe'[d].reader = (pipe[d].reader /\ d \notin reads)
    BY <1>1, <1>2, VanishedLeaves
  <2>2. IsCall(call[d]) /\ IsPipe(pipe[d])
    BY <1>2, Shapes
  <2>3. d \in mine => Sent(d) /\ SiteOf(d) = "portal"
    <3>1. SaysOf(d) /\ "none" \notin Opened /\ "service" \notin Opened
      BY OpenedPaths DEF IInv, CallInv, Shape
    <3>2. QED
      BY <3>1 DEF mine, InSession, SaysOf, NoMessage, SiteOf
  <2>4. d \in writes => d \in mine
    BY DEF writes
  <2>5. (Download(d) /\ d \in reads => d \in inner) /\ (d \in inner => d \in reads)
    BY DEF reads, Download, Downloads, Uploads
  <2>6. CASE d \in inner
    <3>1. call'[d] = [call[d] EXCEPT !.phase = "gone", !.cursor = "none"]
      BY <1>5, <2>6
    <3>2. /\ IsCall(call'[d]) /\ call'[d].phase = "gone" /\ call'[d].cursor = "none"
          /\ call'[d].rows = call[d].rows /\ call'[d].write = call[d].write
      BY ONLY <2>2, <3>1 DEF IsCall
    <3>3. http'[d] = http[d] /\ req'[d] = (IF d \in mine THEN NoRequest ELSE req[d])
      BY <1>1, <1>5
    <3>4. BrokenOff(d)
      BY ONLY <2>1, <2>2, <2>3, <2>4, <2>5, <2>6, <3>2, <3>3 DEF BrokenOff, IsPipe
    <3>5. QED
      BY <2>1, <3>2, <3>4
  <2>7. CASE d \notin inner
    <3>1. call'[d] = call[d]
      BY <1>5, <2>7
    <3>2. http'[d] = http[d] /\ req'[d] = (IF d \in mine THEN NoRequest ELSE req[d])
      BY <1>1, <1>5
    <3>3. BrokenOff(d)
      BY ONLY <2>1, <2>2, <2>3, <2>4, <2>5, <2>7, <3>1, <3>2 DEF BrokenOff, IsPipe
    <3>4. QED
      BY <2>1, <2>2, <3>1, <3>3
  <2>8. QED
    BY <2>6, <2>7
<1>7. /\ sent' = sent /\ mail' \in [Sites -> Seq(Calls)]
      /\ Fcn(reply', Calls) /\ Fcn(pipe', Calls)
      /\ \A s \in Sites : mail'[s] \in {mail[s], <<>>}
  <2>1. sent' = sent /\ Fcn(reply', Calls) /\ Fcn(pipe', Calls)
    BY <1>1 DEF Vanished, Fcn
  <2>2. mail' = [mail EXCEPT !["portal"] = <<>>] /\ mail \in [Sites -> Seq(Calls)]
    BY <1>1, <1>2 DEF Vanished, Shape, MailShape
  <2>3. <<>> \in Seq(Calls)
    OBVIOUS
  <2>4. QED
    BY <2>1, <2>2, <2>3
<1>8. Breaks
  BY ONLY <1>1, <1>4, <1>6, <1>7 DEF Breaks
<1>9. QED
  BY <1>3, <1>8, BrokenStep

(* A client dies: nobody reads its answers any more.                          *)
LEMMA StepClientDies ==
  ASSUME IInv, NEW cl \in Clients, ClientDies(cl)
  PROVE  IInv'
<1> DEFINE mine == {c \in Calls : ask[c].client = cl}
<1>1. /\ call' = [c \in Calls |-> IF c \in mine
                   THEN [call[c] EXCEPT !.phase = "gone", !.write = "none", !.cursor = "none"]
                   ELSE call[c]]
      /\ pipe' = [c \in Calls |-> IF c \notin mine THEN pipe[c]
                   ELSE IF Uploading(c) THEN [pipe[c] EXCEPT !.writer = FALSE]
                   ELSE [pipe[c] EXCEPT !.reader = FALSE]]
      /\ disturbed' = disturbed \cup {cl} /\ UNCHANGED <<link, floor>>
      /\ UNCHANGED <<policy, mru, bindings, sessions, granted, objects, ask, queue, running, log,
                     http, mail, reply, sent, req>>
  BY DEF ClientDies, ClientVanished, Happens, endpointVars, storeVars, requestVars, portalVars
<1>2. Shape
  BY DEF IInv
<1>3. LinksGo
  BY <1>1, ObjectsStay, LinksStay
<1>4. Fcn(req', Calls) /\ Fcn(http', Calls) /\ Fcn(call', Calls) /\ Fcn(pipe', Calls)
      /\ Fcn(reply', Calls) /\ mail' \in [Sites -> Seq(Calls)]
  BY <1>1, <1>2 DEF Fcn, Shape, HttpShape, ReqShape, MailShape
<1>5. ASSUME NEW d \in Calls
      PROVE  /\ call'[d] = (IF d \in mine
                   THEN [call[d] EXCEPT !.phase = "gone", !.write = "none", !.cursor = "none"]
                   ELSE call[d])
             /\ pipe'[d] = (IF d \notin mine THEN pipe[d]
                   ELSE IF Uploading(d) THEN [pipe[d] EXCEPT !.writer = FALSE]
                   ELSE [pipe[d] EXCEPT !.reader = FALSE])
  BY <1>1
<1> HIDE DEF mine
<1>6. ASSUME NEW d \in Calls PROVE IsPipe(pipe'[d]) /\ IsCall(call'[d]) /\ BrokenOff(d)
  <2>1. http'[d] = http[d] /\ req'[d] = req[d] /\ reply'[d] = reply[d]
    BY <1>1
  <2>2. IsCall(call[d]) /\ IsPipe(pipe[d])
    BY <1>2, Shapes
  <2>3. Download(d) => ~Uploading(d)
    BY DEF IInv, CallInv, SaysOf, Sent, Download, Downloads, Uploads, Uploading
  <2>4. CASE d \in mine
    <3>1. call'[d] = [call[d] EXCEPT !.phase = "gone", !.write = "none", !.cursor = "none"]
      BY <1>5, <2>4
    <3>2. /\ IsCall(call'[d]) /\ call'[d].phase = "gone" /\ call'[d].cursor = "none"
          /\ call'[d].rows = call[d].rows /\ call'[d].write = "none"
      BY ONLY <2>2, <3>1 DEF IsCall
    <3>3. /\ IsPipe(pipe'[d]) /\ pipe'[d].data = pipe[d].data
          /\ pipe'[d].writer => pipe[d].writer
          /\ pipe'[d].reader => pipe[d].reader
          /\ Download(d) => pipe'[d].writer = pipe[d].writer /\ ~pipe'[d].reader
      <4>1. CASE Uploading(d)
        <5>1. pipe'[d] = [pipe[d] EXCEPT !.writer = FALSE]
          BY <1>5, <2>4, <4>1
        <5>2. QED
          BY ONLY <2>2, <2>3, <4>1, <5>1 DEF IsPipe
      <4>2. CASE ~Uploading(d)
        <5>1. pipe'[d] = [pipe[d] EXCEPT !.reader = FALSE]
          BY <1>5, <2>4, <4>2
        <5>2. QED
          BY ONLY <2>2, <5>1 DEF IsPipe
      <4>3. QED
        BY <4>1, <4>2
    <3>4. BrokenOff(d)
      BY ONLY <2>1, <3>2, <3>3 DEF BrokenOff
    <3>5. QED
      BY <3>2, <3>3, <3>4
  <2>5. CASE d \notin mine
    <3>1. call'[d] = call[d] /\ pipe'[d] = pipe[d]
      BY <1>5, <2>5
    <3>2. BrokenOff(d)
      BY ONLY <2>1, <3>1 DEF BrokenOff
    <3>3. QED
      BY <2>2, <3>1, <3>2
  <2>6. QED
    BY <2>4, <2>5
<1>7. Breaks
  BY ONLY <1>1, <1>4, <1>6 DEF Breaks
<1>8. QED
  BY <1>3, <1>7, BrokenStep

(* ---- The invariant holds                                                   *)

LEMMA StepOfClient ==
  ASSUME IInv, NEW c \in Calls, ClientStep(c) \/ Closes(c)
  PROVE  IInv'
<1>1. CASE ClientStep(c)
  <2>1. ClientFrame
    BY <1>1 DEF ClientStep, ClientFrame
  <2>2. CASE WritePiece(c)
    BY <2>1, <2>2, StepWritePiece
  <2>3. CASE ReceiveReply(c)
    BY <2>1, <2>3, StepUpdated, StepAnswered DEF ReceiveReply
  <2>4. CASE CheckFinish(c)
    BY <2>1, <2>4, StepUpdated
  <2>5. CASE CursorNext(c) \/ StreamRead(c)
    BY <2>1, <2>5, StepCursorNext, StepStreamRead
  <2>6. QED
    BY <1>1, <2>2, <2>3, <2>4, <2>5 DEF ClientStep
<1>2. CASE Closes(c)
  <2>1. UNCHANGED <<endpointVars, storeVars, requestVars, portalVars, remoteVars>>
    BY <1>2 DEF Closes
  <2>2. CASE IsHttp(c)
    <3>1. HttpCursorClose(c)
      BY <1>2, <2>2 DEF Closes
    <3>2. QED
      BY <2>1, <2>2, <3>1, StepHttpCursorClose
  <2>3. CASE ~IsHttp(c)
    <3>1. CloseCursor(c) /\ ClientFrame
      BY <1>2, <2>1, <2>3 DEF Closes, ClientFrame
    <3>2. QED
      BY <2>3, <3>1, StepCloseCursor
  <2>4. QED
    BY <2>2, <2>3
<1>3. QED
  BY <1>1, <1>2

LEMMA StepOfEndpoint ==
  ASSUME IInv, NEW c \in Calls, EndpointStep(c)
  PROVE  IInv'
<1>1. UNCHANGED <<clientVars, portalVars, http, remoteVars>> /\ ServiceFrame
  BY DEF EndpointStep, ServiceFrame
<1>2. CASE ReadUpdate(c)
  BY <1>1, <1>2, StepReadUpdate
<1>3. CASE ReadUpdateCb(c) \/ ReadUpdateBlankCb(c)
  BY <1>1, <1>3, StepReadEnded DEF ReadUpdateCb, ReadUpdateBlankCb
<1>4. CASE UpdateCb(c) \/ UpdateBlankCb(c) \/ BatchExecuteCb(c) \/ DeserializeCb(c)
  BY <1>1, <1>4, StepTaskEnded DEF UpdateCb, UpdateBlankCb, BatchExecuteCb, DeserializeCb
<1>5. CASE PutValues(c)
  BY <1>1, <1>5, StepPutValues
<1>6. CASE FreeRequest(c)
  BY <1>1, <1>6, StepFreeRequest
<1>7. QED
  BY <1>2, <1>3, <1>4, <1>5, <1>6 DEF EndpointStep

LEMMA StepOfSession ==
  ASSUME IInv, NEW c \in Calls, SessionStep(c)
  PROVE  IInv'
<1>1. UNCHANGED <<http, remoteVars>>
  BY DEF SessionStep
<1>2. CASE SessionMethodCall(c)
  BY <1>1, <1>2, StepHandled
<1>3. CASE SessionForwards(c)
  BY <1>1, <1>3, StepSessionForwards
<1>4. CASE SessionExecuted(c) \/ SessionRow(c)
  BY <1>1, <1>4, StepAnswering
<1>5. QED
  BY <1>2, <1>3, <1>4 DEF SessionStep

LEMMA StepProgress ==
  ASSUME IInv, Progress
  PROVE  IInv'
<1>1. CASE StoreStep
  <2>1. UNCHANGED <<requestVars, clientVars, portalVars, http, remoteVars>>
    BY <1>1 DEF StoreStep
  <2>2. QED
    BY <1>1, <2>1, StepRunUpdate, StepBeginStream, StepRunning DEF StoreStep
<1>2. ASSUME NEW cl \in Clients, PingPeer(cl) \/ OpenSession(cl) \/ CloseSession(cl) PROVE IInv'
  BY <1>2, StepPingPeer, StepOpenSession, StepCloseSession
<1>3. ASSUME NEW s \in Hosts, PeerVanished(s) PROVE IInv'
  BY <1>3, StepPeerVanished
<1>4. ASSUME NEW c \in Calls,
             \/ NamesRead(c) \/ ClientStep(c) \/ Closes(c) \/ ServiceMethodCall(c)
             \/ ServiceExecuted(c) \/ ServiceRow(c) \/ EndpointStep(c) \/ Watched(c) \/ SessionStep(c)
             \/ WebServerStep(c) \/ WebClientStep(c)
      PROVE  IInv'
  BY <1>4, StepNamesRead, StepOfClient, StepHandled, StepAnswering, StepOfEndpoint, StepWatched,
     StepOfSession, StepWebServer, StepWebClient
<1>5. QED
  BY <1>1, <1>2, <1>3, <1>4 DEF Progress

LEMMA StepNext ==
  ASSUME IInv, [Next]_vars
  PROVE  IInv'
<1>1. CASE Progress
  BY <1>1, StepProgress
<1>2. CASE Fault
  BY <1>2, StepEndpointFinalized, StepServiceCrashes, StepPortalCrashes, StepClientDies DEF Fault
<1>3. CASE BindAgain
  BY <1>3, StepBindAgain
<1>4. ASSUME NEW c \in Calls, MakeCall(c) \/ Cancel(c) PROVE IInv'
  BY <1>4, StepMakeCall, StepCancel
<1>5. ASSUME NEW cl \in Clients, CloseConnection(cl) PROVE IInv'
  BY <1>5, StepCloseConnection
<1>6. CASE UNCHANGED vars
  BY <1>6, StepStutter
<1>7. QED
  BY <1>1, <1>2, <1>3, <1>4, <1>5, <1>6 DEF Next

LEMMA InitialLinks ==
  ASSUME Init
  PROVE  AskShape /\ LinkShape /\ Links /\ Fcn(policy, Hosts)
<1>1. PICK job \in Jobs :
        /\ ask = job.ask /\ policy = job.policy /\ granted = job.granted /\ link = job.link
        /\ objects = {"service"} /\ sessions = <<>>
  BY DEF Init, EndpointInit, RequestInit, ClientInit
<1>2. /\ ask \in [Calls -> Range(ask)] /\ policy \in [Hosts -> Range(policy)]
      /\ link \in [Clients -> {New, Direct}]
      /\ \A c \in Calls :
           /\ ask[c].client \in Clients \cup {"none"}
           /\ ask[c].client = "none" => ask[c].method = "none"
           /\ ask[c].method = "get" => ask[c].text = "description" /\ ask[c].args = {}
      /\ \A c, d \in Sandboxed(job) :
           /\ Inner[c] \in Calls /\ ask[Inner[c]].client = "none"
           /\ c # d => Inner[c] # Inner[d]
  BY <1>1, JobsAssumption
<1>3. "none" \notin Clients /\ Opened = {}
  BY <1>1, JobsAssumption DEF Opened
<1>4. AskShape
  BY <1>2 DEF AskShape, Fcn, IsHttp, Asked
<1>5. \A cl \in Clients : IsLink(link[cl]) /\ LinkOk(link[cl]) /\ link[cl].site # "portal"
                          /\ (link[cl].state = "new" => link[cl] = New)
  <2>1. SUFFICES ASSUME NEW cl \in Clients
                 PROVE  IsLink(link[cl]) /\ LinkOk(link[cl]) /\ link[cl].site # "portal"
                        /\ (link[cl].state = "new" => link[cl] = New)
    OBVIOUS
  <2>2. CASE link[cl] = New
    BY <2>2 DEF New, IsLink, LinkOk, Connected
  <2>3. CASE link[cl] = Direct
    BY <2>3 DEF Direct, IsLink, LinkOk, Connected, Place
  <2>4. QED
    BY <1>2, <2>2, <2>3
<1>6. LinkShape
  <2>1. IsFiniteSet(Opened) /\ Cardinality(Opened) = 0
    BY <1>3, FS_EmptySet
  <2>2. Len(SessionPaths) \in Nat
    BY PathsAssumption
  <2>3. Fcn(sessions, Opened)
    BY <1>1, <1>3 DEF Fcn
  <2>4. Opened = {SessionPaths[k] : k \in 1..Cardinality(Opened)}
    BY <1>3, <2>1
  <2>5. Fcn(link, Clients)
    BY <1>2 DEF Fcn
  <2>6. QED
    BY <1>5, <2>1, <2>2, <2>3, <2>4, <2>5 DEF LinkShape
<1>7. \A c \in Calls : Portaled(c) => c \in Sandboxed(job)
  BY <1>1, <1>5 DEF Portaled, Asked, Sandboxed
<1>8. Links
  BY <1>1, <1>2, <1>3, <1>5, <1>7 DEF Links, Asked
<1>9. QED
  BY <1>2, <1>4, <1>6, <1>8 DEF Fcn

LEMMA InitialShape ==
  ASSUME Init
  PROVE  Shape
<1>1. /\ mail = [s \in Sites |-> <<>>] /\ reply = [c \in Calls |-> "none"]
      /\ pipe = [c \in Calls |-> NoPipe] /\ sent = [c \in Calls |-> NoMessage]
      /\ mru = [h \in Hosts |-> <<>>] /\ bindings = [h \in Hosts |-> <<>>]
      /\ queue = <<>> /\ running = NoTask /\ log = <<>>
      /\ req = [c \in Calls |-> NoRequest] /\ call = [c \in Calls |-> IdleCall]
      /\ http = [c \in Calls |-> NoExchange] /\ floor = [c \in Calls |-> 0]
  BY DEF Init, BusInit, EndpointInit, StoreInit, RequestInit, ClientInit, HttpInit
<1>2. <<>> \in Seq(Calls) /\ IsSeq(<<>>) /\ Len(<<>>) = 0
  BY NothingSeq
<1>3. MailShape
  BY <1>1, <1>2 DEF MailShape, Fcn
<1>4. PipeShape
  BY <1>1 DEF PipeShape, Fcn, IsPipe, NoPipe
<1>5. SentShape
  BY <1>1 DEF SentShape, Fcn, IsSent, NoMessage
<1>6. CallShape
  BY <1>1, <1>2 DEF CallShape, Fcn, IsCall, IdleCall
<1>7. ReqShape
  BY <1>1 DEF ReqShape, Fcn, IsRequest, NoRequest
<1>8. HttpShape
  BY <1>1 DEF HttpShape, Fcn, IsExchange, NoExchange
<1>9. StoreShape
  BY <1>1, <1>2, InitialLinks DEF StoreShape, Fcn, IsTask, NoTask, Expects
<1>10. FloorShape
  BY <1>1, <1>2 DEF FloorShape
<1>11. QED
  BY <1>3, <1>4, <1>5, <1>6, <1>7, <1>8, <1>9, <1>10, InitialLinks DEF Shape

LEMMA InitialInvariant ==
  ASSUME Init
  PROVE  IInv
<1>1. /\ mail = [s \in Sites |-> <<>>] /\ reply = [c \in Calls |-> "none"]
      /\ sent = [c \in Calls |-> NoMessage]
      /\ queue = <<>> /\ running = NoTask /\ log = <<>>
      /\ req = [c \in Calls |-> NoRequest] /\ call = [c \in Calls |-> IdleCall]
      /\ http = [c \in Calls |-> NoExchange] /\ floor = [c \in Calls |-> 0]
  BY DEF Init, BusInit, StoreInit, RequestInit, ClientInit, HttpInit
<1>2. DOMAIN <<>> = {} /\ Len(<<>>) = 0 /\ RowCount \in Nat
  BY SitesAssumption
<1>3. Mails /\ Tasks
  BY <1>1, <1>2 DEF Mails, Tasks
<1>4. Spared
  <2>1. SUFFICES ASSUME NEW c \in Calls, Portaled(c), call[Inner[c]].cancelled PROVE FALSE
    BY DEF Spared
  <2>2. Inner[c] \in Calls
    BY <2>1, InitialLinks DEF Links
  <2>3. QED
    BY <1>1, <2>1, <2>2 DEF IdleCall
<1>5. ASSUME NEW c \in Calls PROVE CallInv(c)
  <2>1. /\ sent[c] = NoMessage /\ reply[c] = "none" /\ req[c] = NoRequest /\ call[c] = IdleCall
        /\ http[c] = NoExchange /\ floor[c] = 0
    BY <1>1
  <2>2. ~Sent(c) /\ ~Download(c)
    BY <2>1 DEF Sent, Download, Downloads, NoMessage
  <2>3. SaysOf(c)
    BY <2>1, <2>2 DEF SaysOf, IdleCall, NoRequest
  <2>4. RequestOf(c)
    BY <2>1, <2>2 DEF RequestOf, NoRequest, UploadPhases, RowPhases
  <2>5. WebCount(c) \in Nat
    BY <1>2 DEF WebCount
  <2>6. WebStages(c) /\ WebEnds(c)
    BY <2>1, <2>5 DEF WebStages, WebEnds, NoExchange, IdleCall
  <2>7. WebRows(c)
    <3>1. IsSeq(http[c].chunks)
      BY <2>1, NothingSeq DEF NoExchange
    <3>2. http[c].chunks = <<>> /\ call[c].rows = <<>> /\ http[c].written = 0
      BY <2>1 DEF NoExchange, IdleCall
    <3>3. WebFrom(c, 0)
      BY <1>2, <2>1, <3>2 DEF WebFrom
    <3>4. 0 \in 0..Len(log)
      BY <1>1, <1>2
    <3>5. QED
      BY <1>2, <3>1, <3>2, <3>3, <3>4 DEF WebRows
  <2>8. QED
    BY <2>2, <2>3, <2>4, <2>6, <2>7 DEF CallInv, Web
<1>6. QED
  BY <1>3, <1>4, <1>5, InitialLinks, InitialShape DEF IInv

LEMMA Invariant == Spec => []IInv
<1>1. Init => IInv
  BY InitialInvariant
<1>2. IInv /\ [Next]_vars => IInv'
  BY StepNext
<1>3. QED
  BY <1>1, <1>2, PTL DEF Spec

(* ---- Every row a client reads is a row of its own query                    *)

(* The rows r are those of one snapshot; after one that was cut nothing comes. *)
Exact(r, text, args, s) ==
  \A k \in DOMAIN r :
    \/ r[k] = [text |-> text, args |-> args, n |-> k, snap |-> s]
    \/ disturbed # {} /\ \A j \in DOMAIN r : j >= k => r[j] = UnboundRow

LEMMA ExactRows ==
  ASSUME NEW r, IsSeq(r), NEW text, NEW args, NEW s, NEW low, s >= low, Exact(r, text, args, s)
  PROVE  \A k \in DOMAIN r :
           \/ /\ r[k].text = text /\ r[k].args = args /\ r[k].n = k
              /\ r[k].snap = r[1].snap /\ r[k].snap >= low
           \/ r[k] = UnboundRow /\ disturbed # {}
<1>1. Len(r) \in Nat /\ DOMAIN r = 1..Len(r)
  BY SeqFacts
<1>2. SUFFICES ASSUME NEW k \in DOMAIN r, ~(r[k] = UnboundRow /\ disturbed # {})
               PROVE  /\ r[k].text = text /\ r[k].args = args /\ r[k].n = k
                      /\ r[k].snap = r[1].snap /\ r[k].snap >= low
  OBVIOUS
<1>3. 1 \in DOMAIN r /\ k >= 1 /\ k >= k
  BY <1>1, <1>2
<1>4. r[k] = [text |-> text, args |-> args, n |-> k, snap |-> s]
  BY <1>2, <1>3 DEF Exact
<1>5. r[1] = [text |-> text, args |-> args, n |-> 1, snap |-> s]
  BY <1>2, <1>3 DEF Exact
<1>6. QED
  BY ONLY <1>4, <1>5, s >= low

LEMMA DirectRows ==
  ASSUME IInv, NEW c \in Calls, Download(c), ~InSession(c)
  PROVE  \E s : /\ Since(c, s) /\ Exact(call[c].rows, Want(c), sent[c].args, s)
<1>1. Flow(c)
  BY DEF IInv, CallInv
<1>2. PICK s \in 0..Len(log) : FlowFrom(c, s)
  BY <1>1 DEF Flow
<1>3. Since(c, s) /\ RowsOk(c, s)
  BY <1>2 DEF FlowFrom
<1>4. \A k : Row(c, s, k) = [text |-> Want(c), args |-> sent[c].args, n |-> k, snap |-> s]
  BY DEF Row
<1>5. Exact(call[c].rows, Want(c), sent[c].args, s)
  <2>1. IsSeq(call[c].rows)
    BY Shapes DEF IInv
  <2>2. \A k, j \in DOMAIN call[c].rows : k = Len(call[c].rows) /\ j >= k => j = k
    BY <2>1, SeqFacts
  <2>3. QED
    BY <1>3, <1>4, <2>2 DEF RowsOk, Cut, Exact
<1>6. QED
  BY <1>3, <1>5

(* The call of the portal for a call of a session is that call's own.         *)
LEMMA InnerSays ==
  ASSUME IInv, NEW c \in Calls, InSession(c), Download(Inner[c])
  PROVE  /\ Inner[c] \in Calls /\ ~InSession(Inner[c]) /\ sent[Inner[c]].args = sent[c].args
         /\ Want(Inner[c]) = Rewritten("service", Rewritten(sent[c].path, sent[c].text))
<1>1. Shape /\ Links /\ LinkShape /\ \A d \in Calls : SaysOf(d)
  BY DEF IInv, Shape, CallInv
<1>2. "none" \notin Opened /\ "service" \notin Opened
  BY <1>1, OpenedPaths
<1>3. Portaled(c) /\ Inner[c] \in Calls \ Asked
  BY <1>1, <1>2, InnerOf
<1>4. Sent(Inner[c])
  BY DEF Download, Downloads, Sent
<1>5. PICK o \in Calls : Relays(o, Inner[c])
  BY <1>1, <1>3, <1>4 DEF SaysOf
<1>6. o = c
  <2>1. InSession(o) /\ Inner[o] = Inner[c]
    BY <1>5 DEF Relays
  <2>2. Portaled(o)
    BY <1>1, <1>2, <2>1, InnerOf
  <2>3. QED
    BY <1>1, <1>3, <2>1, <2>2 DEF Links
<1>7. sent[Inner[c]] = [method |-> sent[c].method, path |-> "service",
                        text |-> Rewritten(sent[c].path, sent[c].text), args |-> sent[c].args]
  BY <1>5, <1>6 DEF Relays
<1>8. /\ sent[Inner[c]].path = "service" /\ sent[Inner[c]].args = sent[c].args
      /\ sent[Inner[c]].text = Rewritten(sent[c].path, sent[c].text)
  BY ONLY <1>7
<1>9. QED
  BY <1>2, <1>3, <1>8 DEF InSession, Want

LEMMA SessionRows ==
  ASSUME IInv, NEW c \in Calls, Download(c), InSession(c)
  PROVE  \E s : /\ s >= floor[c]
                /\ Exact(call[c].rows,
                         Rewritten("service", Rewritten(sent[c].path, sent[c].text)),
                         sent[c].args, s)
<1> DEFINE i == Inner[c]
           want == Rewritten("service", Rewritten(sent[c].path, sent[c].text))
<1>1. Shape /\ Links /\ LinkShape /\ SaysOf(c)
  BY DEF IInv, Shape, CallInv
<1>2. i \in Calls \ Asked
  BY <1>1, OpenedPaths, InnerOf
<1>3. IsSeq(call[c].rows) /\ IsSeq(call[i].rows)
  BY <1>1, <1>2, Shapes
<1>4. Len(call[c].rows) \in Nat /\ DOMAIN call[c].rows = 1..Len(call[c].rows)
      /\ Len(call[i].rows) \in Nat /\ DOMAIN call[i].rows = 1..Len(call[i].rows)
  BY <1>3, SeqFacts
<1>5. PICK t \in 0..Len(log) : FlowFrom(c, t)
  BY DEF IInv, CallInv, Flow
<1>6. \A k \in DOMAIN call[c].rows :
        \/ k <= Len(call[i].rows) /\ call[c].rows[k] = call[i].rows[k]
        \/ call[c].rows[k] = UnboundRow /\ disturbed # {} /\ k = Len(call[c].rows)
  BY <1>5 DEF FlowFrom, RowsOk, There, Row, Cut
<1>7. CASE ~Download(i)
  <2>1. SaysOf(i) /\ AskShape
    BY <1>1, <1>2 DEF IInv, CallInv, Shape
  <2>2. call[i].rows = <<>>
    BY <1>2, <1>7, <2>1 DEF SaysOf
  <2>3. \A k \in DOMAIN call[c].rows :
          call[c].rows[k] = UnboundRow /\ disturbed # {}
    BY <1>4, <1>6, <2>2
  <2>4. floor[c] >= floor[c]
    BY <1>1 DEF Shape, FloorShape
  <2>5. Exact(call[c].rows, want, sent[c].args, floor[c])
    BY <2>3 DEF Exact
  <2>6. QED
    BY <2>4, <2>5
<1>8. CASE Download(i)
  <2>1. /\ ~InSession(i) /\ sent[i].args = sent[c].args /\ Want(i) = want
    BY <1>8, InnerSays
  <2>2. PICK s : Since(i, s) /\ Exact(call[i].rows, Want(i), sent[i].args, s)
    BY <1>2, <1>8, <2>1, DirectRows
  <2>3. s >= floor[c]
    BY <2>2 DEF Since
  <2>4. Exact(call[i].rows, want, sent[c].args, s)
    BY <2>1, <2>2
  <2>5. Exact(call[c].rows, want, sent[c].args, s)
    <3>1. SUFFICES ASSUME NEW k \in DOMAIN call[c].rows,
                          call[c].rows[k] # [text |-> want, args |-> sent[c].args,
                                             n |-> k, snap |-> s]
                   PROVE  disturbed # {} /\ \A j \in DOMAIN call[c].rows :
                            j >= k => call[c].rows[j] = UnboundRow
      BY DEF Exact
    <3>2. CASE k > Len(call[i].rows)
      BY <1>4, <1>6, <3>1, <3>2
    <3>3. CASE k <= Len(call[i].rows)
      <4>1. k \in DOMAIN call[i].rows
        BY <1>4, <3>1, <3>3
      <4>2. disturbed # {}
        BY <1>6, <2>4, <3>1, <4>1 DEF Exact
      <4>3. CASE call[c].rows[k] = call[i].rows[k]
        <5>1. \A j \in DOMAIN call[i].rows : j >= k => call[i].rows[j] = UnboundRow
          BY <2>4, <3>1, <4>1, <4>3 DEF Exact
        <5>2. ASSUME NEW j \in DOMAIN call[c].rows, j >= k PROVE call[c].rows[j] = UnboundRow
          <6>1. CASE j <= Len(call[i].rows) /\ call[c].rows[j] = call[i].rows[j]
            <7>1. j \in DOMAIN call[i].rows
              BY <1>4, <5>2, <6>1
            <7>2. QED
              BY <5>1, <5>2, <6>1, <7>1
          <6>2. QED
            BY <1>6, <5>2, <6>1
        <5>3. QED
          BY <4>2, <5>2
      <4>4. CASE call[c].rows[k] # call[i].rows[k]
        <5>1. call[c].rows[k] = UnboundRow /\ disturbed # {} /\ k = Len(call[c].rows)
          BY <1>6, <3>1, <4>4
        <5>2. \A j \in DOMAIN call[c].rows : j >= k => j = k
          BY <1>4, <5>1
        <5>3. QED
          BY <5>1, <5>2
      <4>5. QED
        BY <4>3, <4>4
    <3>4. QED
      BY <1>4, <3>1, <3>2, <3>3
  <2>6. QED
    BY <2>3, <2>5
<1>9. QED
  BY <1>7, <1>8

LEMMA WebRowsExact ==
  ASSUME IInv, NEW c \in Calls, IsHttp(c)
  PROVE  /\ \E s : /\ s >= floor[c]
                   /\ Exact(call[c].rows, WebRow(c, 0, 0).text, ask[c].args, s)
         /\ call[c].cursor = "end" => Len(call[c].rows) = WebCount(c)
<1>1. Web(c)
  BY DEF IInv, CallInv
<1>2. PICK s \in 0..Len(log) : WebFrom(c, s)
  BY <1>1 DEF Web, WebRows
<1>3. s >= floor[c] /\ Exact(call[c].rows, WebRow(c, 0, 0).text, ask[c].args, s)
  BY <1>2 DEF WebFrom, WebRow, Exact
<1>4. ASSUME call[c].cursor = "end" PROVE Len(call[c].rows) = WebCount(c)
  <2>1. http[c].complete /\ http[c].chunks = <<>> /\ http[c].status = 200
    BY <1>1, <1>4 DEF Web, WebEnds
  <2>2. http[c].written = WebCount(c)
    BY <1>1, <2>1 DEF Web, WebEnds
  <2>3. http[c].written = Len(call[c].rows) + Len(http[c].chunks)
    BY <1>1 DEF Web, WebRows
  <2>4. Len(http[c].chunks) = 0
    BY ONLY <2>1
  <2>5. Len(call[c].rows) \in Nat
    BY Shapes, SeqFacts DEF IInv
  <2>6. QED
    BY <2>2, <2>3, <2>4, <2>5
<1>5. QED
  BY <1>3, <1>4

(* A cursor over D-Bus that met the end has read all rows.                    *)
LEMMA AllRowsRead ==
  ASSUME IInv, NEW c \in Calls, Download(c), call[c].cursor = "end", disturbed = {}
  PROVE  Len(call[c].rows) = RowCount
<1>1. Ends(c) /\ Len(call[c].rows) \in Nat /\ RowCount \in Nat
  BY Shapes, SeqFacts, SitesAssumption DEF IInv, CallInv
<1>2. reply[c] = "ok" /\ pipe[c].reader /\ pipe[c].data = <<>> /\ ~pipe[c].writer
  BY <1>1 DEF Ends
<1>3. Total(c)
  BY <1>1, <1>2 DEF Ends
<1>4. Len(pipe[c].data) = 0
  BY ONLY <1>2
<1>5. Tokens(c, Len(call[c].rows)) = Tokens(c, RowCount)
  <2>1. Tokens(c, Len(call[c].rows)) \in Nat
    BY <1>1 DEF Tokens
  <2>2. Tokens(c, Len(call[c].rows)) + 0 + 0 = Tokens(c, RowCount)
    BY <1>3, <1>4 DEF Total, Arrived, Taken
  <2>3. QED
    BY <2>1, <2>2
<1>6. QED
  BY <1>1, <1>5 DEF Tokens

LEMMA DownloadExpects ==
  ASSUME IInv, NEW c \in Asked, Download(c)
  PROVE  /\ c \in Calls /\ ~IsHttp(c) /\ ask[c].method # "get" /\ sent[c].args = ask[c].args
         /\ ~InSession(c) => Expected(c) = Want(c)
         /\ InSession(c) =>
              Expected(c) = Rewritten("service", Rewritten(sent[c].path, sent[c].text))
<1>1. c \in Calls /\ SaysOf(c) /\ "service" \notin Opened
  BY OpenedPaths DEF Asked, IInv, Shape, CallInv
<1>2. Sent(c) /\ ask[c].method \in Downloads
  BY <1>1 DEF SaysOf, Download, Downloads, Sent
<1>3. AskedSays(c)
  BY <1>1, <1>2 DEF SaysOf
<1>4. /\ sent[c].path = link[ask[c].client].path /\ sent[c].text = Plain(ask[c].text)
      /\ sent[c].args = ask[c].args /\ Place(link[ask[c].client])
  BY <1>3 DEF AskedSays
<1>5. ask[c].method \notin {"post", "get"}
  BY <1>2 DEF Downloads
<1>6. ViaPortal(c) <=> InSession(c)
  BY <1>1, <1>4 DEF Place, ViaPortal, InSession
<1>7. ~InSession(c) => sent[c].path = "service"
  BY <1>4 DEF Place, InSession
<1>8. QED
  BY <1>1, <1>4, <1>5, <1>6, <1>7 DEF IsHttp, Expected, Want

LEMMA RowsAreOwn ==
  ASSUME IInv
  PROVE  OwnRows
<1> DEFINE Reads(c, text, args, low) ==
             LET rows == call[c].rows IN
             \A k \in DOMAIN rows :
               \/ /\ rows[k].text = text /\ rows[k].args = args /\ rows[k].n = k
                  /\ rows[k].snap = rows[1].snap /\ rows[k].snap >= low
               \/ rows[k] = UnboundRow /\ disturbed # {}
           Counts(c) ==
             call[c].cursor = "end" /\ disturbed = {} =>
               Len(call[c].rows) = IF ask[c].method = "get" THEN 1 ELSE RowCount
<1>1. SUFFICES ASSUME NEW c \in Asked PROVE Reads(c, Expected(c), ask[c].args, floor[c]) /\ Counts(c)
  BY DEF OwnRows
<1>2. c \in Calls /\ SaysOf(c) /\ AskShape
  BY DEF Asked, IInv, CallInv, Shape
<1>3. IsSeq(call[c].rows)
  BY <1>2, Shapes DEF IInv
<1>4. CASE Download(c)
  <2>1. /\ ask[c].method # "get" /\ sent[c].args = ask[c].args
        /\ ~InSession(c) => Expected(c) = Want(c)
        /\ InSession(c) =>
             Expected(c) = Rewritten("service", Rewritten(sent[c].path, sent[c].text))
    BY <1>4, DownloadExpects
  <2>2. \E s : s >= floor[c] /\ Exact(call[c].rows, Expected(c), ask[c].args, s)
    <3>1. CASE ~InSession(c)
      BY <1>2, <1>4, <2>1, <3>1, DirectRows DEF Since
    <3>2. CASE InSession(c)
      BY <1>2, <1>4, <2>1, <3>2, SessionRows
    <3>3. QED
      BY <3>1, <3>2
  <2>3. Reads(c, Expected(c), ask[c].args, floor[c])
    BY <1>3, <2>2, ExactRows
  <2>4. Counts(c)
    BY <1>2, <1>4, <2>1, AllRowsRead
  <2>5. QED
    BY <2>3, <2>4
<1>5. CASE IsHttp(c)
  <2>1. WebRow(c, 0, 0).text = Expected(c)
    BY <1>2, <1>5 DEF WebRow, Expected, IsHttp, AskShape
  <2>2. \E s : s >= floor[c] /\ Exact(call[c].rows, Expected(c), ask[c].args, s)
    BY <1>2, <1>5, <2>1, WebRowsExact
  <2>3. Reads(c, Expected(c), ask[c].args, floor[c])
    BY <1>3, <2>2, ExactRows
  <2>4. Counts(c)
    BY <1>2, <1>5, WebRowsExact DEF WebCount
  <2>5. QED
    BY <2>3, <2>4
<1>6. CASE ~Download(c) /\ ~IsHttp(c)
  <2>1. call[c].rows = <<>> /\ call[c].cursor = "none"
    BY <1>2, <1>6 DEF SaysOf
  <2>2. QED
    BY <2>1
<1>7. QED
  BY <1>4, <1>5, <1>6

(* In every behaviour, of any clients, jobs, texts, constraints and pipes,    *)
(* the rows of a cursor answer the query it was made for, with its values, in *)
(* order and from one snapshot that has every update known to be done when    *)
(* the call was made; none is missing where it says there are no more, unless *)
(* something was disturbed.                                                   *)
THEOREM OwnRowsHold == Spec => []OwnRows
<1>1. IInv => OwnRows
  BY RowsAreOwn
<1>2. QED
  BY <1>1, Invariant, PTL

=============================================================================
