---------------------------- MODULE RemoteInvariant ----------------------------
(* The inductive invariant of Remote, which says what each call is to read    *)
(* and how far it has come, and the steps that bring rows forward over D-Bus: *)
(* the store answers, the endpoints pass rows on, clients take them.          *)
EXTENDS Remote, FiniteSetTheorems, SequenceTheorems, NaturalsInduction,
        WellFoundedInduction, TLAPS

(* ---- The shape of the state                                                *)

(* Rows, tokens and requests are of no set the constants name, so a sequence  *)
(* is one over its own elements, and a record one of its own fields.          *)
IsSeq(s) == s \in Seq({s[k] : k \in DOMAIN s})

IsPipe(p) == p \in [data : {p.data}, writer : BOOLEAN, reader : BOOLEAN]

IsSent(m) == m \in [method : {"none"} \cup Uploads \cup Downloads, path : {m.path},
                    text : {m.text}, args : {m.args}]

IsCall(r) == r \in [phase : {r.phase}, dbus : {r.dbus}, write : {r.write}, pos : {r.pos},
                    cancelled : BOOLEAN, result : {r.result}, cursor : {r.cursor}, rows : {r.rows}]

IsRequest(r) == r \in [phase : {r.phase}, host : {r.host}, text : {r.text}, args : {r.args},
                       cancelled : BOOLEAN, snap : {r.snap}, written : Nat, row : {r.row}]

IsExchange(h) == h \in [stage : {h.stage}, text : {h.text}, args : {h.args}, status : Nat,
                        type : {h.type}, chunks : {h.chunks}, written : Nat, snap : {h.snap},
                        complete : BOOLEAN, open : BOOLEAN, lost : BOOLEAN]

IsLink(l) == l \in [state : {l.state}, site : {l.site}, path : {l.path}]

Expects == {"count", "op", "text", "params", "graph", "data", "rdf", "done", "none"}

IsTask(t) == t \in [call : {t.call}, expect : Expects, left : {t.left}, ops : {t.ops}, op : {t.op}]

Fcn(f, S) == f = [x \in S |-> f[x]]

MailShape == mail \in [Sites -> Seq(Calls)] /\ Fcn(reply, Calls)
PipeShape == Fcn(pipe, Calls) /\ \A c \in Calls : IsPipe(pipe[c])
SentShape == Fcn(sent, Calls) /\ \A c \in Calls : IsSent(sent[c])
CallShape == Fcn(call, Calls) /\ \A c \in Calls : IsCall(call[c]) /\ IsSeq(call[c].rows)
ReqShape  == Fcn(req, Calls) /\ \A c \in Calls : IsRequest(req[c])
HttpShape == Fcn(http, Calls) /\ \A c \in Calls : IsExchange(http[c])

AskShape ==
  /\ Fcn(ask, Calls)
  /\ \A c \in Calls :
       /\ ask[c].client \in Clients \cup {"none", "portal"}
       /\ ask[c].method = "get" => ask[c].text = "description" /\ ask[c].args = {}
       /\ IsHttp(c) => c \in Asked

StoreShape ==
  /\ Fcn(policy, Hosts) /\ Fcn(mru, Hosts) /\ Fcn(bindings, Hosts)
  /\ \A h \in Hosts : IsSeq(mru[h])
  /\ IsSeq(queue) /\ IsSeq(log) /\ IsTask(running)

(* The sessions that were opened are the first ones of all.                   *)
LinkShape ==
  /\ Fcn(link, Clients) /\ \A cl \in Clients : IsLink(link[cl])
  /\ Fcn(sessions, Opened) /\ IsFiniteSet(Opened)
  /\ Cardinality(Opened) <= Len(SessionPaths)
  /\ Opened = {SessionPaths[k] : k \in 1..Cardinality(Opened)}

(* What was acknowledged to a client is in the log.                           *)
FloorShape == floor \in [Calls -> Nat] /\ \A c \in Calls : floor[c] <= Len(log)

Shape ==
  /\ MailShape /\ PipeShape /\ SentShape /\ CallShape /\ ReqShape /\ HttpShape
  /\ AskShape /\ StoreShape /\ LinkShape /\ FloorShape

(* ---- Who makes which call, and what becomes of it                          *)

Sent(c) == sent[c].method # "none"
Download(c) == sent[c].method \in Downloads

Connected(l) == l.state \in {"naming", "ready", "closing", "closed"}

(* A connection leads to the service or to an open session of the portal.     *)
Place(l) == \/ l.site = "service" /\ l.path = "service"
            \/ l.site = "portal" /\ l.path \in Opened

LinkOk(l) ==
  /\ l.state = "new" => l.site = "none"
  /\ l.site = "portal" \/ l.state = "sandbox" => granted.sandboxed
  /\ l.state = "sandbox" => l.site = "portal"
  /\ Connected(l) => Place(l)
  /\ l.state = "closing" => disturbed # {}

Portaled(c) ==
  /\ c \in Asked
  /\ LET l == link[ask[c].client] IN
       l.site = "portal" \/ (l.state = "new" /\ granted.sandboxed)

Links ==
  /\ \A cl \in Clients : LinkOk(link[cl])
  /\ \A c \in Calls : Portaled(c) => Inner[c] \in Calls \ Asked
  /\ \A c, d \in Calls : Portaled(c) /\ Portaled(d) /\ Inner[c] = Inner[d] => c = d
  /\ \A h \in Opened \cup {"service"} : h \notin objects => disturbed # {}

(* A call that was made says what it was asked to, and one the portal makes   *)
(* what the call of the session said.                                         *)
AskedSays(c) ==
  LET l == link[ask[c].client] IN
  /\ l.state \notin {"new", "sandbox"} /\ Place(l) /\ sent[c].path = l.path
  /\ Download(c) => sent[c].text = Plain(ask[c].text) /\ sent[c].args = ask[c].args

Relays(o, i) ==
  /\ InSession(o) /\ Inner[o] = i /\ Download(o)
  /\ sent[i] = [method |-> sent[o].method, path |-> "service",
                text |-> Rewritten(sent[o].path, sent[o].text), args |-> sent[o].args]

SaysOf(c) ==
  /\ Sent(c) => ask[c].method = sent[c].method
  /\ Sent(c) /\ c \in Asked => AskedSays(c)
  /\ Sent(c) /\ c \notin Asked => \E o \in Calls : Relays(o, c)
  /\ ~Sent(c) => sent[c] = NoMessage /\ req[c].phase = "none" /\ reply[c] = "none"
  /\ call[c].phase = "idle" => ~Sent(c)
  /\ call[c].phase = "idle" \/ ~IsHttp(c) => http[c] = NoExchange
  /\ call[c].phase \in {"idle", "running"} => call[c].rows = <<>> /\ call[c].cursor = "none"
  /\ call[c].write # "none" => sent[c].method \in Uploads
  /\ ~Download(c) /\ (~IsHttp(c) \/ c \notin Asked) =>
       call[c].rows = <<>> /\ call[c].cursor = "none"

SiteOf(c) == IF sent[c].path = "service" THEN "service" ELSE "portal"

(* A message waits once and at its site; nothing was done for it yet.         *)
Mails ==
  \A s \in Sites : \A k \in DOMAIN mail[s] :
    LET c == mail[s][k] IN
    /\ Sent(c) /\ SiteOf(c) = s /\ req[c].phase = "none" /\ reply[c] = "none"
    /\ \A j \in DOMAIN mail[s] : mail[s][j] = c => j = k

UploadPhases == {"op", "text", "params", "read", "unread", "updating", "stream"}
RowPhases == {"serving", "values", "splicing"}

(* Nothing was done yet for a call that asks for rows.                        *)
Waiting(c) ==
  /\ pipe[c].writer /\ pipe[c].data = <<>>
  /\ call[c].rows = <<>> /\ call[c].cursor = "none"

RequestOf(c) ==
  /\ req[c].phase \in {"none", "executing", "ending", "freed"} \cup UploadPhases \cup RowPhases
  /\ req[c].phase \in UploadPhases => sent[c].method \in Uploads
  /\ req[c].phase \in RowPhases \cup {"executing", "ending"} =>
       Download(c) /\ req[c].host = sent[c].path
  /\ req[c].phase \in RowPhases \cup {"executing"} =>
       /\ req[c].text = Rewritten(sent[c].path, sent[c].text)
       /\ req[c].args = sent[c].args
       /\ pipe[c].writer
  /\ req[c].phase = "executing" => reply[c] = "none" /\ req[c].written = 0
  /\ Download(c) /\ reply[c] = "none" /\ req[c].phase \in {"none", "executing"} => Waiting(c)
  /\ req[c].phase \in {"serving", "values"} => sent[c].method = "query"
  /\ req[c].phase = "splicing" => sent[c].method = "serialize"

(* The update thread and its queue have to do with pipes of updates only.     *)
Tasks ==
  /\ \A k \in DOMAIN queue : queue[k].call \in Calls /\ sent[queue[k].call].method \in Uploads
  /\ running # NoTask =>
       running.call \in Calls /\ sent[running.call].method \in Uploads /\ running.expect # "none"

(* ---- The rows of a call over D-Bus                                         *)

Want(c) ==
  Rewritten("service", IF sent[c].path = "service" THEN sent[c].text
                       ELSE Rewritten(sent[c].path, sent[c].text))

(* The k-th row of a call, if its answer is read from the snapshot s; the row *)
(* of a session is the one its inner call has read.                           *)
Row(c, s, k) ==
  IF InSession(c) THEN call[Inner[c]].rows[k]
  ELSE [text |-> Want(c), args |-> sent[c].args, n |-> k, snap |-> s]

There(c, k) == InSession(c) => k <= Len(call[Inner[c]].rows)

(* The pipe broke off in the middle of a row: this one is the last.           *)
Cut(c, k) ==
  /\ disturbed # {} /\ k = Len(call[c].rows)
  /\ ~pipe[c].writer /\ pipe[c].data = <<>> /\ call[c].cursor # "row"

RowsOk(c, s) ==
  \A k \in DOMAIN call[c].rows :
    \/ There(c, k) /\ call[c].rows[k] = Row(c, s, k)
    \/ call[c].rows[k] = UnboundRow /\ Cut(c, k)

(* The tokens of a call its cursor has taken, those that are in the pipe, and *)
(* those that were written: two for each row of a query, one for each row of  *)
(* a serialization.                                                           *)
Tokens(c, n) == IF sent[c].method = "query" THEN 2 * n ELSE n
Taken(c) == Tokens(c, Len(call[c].rows)) + (IF call[c].cursor = "row" THEN 1 ELSE 0)
Arrived(c) == Taken(c) + Len(pipe[c].data)
Produced(c) == Tokens(c, req[c].written) + (IF req[c].phase = "values" THEN 1 ELSE 0)

TokensOk(c, s) ==
  \A j \in DOMAIN pipe[c].data, k \in Nat :
    Taken(c) + j = Tokens(c, k) => There(c, k) /\ pipe[c].data[j][2] = Row(c, s, k)

ServingOk(c, s) ==
  /\ pipe[c].reader => Arrived(c) = Produced(c)
  /\ ~InSession(c) /\ req[c].written > 0 => req[c].snap = s
  /\ req[c].written <= (IF InSession(c) THEN Len(call[Inner[c]].rows) ELSE RowCount)
  /\ req[c].phase = "values" =>
       /\ req[c].row = {Row(c, s, req[c].written + 1)} /\ There(c, req[c].written + 1)
       /\ ~InSession(c) => req[c].written < RowCount

Since(c, s) ==
  /\ s >= floor[c]
  /\ \A o \in Calls : InSession(o) /\ Inner[o] = c => s >= floor[o]

FlowFrom(c, s) ==
  /\ ~InSession(c) => Since(c, s)
  /\ RowsOk(c, s)
  /\ pipe[c].reader => TokensOk(c, s)
  /\ req[c].phase \in RowPhases => ServingOk(c, s)

Flow(c) ==
  /\ IsSeq(pipe[c].data)
  /\ \E s \in 0..Len(log) : FlowFrom(c, s)

(* ---- How the answer ends                                                   *)

Total(c) == Arrived(c) = Tokens(c, RowCount)

Ends(c) ==
  /\ call[c].phase = "running" => pipe[c].reader
  /\ call[c].cursor \in {"none", "open", "row", "end", "closed"}
  /\ call[c].cursor = "row" => sent[c].method = "query"
  /\ call[c].cursor \in {"open", "row", "end"} => reply[c] = "ok" /\ pipe[c].reader
  /\ call[c].cursor = "end" => pipe[c].data = <<>> /\ ~pipe[c].writer
  /\ req[c].phase \in RowPhases \cup {"ending"} /\ disturbed = {} => reply[c] = "ok"
  /\ req[c].phase # "none" /\ req[c].cancelled => disturbed # {} \/ ~pipe[c].reader
  /\ InSession(c) /\ call[Inner[c]].cancelled => disturbed # {} \/ ~pipe[c].reader
  /\ (req[c].phase = "ending" \/ ~pipe[c].writer) /\ reply[c] = "ok"
     /\ pipe[c].reader /\ disturbed = {} => Total(c)

(* ---- The rows of a call over HTTP                                          *)

WebRow(c, s, k) ==
  [text |-> IF ask[c].method = "get" THEN Plain("description")
            ELSE Rewritten("web", Plain(ask[c].text)),
   args |-> ask[c].args, n |-> k, snap |-> s]

WebCount(c) == IF ask[c].method = "get" THEN 1 ELSE RowCount

WebFrom(c, s) ==
  /\ s >= floor[c]
  /\ \A k \in DOMAIN call[c].rows : call[c].rows[k] = WebRow(c, s, k)
  /\ \A j \in DOMAIN http[c].chunks :
       http[c].chunks[j] = WebRow(c, s, Len(call[c].rows) + j)
  /\ http[c].written > 0 => http[c].snap = s

WebStages(c) ==
  /\ http[c].stage \in {"none", "sent", "awaiting body", "querying"} =>
       http[c].status = 0 /\ http[c].written = 0
  /\ http[c].stage \in {"sent", "awaiting body", "querying", "reading", "writing"} =>
       http[c].args = ask[c].args
  /\ http[c].stage \in {"querying", "reading", "writing"} /\ ask[c].method = "post" =>
       http[c].text = Rewritten("web", Plain(ask[c].text))
  /\ http[c].stage = "querying" => ask[c].method = "post"
  /\ http[c].written <= WebCount(c)

WebEnds(c) ==
  /\ http[c].stage # "freed" => ~http[c].complete
  /\ http[c].complete /\ http[c].status = 200 => http[c].written = WebCount(c)
  /\ call[c].cursor \in {"none", "open", "end", "closed"}
  /\ call[c].cursor # "none" => http[c].status = 200
  /\ call[c].cursor = "end" => http[c].complete /\ http[c].chunks = <<>>

WebRows(c) ==
  /\ IsSeq(http[c].chunks)
  /\ http[c].written = Len(call[c].rows) + Len(http[c].chunks)
  /\ \E s \in 0..Len(log) : WebFrom(c, s)

Web(c) == WebStages(c) /\ WebEnds(c) /\ WebRows(c)

CallInv(c) ==
  /\ SaysOf(c) /\ RequestOf(c)
  /\ Download(c) => Flow(c) /\ Ends(c)
  /\ IsHttp(c) => Web(c)

(* The portal cancels no call before the one it would be for was made.        *)
Spared ==
  \A c \in Calls : Portaled(c) /\ ~Sent(c) /\ call[Inner[c]].cancelled => disturbed # {}

IInv == Shape /\ Links /\ Mails /\ Tasks /\ Spared /\ \A c \in Calls : CallInv(c)

-----------------------------------------------------------------------------

(* ---- Sequences of anything                                                 *)

Grow(r, t) ==
  /\ IsSeq(r) /\ IsSeq(t) /\ Len(r) <= Len(t)
  /\ \A k \in 1..Len(r) : t[k] = r[k]

LEMMA SeqFacts ==
  ASSUME NEW s, IsSeq(s)
  PROVE  Len(s) \in Nat /\ DOMAIN s = 1..Len(s)
BY DEF IsSeq

LEMMA SeqIs ==
  ASSUME NEW S, NEW s \in Seq(S)
  PROVE  IsSeq(s)
<1>1. Len(s) \in Nat /\ s = [k \in 1..Len(s) |-> s[k]]
  OBVIOUS
<1> DEFINE R == {s[k] : k \in DOMAIN s}
<1>2. \A k \in 1..Len(s) : s[k] \in R
  OBVIOUS
<1> HIDE DEF R
<1>3. s \in Seq(R)
  BY <1>1, <1>2
<1>4. QED
  BY <1>3 DEF R, IsSeq

LEMMA NothingSeq ==
  ASSUME NEW s, s = << >>
  PROVE  IsSeq(s)
<1>1. s \in Seq(Nat)
  OBVIOUS
<1>2. QED
  BY <1>1, SeqIs

LEMMA AppendSeq ==
  ASSUME NEW s, IsSeq(s), NEW e
  PROVE  /\ IsSeq(Append(s, e))
         /\ Len(s) \in Nat /\ Len(Append(s, e)) = Len(s) + 1
         /\ Append(s, e)[Len(s) + 1] = e
         /\ \A k \in 1..Len(s) : Append(s, e)[k] = s[k]
<1> DEFINE S == {s[k] : k \in DOMAIN s} \cup {e}
<1>1. s \in Seq(S)
  <2>1. {s[k] : k \in DOMAIN s} \subseteq S
    OBVIOUS
  <2>2. QED
    BY <2>1 DEF IsSeq
<1> HIDE DEF S
<1>2. Append(s, e) \in Seq(S \cup {e})
  BY <1>1
<1>3. IsSeq(Append(s, e))
  BY <1>2, SeqIs
<1>4. QED
  BY <1>1, <1>3

LEMMA TailSeq ==
  ASSUME NEW s, IsSeq(s), s # << >>
  PROVE  /\ IsSeq(Tail(s))
         /\ Len(s) \in Nat \ {0} /\ Len(Tail(s)) = Len(s) - 1
         /\ \A k \in 1..Len(Tail(s)) : Tail(s)[k] = s[k + 1]
         /\ Head(s) = s[1]
<1> DEFINE S == {s[k] : k \in DOMAIN s}
<1>1. s \in Seq(S)
  BY DEF IsSeq
<1> HIDE DEF S
<1>2. Len(s) \in Nat \ {0} /\ Tail(s) \in Seq(S) /\ Head(s) = s[1]
  BY <1>1
<1>3. Len(Tail(s)) = Len(s) - 1
  BY <1>1, <1>2
<1>4. \A k \in 1..Len(Tail(s)) : Tail(s)[k] = s[k + 1]
  BY <1>1, <1>2, <1>3
<1>5. IsSeq(Tail(s))
  BY <1>2, SeqIs
<1>6. QED
  BY <1>2, <1>3, <1>4, <1>5

LEMMA GrowSame == ASSUME NEW s, IsSeq(s) PROVE Grow(s, s)
BY SeqFacts DEF Grow

LEMMA GrowAppend == ASSUME NEW s, IsSeq(s), NEW e PROVE Grow(s, Append(s, e))
BY AppendSeq, SeqFacts DEF Grow

(* ---- Calls that a step leaves alone                                        *)

(* What every step keeps.                                                     *)
Context ==
  /\ Opened \subseteq Opened' /\ Asked' = Asked
  /\ \A h \in Opened \cup {"service", "web"} : policy'[h] = policy[h]
  /\ disturbed \subseteq disturbed'
  /\ IsSeq(log) /\ IsSeq(log') /\ Len(log) <= Len(log')
  /\ \A e \in Calls : Grow(call[e].rows, call'[e].rows)
  /\ \A e \in Calls : Sent(e) => sent'[e] = sent[e]
  /\ \A cl \in Clients : link[cl].state \notin {"new", "sandbox"} =>
       /\ link'[cl].state \notin {"new", "sandbox"}
       /\ link'[cl].site = link[cl].site /\ link'[cl].path = link[cl].path
  /\ \A o \in Calls : InSession(o)' =>
       (InSession(o) /\ floor'[o] = floor[o]) \/ ~Sent(Inner[o])

(* What a step that is not about a call may do to it.                         *)
Same(d) ==
  /\ sent'[d] = sent[d] /\ reply'[d] = reply[d] /\ ask'[d] = ask[d] /\ floor'[d] = floor[d]
  /\ Download(d) => pipe'[d] = pipe[d]
  /\ call'[d].rows = call[d].rows /\ call'[d].cursor = call[d].cursor
  /\ call'[d].phase \in {call[d].phase, "done", "gone"}
  /\ call'[d].write \in {call[d].write, "none"} \/ sent[d].method \in Uploads
  /\ req'[d].phase = req[d].phase /\ req'[d].host = req[d].host
  /\ req'[d].text = req[d].text /\ req'[d].args = req[d].args
  /\ req'[d].written = req[d].written /\ req'[d].snap = req[d].snap /\ req'[d].row = req[d].row
  /\ req'[d].cancelled => req[d].cancelled \/ disturbed' # {} \/ ~pipe[d].reader
  /\ InSession(d) /\ call'[Inner[d]].cancelled =>
       call[Inner[d]].cancelled \/ disturbed' # {} \/ ~pipe[d].reader
  /\ http'[d] = http[d]

(* A call of a session, and the one that the portal makes for it.             *)
LEMMA InnerOf ==
  ASSUME Links, NEW c \in Calls, SaysOf(c), InSession(c), "none" \notin Opened, "service" \notin Opened
  PROVE  /\ Sent(c) /\ c \in Asked /\ Portaled(c)
         /\ Inner[c] \in Calls \ Asked
<1>1. sent[c].path # "none" /\ sent[c].path # "service"
  BY DEF InSession
<1>2. Sent(c)
  BY <1>1 DEF SaysOf, NoMessage
<1>3. c \in Asked
  <2>1. SUFFICES ASSUME NEW o \in Calls, Relays(o, c) PROVE FALSE
    BY <1>2 DEF SaysOf
  <2>2. sent[c].path = "service"
    BY <2>1 DEF Relays
  <2>3. QED
    BY <1>1, <2>2
<1>4. AskedSays(c)
  BY <1>2, <1>3 DEF SaysOf
<1>5. Portaled(c)
  BY <1>1, <1>3, <1>4 DEF AskedSays, Place, Portaled
<1>6. QED
  BY <1>2, <1>3, <1>5 DEF Links

LEMMA PathsFresh ==
  ASSUME NEW n \in 0..Len(SessionPaths),
         NEW O, O = {SessionPaths[k] : k \in 1..n}
  PROVE  /\ "none" \notin O /\ "service" \notin O /\ "web" \notin O
         /\ O \subseteq Hosts
<1>1. \A k \in 1..n : SessionPaths[k] \in Hosts \ {"service", "web", "none"}
  BY PathsAssumption
<1>2. QED
  BY <1>1

LEMMA OpenedPaths ==
  ASSUME LinkShape
  PROVE  /\ "none" \notin Opened /\ "service" \notin Opened /\ "web" \notin Opened
         /\ Opened \subseteq Hosts /\ Cardinality(Opened) \in Nat
<1>1. Cardinality(Opened) \in Nat /\ Len(SessionPaths) \in Nat
  BY FS_CardinalityType, PathsAssumption DEF LinkShape
<1>2. Opened = {SessionPaths[k] : k \in 1..Cardinality(Opened)}
     /\ Cardinality(Opened) \in 0..Len(SessionPaths)
  BY <1>1 DEF LinkShape
<1>3. QED
  BY <1>1, <1>2, PathsFresh

LEMMA OpenedPathsNext ==
  ASSUME LinkShape'
  PROVE  "none" \notin Opened' /\ "service" \notin Opened' /\ "web" \notin Opened'
<1>1. Cardinality(Opened)' \in Nat /\ Len(SessionPaths) \in Nat
  BY FS_CardinalityType, PathsAssumption DEF LinkShape
<1>2. QED
  BY <1>1, PathsFresh DEF LinkShape

(* Whether a call was made, and whether of a session, stays as it is.         *)
LEMMA StillSame ==
  ASSUME Links, LinkShape, LinkShape', Context, NEW d \in Calls, SaysOf(d), sent'[d] = sent[d]
  PROVE  /\ (Sent(d)' <=> Sent(d)) /\ (Download(d)' <=> Download(d)) /\ (InSession(d)' <=> InSession(d))
         /\ InSession(d) => Sent(d) /\ Inner[d] \in Calls /\ Portaled(d)
         /\ Sent(d) /\ ~InSession(d) => sent[d].path = "service"
         /\ sent[d].path \in Opened \cup {"service", "none"}
<1>1. /\ "none" \notin Opened /\ "service" \notin Opened
      /\ "none" \notin Opened' /\ "service" \notin Opened'
  BY OpenedPaths, OpenedPathsNext
<1>2. Sent(d) => sent[d].path \in Opened \cup {"service"}
  <2>1. CASE d \in Asked
    BY <2>1 DEF SaysOf, AskedSays, Place
  <2>2. CASE d \notin Asked
    <3>1. SUFFICES ASSUME NEW o \in Calls, Relays(o, d) PROVE sent[d].path = "service"
      BY <2>2 DEF SaysOf
    <3>2. QED
      BY <3>1 DEF Relays
  <2>3. QED
    BY <2>1, <2>2
<1>3. ~Sent(d) => sent[d].path = "none"
  BY DEF SaysOf, NoMessage
<1>4. (InSession(d)' <=> InSession(d))
  BY <1>1, <1>2, <1>3 DEF InSession, Context
<1>5. InSession(d) => Sent(d) /\ Inner[d] \in Calls /\ Portaled(d)
  BY <1>1, InnerOf
<1>6. QED
  BY <1>2, <1>3, <1>4, <1>5 DEF Sent, Download, InSession

LEMMA SameSays ==
  ASSUME Links, LinkShape, LinkShape', Context, NEW d \in Calls, CallInv(d), Same(d),
         AskShape, AskShape'
  PROVE  SaysOf(d)'
<1>1. SaysOf(d)
  BY DEF CallInv
<1>2. /\ (Sent(d)' <=> Sent(d)) /\ (Download(d)' <=> Download(d)) /\ (InSession(d)' <=> InSession(d))
      /\ (IsHttp(d)' <=> IsHttp(d)) /\ (d \in Asked' <=> d \in Asked)
  BY <1>1, StillSame DEF Same, IsHttp, Context
<1>3. ASSUME Sent(d), d \in Asked PROVE AskedSays(d)'
  <2>1. AskedSays(d) /\ ask[d].client \in Clients
    BY <1>1, <1>3 DEF SaysOf, Asked
  <2>2. QED
    BY <2>1, <1>2 DEF AskedSays, Place, Context, Same
<1>4. ASSUME Sent(d), d \notin Asked PROVE \E o \in Calls : Relays(o, d)'
  <2>1. PICK o \in Calls : Relays(o, d)
    BY <1>1, <1>4 DEF SaysOf
  <2>2. Sent(o)
    BY <2>1 DEF Relays, Download, Sent, Downloads
  <2>3. sent'[o] = sent[o] /\ InSession(o)'
    BY <2>1, <2>2 DEF Context, Relays, InSession
  <2>4. Rewritten(sent[o].path, sent[o].text)' = Rewritten(sent[o].path, sent[o].text)
    BY <2>1, <2>3 DEF Rewritten, Context, Relays, InSession
  <2>5. Relays(o, d)'
    BY <2>1, <2>3, <2>4 DEF Relays, Same, Download
  <2>6. QED
    BY <2>5
<1>5. ~Sent(d) => (sent[d] = NoMessage /\ req[d].phase = "none" /\ reply[d] = "none")'
  BY <1>1 DEF SaysOf, Same
<1>6. /\ (call[d].phase = "idle")' => ~Sent(d)
      /\ (call[d].phase = "idle")' \/ ~IsHttp(d) => (http[d] = NoExchange)'
      /\ (call[d].phase \in {"idle", "running"})' =>
           (call[d].rows = <<>> /\ call[d].cursor = "none")'
  BY <1>1 DEF SaysOf, Same
<1>7. (call[d].write # "none" => sent[d].method \in Uploads)'
  BY <1>1 DEF SaysOf, Same
<1>8. ~Download(d) /\ (~IsHttp(d) \/ d \notin Asked) =>
         (call[d].rows = <<>> /\ call[d].cursor = "none")'
  BY <1>1 DEF SaysOf, Same
<1>9. Sent(d) => ask'[d].method = sent'[d].method
  BY <1>1 DEF SaysOf, Same
<1>10. QED
  BY <1>2, <1>3, <1>4, <1>5, <1>6, <1>7, <1>8, <1>9 DEF SaysOf

LEMMA SameRequest ==
  ASSUME Links, LinkShape, LinkShape', Context, NEW d \in Calls, CallInv(d), Same(d)
  PROVE  RequestOf(d)'
<1>1. SaysOf(d) /\ RequestOf(d)
  BY DEF CallInv
<1>2. (Download(d)' <=> Download(d)) /\ sent[d].path \in Opened \cup {"service", "none"}
  BY <1>1, StillSame DEF Same
<1>3. Sent(d) => Rewritten(sent[d].path, sent[d].text)' = Rewritten(sent[d].path, sent[d].text)
  <2>1. Sent(d) => sent[d].path \in Opened \cup {"service"}
    BY <1>1, StillSame DEF Same, InSession
  <2>2. QED
    BY <2>1 DEF Same, Context, Rewritten
<1>4. req[d].phase \in RowPhases \cup {"executing", "ending"} => Download(d) /\ Sent(d)
  BY <1>1 DEF RequestOf, Download, Downloads, Sent
<1>5. (Download(d) /\ reply[d] = "none" /\ req[d].phase \in {"none", "executing"} => Waiting(d))'
  BY <1>1, <1>2 DEF RequestOf, Same, Waiting
<1>6. QED
  BY <1>1, <1>2, <1>3, <1>4, <1>5 DEF RequestOf, Same

LEMMA TakenNat ==
  ASSUME NEW c, Len(call[c].rows) \in Nat
  PROVE  Taken(c) \in Nat
<1>1. Tokens(c, Len(call[c].rows)) \in Nat
  BY DEF Tokens
<1>2. (IF call[c].cursor = "row" THEN 1 ELSE 0) \in Nat
  OBVIOUS
<1>3. QED
  BY <1>1, <1>2 DEF Taken

LEMMA SameFlow ==
  ASSUME Shape, Links, LinkShape', Context, NEW d \in Calls, CallInv(d), Same(d), Download(d)
  PROVE  Flow(d)'
<1>1. SaysOf(d) /\ RequestOf(d) /\ Flow(d) /\ LinkShape
  BY DEF CallInv, Shape
<1>2. /\ Sent(d) /\ Download(d)' /\ (InSession(d)' <=> InSession(d))
      /\ InSession(d) => Inner[d] \in Calls
      /\ ~InSession(d) => sent[d].path = "service"
      /\ InSession(d) => sent[d].path \in Opened
  BY <1>1, StillSame DEF Same, Download, Downloads, Sent, InSession
<1>3. PICK s \in 0..Len(log) : FlowFrom(d, s)
  BY <1>1 DEF Flow
<1>4. s \in 0..Len(log')
  BY <1>3, SeqFacts DEF Context
<1>5. pipe'[d] = pipe[d] /\ sent'[d] = sent[d] /\ call'[d].rows = call[d].rows
     /\ call'[d].cursor = call[d].cursor
  BY DEF Same
<1>6. Want(d)' = Want(d)
  BY <1>2, <1>5 DEF Want, Rewritten, Context
<1>7. \A k \in Nat \ {0} : There(d, k) => There(d, k)' /\ Row(d, s, k)' = Row(d, s, k)
  <2>1. CASE InSession(d)
    <3>1. Grow(call[Inner[d]].rows, call'[Inner[d]].rows)
      BY <1>2, <2>1 DEF Context
    <3>2. QED
      BY <3>1, <1>2, <2>1, SeqFacts DEF Grow, There, Row
  <2>2. CASE ~InSession(d)
    BY <2>2, <1>2, <1>5, <1>6 DEF There, Row
  <2>3. QED
    BY <2>1, <2>2
<1>8. ~InSession(d) => Since(d, s)'
  <2>1. SUFFICES ASSUME ~InSession(d) PROVE Since(d, s)'
    OBVIOUS
  <2>2. Since(d, s)
    BY <1>3, <2>1 DEF FlowFrom
  <2>3. ASSUME NEW o \in Calls, InSession(o)', Inner[o] = d PROVE s >= floor'[o]
    <3>1. InSession(o) /\ floor'[o] = floor[o]
      BY <2>3, <1>2 DEF Context
    <3>2. QED
      BY <2>2, <2>3, <3>1 DEF Since
  <2>4. QED
    BY <2>2, <2>3 DEF Since, Same
<1>9. RowsOk(d, s)'
  <2>1. ASSUME NEW k \in DOMAIN call[d].rows, Cut(d, k) PROVE Cut(d, k)'
    BY <2>1, <1>5 DEF Cut, Context
  <2>2. \A k \in DOMAIN call[d].rows : k \in Nat \ {0}
    BY SeqFacts DEF Shape, CallShape
  <2>3. QED
    BY <1>3, <1>5, <1>7, <2>1, <2>2 DEF FlowFrom, RowsOk
<1>10. pipe[d].reader => TokensOk(d, s)'
  <2>1. SUFFICES ASSUME pipe[d].reader,
                        NEW j \in DOMAIN pipe[d].data, NEW k \in Nat,
                        Taken(d) + j = Tokens(d, k)
                 PROVE  There(d, k)' /\ pipe[d].data[j][2] = Row(d, s, k)'
    <3>1. Taken(d)' = Taken(d) /\ \A k \in Nat : Tokens(d, k)' = Tokens(d, k)
      BY <1>5 DEF Taken, Tokens
    <3>2. QED
      BY <1>5, <3>1 DEF TokensOk
  <2>2. There(d, k) /\ pipe[d].data[j][2] = Row(d, s, k)
    BY <1>3, <2>1 DEF FlowFrom, TokensOk
  <2>3. k # 0
    <3>1. j \in Nat \ {0} /\ Len(call[d].rows) \in Nat
      BY <1>1, SeqFacts DEF Flow, Shape, CallShape
    <3>2. Taken(d) \in Nat /\ Tokens(d, 0) = 0
      BY <3>1, TakenNat DEF Tokens
    <3>3. QED
      BY <2>1, <3>1, <3>2
  <2>4. QED
    BY <1>7, <2>2, <2>3
<1>11. req[d].phase \in RowPhases => ServingOk(d, s)'
  <2>1. SUFFICES ASSUME req[d].phase \in RowPhases PROVE ServingOk(d, s)'
    OBVIOUS
  <2>2. ServingOk(d, s)
    BY <1>3, <2>1 DEF FlowFrom
  <2>3. req[d].written \in Nat
    BY DEF Shape, ReqShape, IsRequest
  <2>4. pipe'[d].reader => Arrived(d)' = Produced(d)'
    <3>1. Arrived(d)' = Arrived(d) /\ pipe'[d] = pipe[d]
      BY <1>5 DEF Arrived, Taken, Tokens
    <3>2. Produced(d)' = Produced(d)
      BY <1>5 DEF Same, Produced, Tokens
    <3>3. QED
      BY <2>2, <3>1, <3>2 DEF ServingOk
  <2>5. (~InSession(d) /\ req[d].written > 0 => req[d].snap = s)'
    BY <2>2, <1>2 DEF ServingOk, Same
  <2>6. (req[d].written <= (IF InSession(d) THEN Len(call[Inner[d]].rows) ELSE RowCount))'
    <3>1. InSession(d) => Grow(call[Inner[d]].rows, call'[Inner[d]].rows)
      BY <1>2 DEF Context
    <3>2. QED
      BY <2>2, <2>3, <1>2, <3>1, SeqFacts DEF ServingOk, Same, Grow
  <2>7. (req[d].phase = "values" =>
       /\ req[d].row = {Row(d, s, req[d].written + 1)} /\ There(d, req[d].written + 1)
       /\ ~InSession(d) => req[d].written < RowCount)'
    BY <2>2, <2>3, <1>2, <1>7 DEF ServingOk, Same
  <2>8. QED
    BY <2>4, <2>5, <2>6, <2>7 DEF ServingOk
<1>12. req'[d].phase = req[d].phase
  BY DEF Same
<1>13. FlowFrom(d, s)'
  BY <1>2, <1>5, <1>8, <1>9, <1>10, <1>11, <1>12 DEF FlowFrom
<1>14. QED
  BY <1>1, <1>4, <1>5, <1>13 DEF Flow

LEMMA SameEnds ==
  ASSUME Shape, Links, LinkShape', Context, NEW d \in Calls, CallInv(d), Same(d), Download(d)
  PROVE  Ends(d)'
<1>1. SaysOf(d) /\ RequestOf(d) /\ Ends(d) /\ LinkShape
  BY DEF CallInv, Shape
<1>2. (InSession(d)' <=> InSession(d))
  BY <1>1, StillSame DEF Same
<1>3. pipe'[d] = pipe[d] /\ sent'[d] = sent[d] /\ call'[d].rows = call[d].rows
     /\ call'[d].cursor = call[d].cursor /\ reply'[d] = reply[d] /\ req'[d].phase = req[d].phase
     /\ (call'[d].phase = "running" => call[d].phase = "running")
  BY DEF Same
<1>4. (Total(d)' <=> Total(d))
  BY <1>3 DEF Total, Arrived, Taken, Tokens
<1>5. disturbed' = {} => disturbed = {}
  BY DEF Context
<1>6. (req[d].phase # "none" /\ req[d].cancelled => disturbed # {} \/ ~pipe[d].reader)'
  BY <1>1, <1>3, <1>5 DEF Ends, Same
<1>7. (InSession(d) /\ call[Inner[d]].cancelled => disturbed # {} \/ ~pipe[d].reader)'
  BY <1>1, <1>2, <1>3, <1>5 DEF Ends, Same
<1>8. QED
  BY <1>1, <1>3, <1>4, <1>5, <1>6, <1>7 DEF Ends

LEMMA SameWeb ==
  ASSUME Shape, Context, NEW d \in Calls, CallInv(d), Same(d), IsHttp(d)
  PROVE  Web(d)'
<1>1. Web(d)
  BY DEF CallInv
<1>2. PICK s \in 0..Len(log) : WebFrom(d, s)
  BY <1>1 DEF Web, WebRows
<1>3. s \in 0..Len(log')
  BY <1>2, SeqFacts DEF Context
<1>4. http'[d] = http[d] /\ ask'[d] = ask[d] /\ call'[d].rows = call[d].rows
     /\ call'[d].cursor = call[d].cursor /\ floor'[d] = floor[d] /\ policy'["web"] = policy["web"]
  BY DEF Same, Context
<1>5. \A k : WebRow(d, s, k)' = WebRow(d, s, k)
  BY <1>4 DEF WebRow, Rewritten
<1>6. WebFrom(d, s)'
  BY <1>2, <1>4, <1>5 DEF WebFrom
<1>7. \E t \in 0..Len(log') : WebFrom(d, t)'
  BY <1>3, <1>6
<1>8. WebCount(d)' = WebCount(d) /\ Rewritten("web", Plain(ask[d].text))' = Rewritten("web", Plain(ask[d].text))
  BY <1>4 DEF WebCount, Rewritten
<1>9. WebStages(d)'
  BY <1>1, <1>4, <1>8 DEF Web, WebStages
<1>10. WebEnds(d)'
  BY <1>1, <1>4, <1>8 DEF Web, WebEnds
<1>11. WebRows(d)'
  BY <1>1, <1>4, <1>7 DEF Web, WebRows
<1>12. QED
  BY <1>9, <1>10, <1>11 DEF Web

(* A call that a step leaves alone keeps its part of the invariant.           *)
LEMMA Untouched ==
  ASSUME Shape, Links, LinkShape', AskShape', Context, NEW d \in Calls, CallInv(d), Same(d)
  PROVE  CallInv(d)'
<1>1. LinkShape /\ AskShape /\ SaysOf(d)
  BY DEF Shape, CallInv
<1>2. SaysOf(d)' /\ RequestOf(d)'
  BY <1>1, SameSays, SameRequest
<1>3. (Download(d)' <=> Download(d)) /\ (IsHttp(d)' <=> IsHttp(d))
  BY DEF Same, Download, IsHttp
<1>4. Download(d) => Flow(d)' /\ Ends(d)'
  BY SameFlow, SameEnds
<1>5. IsHttp(d) => Web(d)'
  BY SameWeb
<1>6. QED
  BY <1>2, <1>3, <1>4, <1>5 DEF CallInv


(* ---- Steps that are about one call                                         *)

(* A message is taken, a statement is remembered for it.                      *)
Received ==
  /\ mail' \in [Sites -> Seq(Calls)] /\ Mails'
  /\ Fcn(mru', Hosts) /\ Fcn(bindings', Hosts) /\ \A h \in Hosts : IsSeq(mru'[h])

(* The step changes nothing but what belongs to the call c, and the store.    *)
Touches(c) ==
  /\ UNCHANGED <<sent, ask, policy, sessions, granted, link, floor, disturbed, objects>>
  /\ UNCHANGED <<mail, mru, bindings>> \/ Received
  /\ Fcn(reply', Calls) /\ Fcn(pipe', Calls) /\ Fcn(call', Calls)
  /\ Fcn(req', Calls) /\ Fcn(http', Calls)
  /\ \A d \in Calls \ {c} :
       /\ reply'[d] = reply[d] /\ pipe'[d] = pipe[d] /\ call'[d] = call[d]
       /\ req'[d] = req[d] /\ http'[d] = http[d]
  /\ IsPipe(pipe'[c]) /\ IsCall(call'[c]) /\ IsRequest(req'[c]) /\ IsExchange(http'[c])
  /\ Grow(call[c].rows, call'[c].rows)
  /\ call'[c].cancelled = call[c].cancelled

StoreGoes ==
  /\ IsSeq(queue') /\ IsSeq(log') /\ IsTask(running')
  /\ Len(log) <= Len(log') /\ Tasks'

LEMMA TouchedShape ==
  ASSUME Shape, NEW c \in Calls, Touches(c), StoreGoes
  PROVE  Shape'
<1>1. MailShape'
  BY DEF Shape, MailShape, Touches, Received, Fcn
<1>2. PipeShape'
  BY DEF Shape, PipeShape, Touches
<1>3. SentShape'
  BY DEF Shape, SentShape, Touches, Fcn
<1>4. CallShape'
  BY DEF Shape, CallShape, Touches, Grow
<1>5. ReqShape'
  BY DEF Shape, ReqShape, Touches
<1>6. HttpShape'
  BY DEF Shape, HttpShape, Touches
<1>7. AskShape'
  BY DEF Shape, AskShape, Touches, Fcn, IsHttp, Asked
<1>8. StoreShape'
  BY DEF Shape, StoreShape, Touches, Received, StoreGoes, Fcn
<1>9. LinkShape'
  <2>1. LinkShape /\ link' = link /\ Opened' = Opened /\ sessions' = sessions
    BY DEF Shape, Touches, Opened
  <2>2. QED
    BY <2>1 DEF LinkShape, Fcn
<1>10. FloorShape'
  <2>1. Len(log) \in Nat /\ Len(log') \in Nat
    BY SeqFacts DEF Shape, StoreShape, StoreGoes
  <2>2. QED
    BY <2>1 DEF Shape, FloorShape, Touches, StoreGoes
<1>11. QED
  BY <1>1, <1>2, <1>3, <1>4, <1>5, <1>6, <1>7, <1>8, <1>9, <1>10 DEF Shape

LEMMA TouchedContext ==
  ASSUME Shape, NEW c \in Calls, Touches(c), StoreGoes
  PROVE  Context
<1>1. \A e \in Calls : Grow(call[e].rows, call'[e].rows)
  BY GrowSame DEF Shape, CallShape, Touches
<1>2. IsSeq(log) /\ IsSeq(log') /\ Len(log) <= Len(log')
  BY DEF Shape, StoreShape, StoreGoes
<1>3. QED
  BY <1>1, <1>2 DEF Context, Touches, Opened, Asked, InSession

LEMMA LinksKept ==
  ASSUME Links, UNCHANGED <<ask, sessions, granted, link, disturbed, objects>>
  PROVE  Links'
BY DEF Links, LinkOk, Portaled, Connected, Place, Opened, Asked

LEMMA TouchedStep ==
  ASSUME IInv, NEW c \in Calls, Touches(c), StoreGoes, CallInv(c)',
         (req'[c].phase = req[c].phase /\ reply'[c] = reply[c])
           \/ req[c].phase # "none" \/ reply[c] # "none" \/ Received
  PROVE  IInv'
<1>1. Shape' /\ Context
  BY TouchedShape, TouchedContext DEF IInv
<1>2. Links'
  BY LinksKept DEF IInv, Touches
<1>3. Mails'
  <2>0. SUFFICES ASSUME ~Received PROVE Mails'
    BY DEF Received
  <2>1. \A s \in Sites : \A k \in DOMAIN mail[s] : mail[s][k] \in Calls
    BY DEF IInv, Shape, MailShape
  <2>2. \A d \in Calls : req[d].phase = "none" /\ reply[d] = "none" =>
                           req'[d].phase = "none" /\ reply'[d] = "none"
    BY <2>0 DEF Touches
  <2>3. mail' = mail /\ sent' = sent /\ Mails
    BY <2>0 DEF Touches, IInv
  <2>4. QED
    BY <2>1, <2>2, <2>3 DEF Mails, Sent, SiteOf
<1>4. Tasks'
  BY DEF StoreGoes
<1>5. ASSUME NEW d \in Calls, d # c PROVE CallInv(d)'
  <2>1. Same(d)
    <3>1. call'[Inner[d]].cancelled = call[Inner[d]].cancelled \/ Inner[d] \notin Calls
      BY DEF Touches
    <3>2. InSession(d) => Inner[d] \in Calls
      <4>1. SaysOf(d) /\ LinkShape /\ Links
        BY DEF IInv, CallInv, Shape
      <4>2. QED
        BY <4>1, OpenedPaths, InnerOf
    <3>3. QED
      BY <1>5, <3>1, <3>2 DEF Touches, Same
  <2>2. QED
    BY <1>1, <2>1, Untouched DEF IInv, Shape
<1>6. Spared'
  <2>1. \A d \in Calls : call'[d].cancelled = call[d].cancelled
    BY DEF Touches
  <2>2. \A d \in Calls : Portaled(d)' => Portaled(d) /\ Inner[d] \in Calls
    BY DEF IInv, Links, Touches, Portaled, Asked
  <2>3. QED
    BY <2>1, <2>2 DEF IInv, Spared, Touches, Sent
<1>7. QED
  BY <1>1, <1>2, <1>3, <1>4, <1>5, <1>6 DEF IInv

LEMMA TouchedStill ==
  ASSUME NEW c, Touches(c), NEW d
  PROVE  /\ (Sent(d)' <=> Sent(d)) /\ (Download(d)' <=> Download(d))
         /\ (InSession(d)' <=> InSession(d)) /\ (IsHttp(d)' <=> IsHttp(d))
         /\ (d \in Asked' <=> d \in Asked) /\ Want(d)' = Want(d)
         /\ \A h, t : Rewritten(h, t)' = Rewritten(h, t)
         /\ (d \in Asked /\ AskedSays(d) => AskedSays(d)')
         /\ \A o : Relays(o, d) => Relays(o, d)'
BY DEF Touches, Sent, Download, InSession, IsHttp, Asked, Want, Rewritten, AskedSays, Relays,
       Place, Opened

LEMMA TouchedSays ==
  ASSUME NEW c \in Calls, Touches(c), SaysOf(c),
         ~Sent(c) => req'[c].phase = "none" /\ reply'[c] = "none",
         call'[c].phase \in {"idle", "running"} =>
           call'[c].phase = call[c].phase /\ call'[c].rows = call[c].rows
           /\ call'[c].cursor \in {call[c].cursor, "none"},
         call'[c].phase = "idle" \/ ~IsHttp(c) => http'[c] = http[c],
         call'[c].write \in {call[c].write, "none"} \/ sent[c].method \in Uploads,
         ~Download(c) /\ (~IsHttp(c) \/ c \notin Asked) =>
           call'[c].rows = call[c].rows /\ call'[c].cursor \in {call[c].cursor, "none"}
  PROVE  SaysOf(c)'
<1>1. sent' = sent /\ ask' = ask
  BY DEF Touches
<1>2. Sent(c) /\ c \in Asked => AskedSays(c)'
  BY TouchedStill DEF SaysOf
<1>3. Sent(c) /\ c \notin Asked => \E o \in Calls : Relays(o, c)'
  BY TouchedStill DEF SaysOf
<1>4. QED
  BY <1>1, <1>2, <1>3, TouchedStill DEF SaysOf

(* A step that is about an update has nothing to do with rows.                *)
LEMMA UploadStep ==
  ASSUME IInv, NEW c \in Calls, Touches(c), StoreGoes, ~Download(c), ~IsHttp(c),
         call'[c].rows = call[c].rows, call'[c].cursor \in {call[c].cursor, "none"},
         call'[c].phase \in {call[c].phase, "done", "gone"}, http'[c] = http[c],
         call'[c].write \in {call[c].write, "none"} \/ sent[c].method \in Uploads,
         \/ req'[c].phase = req[c].phase /\ reply'[c] = reply[c]
         \/ /\ sent[c].method \in Uploads
            /\ req'[c].phase \in {"none", "freed"} \cup UploadPhases
            /\ req[c].phase # "none" \/ reply[c] # "none" \/ Received
  PROVE  IInv'
<1>1. SaysOf(c) /\ RequestOf(c)
  BY DEF IInv, CallInv
<1>2. sent[c].method \in Uploads => Sent(c)
  BY DEF Sent, Uploads
<1>3. SaysOf(c)'
  BY <1>1, <1>2, TouchedSays DEF SaysOf
<1>4. RequestOf(c)'
  BY <1>1, TouchedStill DEF RequestOf, Touches, UploadPhases, RowPhases
<1>5. CallInv(c)'
  BY <1>3, <1>4, TouchedStill DEF CallInv
<1>6. QED
  BY <1>5, TouchedStep

LEMMA StoreStays ==
  ASSUME IInv, UNCHANGED storeVars, UNCHANGED sent
  PROVE  StoreGoes
<1>1. IsSeq(queue) /\ IsSeq(log) /\ IsTask(running) /\ Tasks /\ Len(log) \in Nat
  BY SeqFacts DEF IInv, Shape, StoreShape
<1>2. QED
  BY <1>1 DEF StoreGoes, storeVars, Tasks

(* ---- Updates                                                               *)

ClientFrame ==
  UNCHANGED <<endpointVars, storeVars, requestVars, portalVars, http, remoteVars>>

LEMMA Shapes ==
  ASSUME Shape, NEW c \in Calls
  PROVE  /\ Fcn(reply, Calls) /\ Fcn(pipe, Calls) /\ Fcn(call, Calls) /\ Fcn(req, Calls)
         /\ Fcn(http, Calls) /\ Fcn(sent, Calls) /\ Fcn(ask, Calls)
         /\ IsPipe(pipe[c]) /\ IsCall(call[c]) /\ IsRequest(req[c]) /\ IsExchange(http[c])
         /\ IsSent(sent[c]) /\ IsSeq(call[c].rows) /\ Grow(call[c].rows, call[c].rows)
BY GrowSame DEF Shape, MailShape, PipeShape, CallShape, ReqShape, HttpShape, SentShape, AskShape

(* What a step that changes the pipe of one call does to it.                  *)
LEMMA PipeMoves ==
  ASSUME Shape, NEW c \in Calls, NEW t,
         \/ Written(c, t) \/ Consumed(c) \/ WriterClosed(c) \/ ReaderClosed(c) \/ UNCHANGED pipe
  PROVE  /\ Fcn(pipe', Calls) /\ IsPipe(pipe'[c])
         /\ \A d \in Calls \ {c} : pipe'[d] = pipe[d]
         /\ Written(c, t) => pipe'[c] = [pipe[c] EXCEPT !.data = Append(@, t)]
         /\ Consumed(c) => pipe'[c] = [pipe[c] EXCEPT !.data = Tail(@)]
         /\ WriterClosed(c) => pipe'[c] = [pipe[c] EXCEPT !.writer = FALSE]
         /\ ReaderClosed(c) => pipe'[c] = [pipe[c] EXCEPT !.reader = FALSE]
<1>1. Fcn(pipe, Calls) /\ IsPipe(pipe[c])
  BY Shapes
<1>2. CASE Written(c, t)
  BY <1>1, <1>2 DEF Written, Fcn, IsPipe, Consumed, WriterClosed, ReaderClosed
<1>3. CASE Consumed(c)
  BY <1>1, <1>3 DEF Written, Fcn, IsPipe, Consumed, WriterClosed, ReaderClosed
<1>4. CASE WriterClosed(c)
  BY <1>1, <1>4 DEF Written, Fcn, IsPipe, Consumed, WriterClosed, ReaderClosed
<1>5. CASE ReaderClosed(c)
  BY <1>1, <1>5 DEF Written, Fcn, IsPipe, Consumed, WriterClosed, ReaderClosed
<1>6. CASE UNCHANGED pipe
  BY <1>1, <1>6 DEF Written, Fcn, IsPipe, Consumed, WriterClosed, ReaderClosed
<1>7. QED
  BY <1>2, <1>3, <1>4, <1>5, <1>6

LEMMA PipeCloses ==
  ASSUME Shape, NEW c \in Calls, WriterClosed(c) \/ ReaderClosed(c)
  PROVE  /\ Fcn(pipe', Calls) /\ IsPipe(pipe'[c]) /\ pipe'[c].data = pipe[c].data
         /\ \A d \in Calls \ {c} : pipe'[d] = pipe[d]
         /\ \/ WriterClosed(c) /\ ~pipe'[c].writer /\ pipe'[c].reader = pipe[c].reader
            \/ ReaderClosed(c) /\ ~pipe'[c].reader /\ pipe'[c].writer = pipe[c].writer
<1>1. Fcn(pipe, Calls) /\ IsPipe(pipe[c])
  BY Shapes
<1>2. /\ Fcn(pipe', Calls) /\ \A d \in Calls \ {c} : pipe'[d] = pipe[d]
      /\ \/ WriterClosed(c) /\ pipe'[c] = [pipe[c] EXCEPT !.writer = FALSE]
         \/ ReaderClosed(c) /\ pipe'[c] = [pipe[c] EXCEPT !.reader = FALSE]
  BY <1>1 DEF WriterClosed, ReaderClosed, Fcn
<1>3. QED
  BY ONLY <1>1, <1>2 DEF IsPipe

(* What a step that changes fields of the task of one call does to it.        *)
LEMMA CallMoves ==
  ASSUME Shape, NEW c \in Calls, NEW r, IsCall(r), call' = [call EXCEPT ![c] = r]
  PROVE  /\ Fcn(call', Calls) /\ IsCall(call'[c]) /\ call'[c] = r
         /\ \A d \in Calls \ {c} : call'[d] = call[d]
<1>1. Fcn(call, Calls)
  BY Shapes
<1>2. QED
  BY <1>1 DEF Fcn

LEMMA ReqMoves ==
  ASSUME Shape, NEW c \in Calls, NEW r, IsRequest(r), req' = [req EXCEPT ![c] = r]
  PROVE  /\ Fcn(req', Calls) /\ IsRequest(req'[c]) /\ req'[c] = r
         /\ \A d \in Calls \ {c} : req'[d] = req[d]
<1>1. Fcn(req, Calls)
  BY Shapes
<1>2. QED
  BY <1>1 DEF Fcn

LEMMA ReplyMoves ==
  ASSUME Shape, NEW c \in Calls, NEW answer, Answered(c, answer)
  PROVE  /\ Fcn(reply', Calls) /\ reply'[c] = (IF reply[c] = "none" THEN answer ELSE reply[c])
         /\ \A d \in Calls \ {c} : reply'[d] = reply[d]
<1>1. Fcn(reply, Calls)
  BY Shapes
<1>2. QED
  BY <1>1 DEF Fcn, Answered

LEMMA StepWritePiece ==
  ASSUME IInv, NEW c \in Calls, WritePiece(c), ClientFrame
  PROVE  IInv'
<1>1. SaysOf(c) /\ RequestOf(c) /\ Shape
  BY DEF IInv, CallInv
<1>2. sent[c].method \in Uploads /\ ~Download(c) /\ ~IsHttp(c)
  BY <1>1 DEF WritePiece, SaysOf, Sent, Uploads, Download, Downloads, IsHttp
<1>3. StoreGoes
  BY StoreStays DEF WritePiece, ClientFrame
<1>4. Touches(c)
  <2>1. WriterClosed(c) \/ Written(c, Piece(c))
    BY DEF WritePiece, WriterEnds
  <2>2. /\ Fcn(pipe', Calls) /\ IsPipe(pipe'[c])
        /\ \A d \in Calls \ {c} : pipe'[d] = pipe[d]
    BY <1>1, <2>1, PipeMoves
  <2>3. /\ Fcn(call', Calls) /\ IsCall(call'[c]) /\ call'[c].rows = call[c].rows
        /\ \A d \in Calls \ {c} : call'[d] = call[d]
        /\ call'[c].cancelled = call[c].cancelled
    <3>1. Fcn(call, Calls) /\ IsCall(call[c])
      BY <1>1, Shapes
    <3>2. CASE \E how : call' = [call EXCEPT ![c].write = how]
      BY <3>1, <3>2 DEF Fcn, IsCall
    <3>3. CASE \E pos : call' = [call EXCEPT ![c].pos = pos]
      BY <3>1, <3>3 DEF Fcn, IsCall
    <3>4. QED
      BY <3>2, <3>3 DEF WritePiece, WriterEnds
  <2>4. UNCHANGED <<mail, sent, ask, policy, mru, bindings, sessions, granted, link, floor,
                  disturbed, objects,
                    reply, req, http>>
    BY DEF WritePiece, ClientFrame, endpointVars, requestVars, portalVars, remoteVars
  <2>5. QED
    BY <1>1, <2>2, <2>3, <2>4, Shapes DEF Touches, Fcn
<1>5. /\ call'[c].rows = call[c].rows /\ call'[c].cursor = call[c].cursor
      /\ call'[c].phase = call[c].phase
  <2>1. Fcn(call, Calls) /\ IsCall(call[c])
    BY <1>1, Shapes
  <2>2. CASE \E how : call' = [call EXCEPT ![c].write = how]
    BY ONLY <2>1, <2>2, c \in Calls DEF Fcn, IsCall
  <2>3. CASE \E pos : call' = [call EXCEPT ![c].pos = pos]
    BY ONLY <2>1, <2>3, c \in Calls DEF Fcn, IsCall
  <2>4. QED
    BY <2>2, <2>3 DEF WritePiece, WriterEnds
<1>6. QED
  BY <1>2, <1>3, <1>4, <1>5, UploadStep DEF ClientFrame, requestVars, WritePiece

(* The answer of an update, and its end.                                      *)
LEMMA StepUpdated ==
  ASSUME IInv, NEW c \in Calls, ClientFrame,
         \/ ReceiveReply(c) /\ (ReceiveUpdated(c) \/ ReceiveDeserialized(c))
         \/ CheckFinish(c)
  PROVE  IInv'
<1>1. SaysOf(c) /\ RequestOf(c) /\ Shape
  BY DEF IInv, CallInv
<1>2. ~Download(c) /\ ~IsHttp(c)
  <2>1. ask[c].method \in Uploads
    BY DEF ReceiveUpdated, ReceiveDeserialized, AnswerArrives, CheckFinish,
       CheckFinishUpdate, CheckFinishDeserialize, CheckFinishOf, Uploads
  <2>2. QED
    BY <1>1, <2>1 DEF SaysOf, Sent, Uploads, Download, Downloads, IsHttp
<1>3. UNCHANGED <<mail, sent, ask, policy, mru, bindings, sessions, granted, link, floor,
                  disturbed, objects,
                    reply, req, http, pipe>>
  BY DEF ReceiveReply, ReceiveUpdated, ReceiveDeserialized, CheckFinish, CheckFinishUpdate,
     CheckFinishDeserialize, CheckFinishOf, busVars,
     ClientFrame, endpointVars, requestVars, portalVars, remoteVars
<1>4. StoreGoes
  BY <1>3, StoreStays DEF ClientFrame
<1>5. /\ Fcn(call', Calls) /\ IsCall(call'[c])
      /\ \A d \in Calls \ {c} : call'[d] = call[d]
      /\ call'[c].rows = call[c].rows /\ call'[c].cursor = call[c].cursor
      /\ call'[c].cancelled = call[c].cancelled /\ call'[c].write = call[c].write
      /\ call'[c].phase \in {call[c].phase, "done"}
  <2>1. Fcn(call, Calls) /\ IsCall(call[c])
    BY <1>1, Shapes
  <2>2. CASE \E dbus : call' = [call EXCEPT ![c].dbus = dbus]
    BY <2>1, <2>2 DEF IsCall, Fcn
  <2>3. CASE \E result : call' = [call EXCEPT ![c].phase = "done", ![c].result = result]
    BY <2>1, <2>3 DEF IsCall, Fcn
  <2>4. QED
    BY <2>2, <2>3 DEF ReceiveUpdated, ReceiveDeserialized, CheckFinish, CheckFinishUpdate,
       CheckFinishDeserialize, CheckFinishOf
<1>7. Touches(c)
  BY <1>1, <1>3, <1>5, Shapes DEF Touches, Fcn
<1>8. QED
  BY <1>2, <1>3, <1>4, <1>5, <1>7, UploadStep

LEMMA StepReadUpdate ==
  ASSUME IInv, NEW c \in Calls, ReadUpdate(c),
         UNCHANGED <<clientVars, portalVars, http, remoteVars>>
  PROVE  IInv'
<1>1. SaysOf(c) /\ RequestOf(c) /\ Shape
  BY DEF IInv, CallInv
<1>2. sent[c].method \in Uploads /\ ~Download(c) /\ ~IsHttp(c)
  BY <1>1 DEF ReadUpdate, SaysOf, RequestOf, UploadPhases, Sent, Uploads, Download, Downloads,
     IsHttp
<1>3. UNCHANGED <<mail, sent, ask, policy, mru, bindings, sessions, granted, link, floor,
                  disturbed, objects,
                    reply, call, http>>
  BY DEF ReadUpdate, clientVars, endpointVars, portalVars, remoteVars
<1>4. StoreGoes
  BY <1>3, StoreStays DEF ReadUpdate
<1>5. /\ Fcn(pipe', Calls) /\ IsPipe(pipe'[c])
      /\ \A d \in Calls \ {c} : pipe'[d] = pipe[d]
  <2>1. Consumed(c) \/ UNCHANGED pipe
    BY DEF ReadUpdate
  <2>2. QED
    BY <1>1, <2>1, PipeMoves
<1>6. /\ Fcn(req', Calls) /\ IsRequest(req'[c])
      /\ \A d \in Calls \ {c} : req'[d] = req[d]
      /\ req'[c].phase \in {"text", "params", "read", "unread"}
  <2>1. Fcn(req, Calls) /\ IsRequest(req[c])
    BY <1>1, Shapes
  <2>2. PICK text, phase :
          /\ req' = [req EXCEPT ![c] = [req[c] EXCEPT !.phase = phase, !.text = text]]
          /\ phase \in {"text", "params", "read", "unread"}
    <3>1. \A phase : [req[c] EXCEPT !.phase = phase] =
                       [req[c] EXCEPT !.phase = phase, !.text = req[c].text]
      BY <2>1 DEF IsRequest
    <3>2. CASE Moved(c, "unread")
      BY <3>1, <3>2, <2>1 DEF Moved, Fcn
    <3>3. CASE ~Moved(c, "unread")
      BY <3>1, <3>3 DEF ReadUpdate
    <3>4. QED
      BY <3>2, <3>3
  <2>3. IsRequest(req'[c]) /\ req'[c].phase = phase /\ Fcn(req', Calls)
    BY <2>1, <2>2 DEF IsRequest, Fcn
  <2>4. \A d \in Calls \ {c} : req'[d] = req[d]
    BY <2>1, <2>2 DEF Fcn
  <2>5. QED
    BY <2>2, <2>3, <2>4
<1>7. Touches(c)
  BY <1>1, <1>3, <1>5, <1>6, Shapes DEF Touches, Fcn
<1>8. QED
  BY <1>2, <1>3, <1>4, <1>6, <1>7, UploadStep DEF UploadPhases, ReadUpdate

LEMMA StepReadEnded ==
  ASSUME IInv, NEW c \in Calls, NEW method, ReadEnded(c, method),
         UNCHANGED <<clientVars, portalVars, http, remoteVars>>
  PROVE  IInv'
<1>1. SaysOf(c) /\ RequestOf(c) /\ Shape
  BY DEF IInv, CallInv
<1>2. sent[c].method \in Uploads /\ ~Download(c) /\ ~IsHttp(c)
  BY <1>1 DEF ReadEnded, SaysOf, RequestOf, UploadPhases, Sent, Uploads, Download, Downloads,
     IsHttp
<1>3. UNCHANGED <<mail, sent, ask, policy, mru, bindings, sessions, granted, link, floor,
                  disturbed, objects,
                    call, http, running, log>>
  BY DEF ReadEnded, clientVars, endpointVars, portalVars, remoteVars
<1>4. /\ Fcn(pipe', Calls) /\ IsPipe(pipe'[c])
      /\ \A d \in Calls \ {c} : pipe'[d] = pipe[d]
  <2>1. ReaderClosed(c) \/ UNCHANGED pipe
    BY DEF ReadEnded
  <2>2. QED
    BY <1>1, <2>1, PipeMoves
<1>5. /\ Fcn(req', Calls) /\ IsRequest(req'[c])
      /\ \A d \in Calls \ {c} : req'[d] = req[d]
      /\ req'[c].phase \in {"updating", "freed"}
  <2>1. Fcn(req, Calls) /\ IsRequest(req[c])
    BY <1>1, Shapes
  <2>2. CASE Moved(c, "updating")
    BY <2>1, <2>2 DEF Moved, Fcn, IsRequest
  <2>3. CASE Moved(c, "freed")
    BY <2>1, <2>3 DEF Moved, Fcn, IsRequest
  <2>4. QED
    BY <2>2, <2>3 DEF ReadEnded
<1>6. Fcn(reply', Calls) /\ \A d \in Calls \ {c} : reply'[d] = reply[d]
  <2>1. (\E answer : Answered(c, answer)) \/ reply' = reply
    BY DEF ReadEnded
  <2>2. QED
    BY <1>1, <2>1, ReplyMoves, Shapes
<1>7. StoreGoes
  <2>1. IsSeq(queue) /\ IsSeq(log) /\ IsTask(running) /\ Tasks /\ Len(log) \in Nat
    BY SeqFacts DEF IInv, Shape, StoreShape
  <2>2. CASE queue' = queue
    BY <1>3, <2>1, <2>2 DEF StoreGoes, Tasks
  <2>3. CASE \E text : queue' = Append(queue, [call |-> c, kind |-> method, text |-> text])
    <3>1. PICK text : queue' = Append(queue, [call |-> c, kind |-> method, text |-> text])
      BY <2>3
    <3>2. IsSeq(queue') /\ \A k \in DOMAIN queue' : queue'[k].call = c
                              \/ (k \in DOMAIN queue /\ queue'[k] = queue[k])
      BY <2>1, <3>1, AppendSeq, SeqFacts
    <3>3. QED
      BY <1>2, <1>3, <2>1, <3>2 DEF StoreGoes, Tasks
  <2>4. QED
    BY <2>2, <2>3 DEF ReadEnded, Queued
<1>8. Touches(c)
  BY <1>1, <1>3, <1>4, <1>5, <1>6, Shapes DEF Touches, Fcn
<1>9. QED
  BY <1>2, <1>3, <1>5, <1>7, <1>8, UploadStep DEF UploadPhases, ReadEnded

LEMMA StepTaskEnded ==
  ASSUME IInv, NEW c \in Calls, NEW method, TaskEnded(c, method),
         UNCHANGED <<clientVars, portalVars, http, remoteVars>>
  PROVE  IInv'
<1>1. SaysOf(c) /\ RequestOf(c) /\ Shape
  BY DEF IInv, CallInv
<1>2. sent[c].method \in Uploads /\ ~Download(c) /\ ~IsHttp(c)
  BY <1>1 DEF TaskEnded, SaysOf, RequestOf, UploadPhases, Sent, Uploads, Download, Downloads,
     IsHttp
<1>3. UNCHANGED <<mail, sent, ask, policy, mru, bindings, sessions, granted, link, floor,
                  disturbed, objects,
                    call, http>>
  BY DEF TaskEnded, clientVars, endpointVars, portalVars, remoteVars
<1>4. /\ Fcn(pipe', Calls) /\ IsPipe(pipe'[c])
      /\ \A d \in Calls \ {c} : pipe'[d] = pipe[d]
  BY <1>1, PipeMoves DEF TaskEnded
<1>5. /\ Fcn(req', Calls) /\ IsRequest(req'[c])
      /\ \A d \in Calls \ {c} : req'[d] = req[d]
      /\ req'[c].phase = "freed"
  <2>1. Fcn(req, Calls) /\ IsRequest(req[c])
    BY <1>1, Shapes
  <2>2. QED
    BY <2>1 DEF TaskEnded, Moved, Fcn, IsRequest
<1>6. Fcn(reply', Calls) /\ \A d \in Calls \ {c} : reply'[d] = reply[d]
  BY <1>1, ReplyMoves DEF TaskEnded
<1>7. StoreGoes
  BY <1>3, StoreStays DEF TaskEnded
<1>8. Touches(c)
  BY <1>1, <1>3, <1>4, <1>5, <1>6, Shapes DEF Touches, Fcn
<1>9. QED
  BY <1>2, <1>3, <1>5, <1>7, <1>8, UploadStep DEF UploadPhases, TaskEnded

(* ---- The update thread of the service                                      *)

LEMMA CommitSeq ==
  ASSUME Shape, NEW c, NEW ops, Committed(c, ops)
  PROVE  IsSeq(log) /\ IsSeq(log') /\ Len(log) <= Len(log')
<1>1. IsSeq(log) /\ log' = Append(log, [call |-> c, ops |-> ops])
  BY DEF Shape, StoreShape, Committed
<1>2. QED
  BY <1>1, AppendSeq

LEMMA StepRunUpdate ==
  ASSUME IInv, RunUpdate, UNCHANGED <<requestVars, clientVars, portalVars, http, remoteVars>>
  PROVE  IInv'
<1>1. IsSeq(queue) /\ IsTask(running) /\ queue # << >> /\ Tasks /\ Shape
  BY DEF IInv, Shape, StoreShape, RunUpdate
<1>2. IsSeq(queue') /\ \A k \in DOMAIN queue' : queue'[k] = queue[k + 1] /\ k + 1 \in DOMAIN queue
  <2>1. queue' = Tail(queue)
    BY DEF RunUpdate
  <2>2. QED
    BY <1>1, <2>1, TailSeq, SeqFacts
<1>3. PICK c : c = queue[1].call
  OBVIOUS
<1>4. c \in Calls /\ sent[c].method \in Uploads
  <2>1. 1 \in DOMAIN queue
    BY <1>1, TailSeq, SeqFacts
  <2>2. QED
    BY <1>1, <1>3, <2>1 DEF Tasks
<1>5. IsSeq(log') /\ Len(log) <= Len(log')
  <2>1. CASE \E d, ops : Committed(d, ops)
    BY <1>1, <2>1, CommitSeq
  <2>2. CASE log' = log
    BY <1>1, <2>2, SeqFacts DEF Shape, StoreShape
  <2>3. QED
    BY <2>1, <2>2 DEF RunUpdate, Aborted
<1>6. UNCHANGED <<mail, sent, ask, policy, mru, bindings, sessions, granted, link, floor,
                  disturbed, objects,
                    pipe, reply, req, call, http, running>>
  BY DEF RunUpdate, requestVars, clientVars, endpointVars, portalVars, remoteVars, busVars
<1>7. StoreGoes
  BY <1>1, <1>2, <1>5, <1>6 DEF StoreGoes, Tasks
<1>8. Touches(c)
  BY <1>1, <1>4, <1>6, Shapes DEF Touches, Fcn
<1>9. ~Download(c) /\ ~IsHttp(c)
  BY <1>4 DEF IInv, CallInv, SaysOf, Sent, Uploads, Download, Downloads, IsHttp
<1>10. QED
  BY <1>4, <1>6, <1>7, <1>8, <1>9, UploadStep

LEMMA StepBeginStream ==
  ASSUME IInv, BeginStream, UNCHANGED <<requestVars, clientVars, portalVars, http, remoteVars>>
  PROVE  IInv'
<1>1. IsSeq(queue) /\ IsTask(running) /\ queue # << >> /\ Tasks /\ Shape
  BY DEF IInv, Shape, StoreShape, BeginStream
<1>2. IsSeq(queue') /\ \A k \in DOMAIN queue' : queue'[k] = queue[k + 1] /\ k + 1 \in DOMAIN queue
  BY <1>1, TailSeq, SeqFacts DEF BeginStream
<1>3. PICK c : c = queue[1].call
  OBVIOUS
<1>4. c \in Calls /\ sent[c].method \in Uploads /\ Head(queue).call = c
  <2>1. 1 \in DOMAIN queue /\ Head(queue) = queue[1]
    BY <1>1, TailSeq, SeqFacts
  <2>2. QED
    BY <1>1, <1>3, <2>1 DEF Tasks
<1>5. IsSeq(log') /\ Len(log) <= Len(log')
  BY <1>1, SeqFacts DEF Shape, StoreShape, BeginStream
<1>6. UNCHANGED <<mail, sent, ask, policy, mru, bindings, sessions, granted, link, floor,
                  disturbed, objects,
                    pipe, reply, req, call, http>>
  BY DEF BeginStream, requestVars, clientVars, endpointVars, portalVars, remoteVars, busVars
<1>7. IsTask(running') /\ running'.call = c /\ running'.expect # "none"
  BY <1>4 DEF BeginStream, NoTask, IsTask, Expects
<1>8. StoreGoes
  BY <1>1, <1>2, <1>4, <1>5, <1>6, <1>7 DEF StoreGoes, Tasks
<1>9. Touches(c)
  BY <1>1, <1>4, <1>6, Shapes DEF Touches, Fcn
<1>10. ~Download(c) /\ ~IsHttp(c)
  BY <1>4 DEF IInv, CallInv, SaysOf, Sent, Uploads, Download, Downloads, IsHttp
<1>11. QED
  BY <1>4, <1>6, <1>8, <1>9, <1>10, UploadStep

LEMMA ReadTask ==
  ASSUME NEW t, IsTask(t), t.expect \notin {"done", "none"}, NEW token
  PROVE  /\ IsTask(AfterToken(t, token)) /\ AfterToken(t, token).call = t.call
         /\ AfterToken(t, token).expect # "none"
<1>1. t.expect \in {"count", "op", "text", "params", "graph", "data", "rdf"}
  BY DEF IsTask, Expects
<1>2. \A o : IsTask(OpDone(t, o)) /\ OpDone(t, o).call = t.call /\ OpDone(t, o).expect # "none"
  BY DEF OpDone, IsTask, Expects
<1>3. CASE t.expect = "count"
  BY <1>3 DEF AfterToken, IsTask, Expects
<1>4. CASE t.expect = "op"
  BY <1>4 DEF AfterToken, IsTask, Expects
<1>5. CASE t.expect = "text"
  BY <1>5 DEF AfterToken, IsTask, Expects
<1>6. CASE t.expect = "params"
  BY <1>2, <1>6 DEF AfterToken
<1>7. CASE t.expect = "graph"
  BY <1>7 DEF AfterToken, IsTask, Expects
<1>8. CASE t.expect = "data"
  <2>1. IsTask([t EXCEPT !.op = Append(@, token)])
        /\ [t EXCEPT !.op = Append(@, token)].call = t.call
        /\ [t EXCEPT !.op = Append(@, token)].expect = t.expect
    BY DEF IsTask
  <2>2. QED
    BY <1>2, <1>8, <2>1 DEF AfterToken
<1>9. CASE t.expect = "rdf"
  BY <1>9 DEF AfterToken, IsTask, Expects
<1>10. QED
  BY <1>1, <1>3, <1>4, <1>5, <1>6, <1>7, <1>8, <1>9

(* A step of the update thread that is about the task it runs.                *)
LEMMA StepRunning ==
  ASSUME IInv, ReadToken \/ ReadEnd \/ CommitBatch,
         UNCHANGED <<requestVars, clientVars, portalVars, http, remoteVars>>
  PROVE  IInv'
<1>1. IsSeq(queue) /\ IsTask(running) /\ running # NoTask /\ Tasks /\ Shape
  BY DEF IInv, Shape, StoreShape, ReadToken, ReadEnd, CommitBatch
<1>2. PICK c : c = running.call
  OBVIOUS
<1>3. c \in Calls /\ sent[c].method \in Uploads
  BY <1>1, <1>2 DEF Tasks
<1>4. ~Download(c) /\ ~IsHttp(c)
  BY <1>3 DEF IInv, CallInv, SaysOf, Sent, Uploads, Download, Downloads, IsHttp
<1>5. UNCHANGED <<mail, sent, ask, policy, mru, bindings, sessions, granted, link, floor,
                  disturbed, objects,
                    reply, req, call, http, queue>>
  BY DEF ReadToken, ReadEnd, CommitBatch, requestVars, clientVars, endpointVars, portalVars,
     remoteVars
<1>6. IsSeq(log') /\ Len(log) <= Len(log')
  <2>1. CASE \E d, ops : Committed(d, ops)
    BY <1>1, <2>1, CommitSeq
  <2>2. CASE log' = log
    BY <1>1, <2>2, SeqFacts DEF Shape, StoreShape
  <2>3. QED
    BY <2>1, <2>2 DEF ReadToken, ReadEnd, CommitBatch, Aborted
<1>7. \/ running' = NoTask
      \/ IsTask(running') /\ running'.call = c /\ running'.expect # "none"
  <2>1. CASE ReadToken
    <3>1. running.expect \notin {"done", "none"}
      BY <1>1, <2>1 DEF ReadToken, Tasks
    <3>2. running' = NoTask \/ running' = AfterToken(running, Head(pipe[c].data))
      BY <1>2, <2>1 DEF ReadToken
    <3>3. QED
      BY <1>1, <1>2, <3>1, <3>2, ReadTask
  <2>2. CASE ReadEnd \/ CommitBatch
    BY <2>2 DEF ReadEnd, CommitBatch
  <2>3. QED
    BY <2>1, <2>2
<1>8. IsTask(running')
  BY <1>7 DEF NoTask, IsTask, Expects
<1>9. StoreGoes
  BY <1>1, <1>3, <1>5, <1>6, <1>7, <1>8 DEF StoreGoes, Tasks
<1>10. /\ Fcn(pipe', Calls) /\ IsPipe(pipe'[c])
       /\ \A d \in Calls \ {c} : pipe'[d] = pipe[d]
  <2>1. CASE ReadToken
    <3>1. Fcn(pipe, Calls) /\ IsPipe(pipe[c])
      BY <1>1, <1>3, Shapes
    <3>2. CASE Consumed(c)
      BY <1>1, <1>3, <3>2, PipeMoves
    <3>3. CASE pipe' = [pipe EXCEPT ![c].data = Tail(pipe[c].data), ![c].reader = FALSE]
      BY <1>3, <3>1, <3>3 DEF Fcn, IsPipe
    <3>4. QED
      BY <1>2, <2>1, <3>2, <3>3 DEF ReadToken
  <2>2. CASE ReadEnd \/ CommitBatch
    BY <1>1, <1>2, <1>3, <2>2, PipeMoves DEF ReadEnd, CommitBatch
  <2>3. QED
    BY <2>1, <2>2
<1>11. Touches(c)
  BY <1>1, <1>3, <1>5, <1>10, Shapes DEF Touches, Fcn
<1>12. QED
  BY <1>3, <1>4, <1>5, <1>9, <1>11, UploadStep

(* ---- The rows of a call over D-Bus                                         *)

(* What is known of a call that asks for rows.                                *)
LEMMA DownloadFacts ==
  ASSUME IInv, NEW c \in Calls, Download(c)
  PROVE  /\ SaysOf(c) /\ RequestOf(c) /\ Flow(c) /\ Ends(c) /\ Shape /\ Links /\ LinkShape
         /\ Sent(c) /\ ~IsHttp(c) /\ ask[c].method = sent[c].method
         /\ sent[c].method \in {"query", "serialize"}
         /\ IsSeq(call[c].rows) /\ IsSeq(pipe[c].data)
         /\ Len(call[c].rows) \in Nat /\ Len(pipe[c].data) \in Nat /\ Len(log) \in Nat
         /\ Taken(c) \in Nat /\ Arrived(c) \in Nat /\ req[c].written \in Nat
         /\ InSession(c) => /\ Portaled(c) /\ c \in Asked /\ sent[c].path \in Opened
                            /\ Inner[c] \in Calls \ Asked /\ Inner[c] # c
         /\ ~InSession(c) => sent[c].path = "service"
<1>1. CallInv(c) /\ Shape /\ Links /\ LinkShape
  BY DEF IInv, Shape
<1>2. SaysOf(c) /\ RequestOf(c) /\ Flow(c) /\ Ends(c)
  BY <1>1 DEF CallInv
<1>3. Sent(c) /\ sent[c].method \in {"query", "serialize"}
  BY DEF Download, Downloads, Sent
<1>4. ask[c].method = sent[c].method /\ ~IsHttp(c)
  BY <1>2, <1>3 DEF SaysOf, IsHttp
<1>5. IsSeq(call[c].rows) /\ IsSeq(pipe[c].data) /\ IsSeq(log)
  BY <1>1, <1>2 DEF Shape, CallShape, Flow, StoreShape
<1>6. Len(call[c].rows) \in Nat /\ Len(pipe[c].data) \in Nat /\ Len(log) \in Nat
  BY <1>5, SeqFacts
<1>7. Taken(c) \in Nat /\ Arrived(c) \in Nat
  BY <1>6, TakenNat DEF Arrived
<1>8. req[c].written \in Nat
  BY <1>1 DEF Shape, ReqShape, IsRequest
<1>9. InSession(c) => /\ Portaled(c) /\ c \in Asked /\ sent[c].path \in Opened
                      /\ Inner[c] \in Calls \ Asked /\ Inner[c] # c
  BY <1>1, <1>2, OpenedPaths, InnerOf DEF InSession
<1>10. ~InSession(c) => sent[c].path = "service"
  <2>1. CASE c \in Asked
    BY <1>2, <1>3, <2>1 DEF SaysOf, AskedSays, Place, InSession
  <2>2. CASE c \notin Asked
    <3>1. PICK o \in Calls : Relays(o, c)
      BY <1>2, <1>3, <2>2 DEF SaysOf
    <3>2. QED
      BY <3>1 DEF Relays
  <2>3. QED
    BY <2>1, <2>2
<1>11. QED
  BY <1>1, <1>2, <1>3, <1>4, <1>5, <1>6, <1>7, <1>8, <1>9, <1>10

LEMMA TouchedRows ==
  ASSUME IInv, NEW c \in Calls, Touches(c), Download(c)
  PROVE  /\ \A s, k : Row(c, s, k)' = Row(c, s, k)
         /\ \A k : There(c, k)' <=> There(c, k)
         /\ \A n : Tokens(c, n)' = Tokens(c, n)
         /\ \A s : Since(c, s)' <=> Since(c, s)
         /\ InSession(c) => Len(call[Inner[c]].rows)' = Len(call[Inner[c]].rows)
<1>1. InSession(c) => Inner[c] \in Calls /\ Inner[c] # c
  BY DownloadFacts
<1>2. InSession(c) => call'[Inner[c]] = call[Inner[c]]
  BY <1>1 DEF Touches
<1>3. (InSession(c)' <=> InSession(c)) /\ Want(c)' = Want(c) /\ sent' = sent /\ floor' = floor
  BY TouchedStill DEF Touches
<1>4. \A o : InSession(o)' <=> InSession(o)
  BY TouchedStill
<1>5. QED
  BY <1>1, <1>2, <1>3, <1>4 DEF Row, There, Tokens, Since

(* A step that is about a call that asks for rows, which come from the        *)
(* snapshot s after it.                                                       *)
LEMMA DownloadStep ==
  ASSUME IInv, NEW c \in Calls, Touches(c), UNCHANGED <<queue, running, log>>, Download(c),
         call'[c].phase \in {"idle", "running"} =>
           call'[c].phase = call[c].phase /\ call'[c].rows = call[c].rows
           /\ call'[c].cursor \in {call[c].cursor, "none"},
         http'[c] = http[c],
         call'[c].write \in {call[c].write, "none"},
         (req'[c].phase = req[c].phase /\ reply'[c] = reply[c])
           \/ req[c].phase # "none" \/ reply[c] # "none" \/ Received,
         RequestOf(c)', IsSeq(pipe'[c].data), Ends(c)',
         NEW s \in 0..Len(log), FlowFrom(c, s)'
  PROVE  IInv'
<1>1. SaysOf(c)'
  <2>1. SaysOf(c) /\ Sent(c)
    BY DownloadFacts
  <2>2. QED
    BY <2>1, TouchedSays
<1>2. Flow(c)'
  <2>1. s \in 0..Len(log')
    OBVIOUS
  <2>2. QED
    BY <2>1 DEF Flow
<1>3. CallInv(c)'
  BY <1>1, <1>2, TouchedStill, DownloadFacts DEF CallInv
<1>4. StoreGoes
  BY SeqFacts DEF StoreGoes, IInv, Shape, StoreShape, Tasks, Touches
<1>5. QED
  BY <1>3, <1>4, TouchedStep

(* Reading: a token is taken from the pipe, or the end of the stream is met.  *)
LEMMA Reading ==
  ASSUME IInv, NEW c \in Calls, Download(c), ClientFrame,
         UNCHANGED <<ask, arguments, mail, reply, sent, up>>,
         call[c].cursor \in {"open", "row"},
         NEW cursor, cursor \in {"open", "row", "end"}, NEW rows, Grow(call[c].rows, rows),
         call' = [call EXCEPT ![c] = [call[c] EXCEPT !.cursor = cursor, !.rows = rows]],
         Consumed(c) \/ pipe' = pipe
  PROVE  /\ Touches(c) /\ UNCHANGED <<queue, running, log, http, req, reply, sent, disturbed>>
         /\ call'[c].rows = rows /\ call'[c].cursor = cursor
         /\ call'[c].phase = call[c].phase /\ call'[c].write = call[c].write
         /\ call'[c].cancelled = call[c].cancelled
         /\ call'[c].phase \notin {"idle", "running"} /\ req[c].phase # "executing"
         /\ Consumed(c) => pipe'[c] = [pipe[c] EXCEPT !.data = Tail(@)]
<1>1. Shape /\ SaysOf(c) /\ Ends(c) /\ RequestOf(c) /\ Sent(c)
  BY DownloadFacts
<1>2. IsCall(call[c])
  BY <1>1, Shapes
<1> DEFINE r == [call[c] EXCEPT !.cursor = cursor, !.rows = rows]
<1>3. IsCall(r) /\ r.rows = rows /\ r.cursor = cursor /\ r.phase = call[c].phase
      /\ r.write = call[c].write /\ r.cancelled = call[c].cancelled
  BY <1>2 DEF IsCall
<1> HIDE DEF r
<1>4. /\ Fcn(call', Calls) /\ call'[c] = r
      /\ \A d \in Calls \ {c} : call'[d] = call[d]
  <2>1. call' = [call EXCEPT ![c] = r]
    BY DEF r
  <2>2. QED
    BY <1>1, <1>3, <2>1, CallMoves
<1>5. /\ Fcn(pipe', Calls) /\ IsPipe(pipe'[c])
      /\ \A d \in Calls \ {c} : pipe'[d] = pipe[d]
      /\ Consumed(c) => pipe'[c] = [pipe[c] EXCEPT !.data = Tail(@)]
  BY <1>1, PipeMoves
<1>6. UNCHANGED <<mail, sent, ask, policy, mru, bindings, sessions, granted, link, floor,
                  disturbed, objects,
                    reply, req, http, queue, running, log>>
  BY DEF ClientFrame, endpointVars, requestVars, storeVars, portalVars, remoteVars
<1>7. Touches(c)
  BY <1>1, <1>3, <1>4, <1>5, <1>6, Shapes DEF Touches, Fcn
<1>8. call[c].phase \notin {"idle", "running"} /\ req[c].phase # "executing"
  BY <1>1 DEF SaysOf, Ends, RequestOf
<1>9. QED
  BY <1>3, <1>4, <1>5, <1>6, <1>7, <1>8

LEMMA FlowStays ==
  ASSUME IInv, NEW c \in Calls, Touches(c), Download(c), NEW s, FlowFrom(c, s), req'[c] = req[c],
         pipe'[c].reader => pipe[c].reader /\ Arrived(c)' = Arrived(c) /\ TokensOk(c, s)',
         RowsOk(c, s)'
  PROVE  FlowFrom(c, s)'
<1>1. (InSession(c)' <=> InSession(c)) /\ req[c].written \in Nat
  BY TouchedStill, DownloadFacts
<1>2. req[c].phase \in RowPhases => ServingOk(c, s)'
  <2>1. SUFFICES ASSUME req[c].phase \in RowPhases PROVE ServingOk(c, s)'
    OBVIOUS
  <2>2. ServingOk(c, s)
    BY <2>1 DEF FlowFrom
  <2>3. Produced(c)' = Produced(c)
    BY TouchedRows DEF Produced
  <2>4. QED
    BY <1>1, <2>2, <2>3, TouchedRows DEF ServingOk
<1>3. QED
  BY <1>1, <1>2, TouchedRows DEF FlowFrom

LEMMA RequestStays ==
  ASSUME NEW c \in Calls, Touches(c), RequestOf(c), req'[c] = req[c], pipe'[c].writer = pipe[c].writer,
         Ends(c), call[c].cursor \in {"open", "row", "end"}, reply'[c] = reply[c]
  PROVE  RequestOf(c)'
<1>1. sent' = sent /\ reply[c] = "ok"
  BY DEF Touches, Ends
<1>2. QED
  BY <1>1, TouchedStill DEF RequestOf

(* The first token of the pipe is taken.                                      *)
LEMMA TokenTaken ==
  ASSUME IInv, NEW c \in Calls, Touches(c), Download(c), NEW s, FlowFrom(c, s), pipe[c].reader,
         pipe[c].data # << >>, pipe'[c] = [pipe[c] EXCEPT !.data = Tail(@)],
         Taken(c)' = Taken(c) + 1
  PROVE  /\ Arrived(c)' = Arrived(c) /\ TokensOk(c, s)' /\ IsSeq(pipe'[c].data)
         /\ pipe'[c].reader = pipe[c].reader /\ pipe'[c].writer = pipe[c].writer
         /\ \A k \in Nat : Taken(c) + 1 = Tokens(c, k) =>
              There(c, k) /\ Head(pipe[c].data)[2] = Row(c, s, k)
<1>1. IsPipe(pipe[c]) /\ IsSeq(pipe[c].data) /\ Taken(c) \in Nat
  BY DownloadFacts, Shapes
<1>2. pipe'[c].data = Tail(pipe[c].data) /\ pipe'[c].reader = pipe[c].reader
      /\ pipe'[c].writer = pipe[c].writer
  BY <1>1 DEF IsPipe
<1>3. /\ IsSeq(Tail(pipe[c].data))
      /\ Len(pipe[c].data) \in Nat \ {0} /\ Len(Tail(pipe[c].data)) = Len(pipe[c].data) - 1
      /\ \A k \in 1..Len(Tail(pipe[c].data)) : Tail(pipe[c].data)[k] = pipe[c].data[k + 1]
      /\ Head(pipe[c].data) = pipe[c].data[1]
  BY <1>1, TailSeq
<1>4. DOMAIN pipe[c].data = 1..Len(pipe[c].data)
      /\ DOMAIN Tail(pipe[c].data) = 1..Len(Tail(pipe[c].data))
  BY <1>1, <1>3, SeqFacts
<1>5. Arrived(c)' = Arrived(c)
  <2>1. Arrived(c)' = Taken(c)' + Len(Tail(pipe[c].data))
    BY <1>2 DEF Arrived
  <2>2. Arrived(c)' = (Taken(c) + 1) + (Len(pipe[c].data) - 1)
    BY <1>3, <2>1
  <2>3. QED
    BY <1>1, <1>3, <2>2 DEF Arrived
<1>6. TokensOk(c, s)
  BY DEF FlowFrom
<1>7. TokensOk(c, s)'
  <2>1. SUFFICES ASSUME NEW j \in DOMAIN Tail(pipe[c].data), NEW k \in Nat,
                        Taken(c) + 1 + j = Tokens(c, k)
                 PROVE  There(c, k) /\ Tail(pipe[c].data)[j][2] = Row(c, s, k)
    BY <1>2, TouchedRows DEF TokensOk
  <2>2. j + 1 \in DOMAIN pipe[c].data /\ Tail(pipe[c].data)[j] = pipe[c].data[j + 1]
        /\ Taken(c) + (j + 1) = Tokens(c, k)
    <3>1. j \in 1..Len(Tail(pipe[c].data))
      BY <1>4, <2>1
    <3>2. j \in Nat /\ j + 1 \in 1..Len(pipe[c].data)
      BY <1>3, <3>1
    <3>3. Taken(c) + (j + 1) = Taken(c) + 1 + j
      BY <1>1, <3>2
    <3>4. QED
      BY <1>3, <1>4, <2>1, <3>1, <3>2, <3>3
  <2>3. QED
    BY <1>6, <2>2 DEF TokensOk
<1>8. \A k \in Nat : Taken(c) + 1 = Tokens(c, k) =>
        There(c, k) /\ Head(pipe[c].data)[2] = Row(c, s, k)
  <2>1. 1 \in DOMAIN pipe[c].data
    BY <1>3, <1>4
  <2>2. QED
    BY <1>3, <1>6, <2>1 DEF TokensOk
<1>9. QED
  BY <1>2, <1>3, <1>5, <1>7, <1>8

LEMMA CursorMethod ==
  ASSUME IInv, NEW c \in Calls, call[c].cursor # "none", ask[c].method \in Downloads
  PROVE  Download(c) /\ sent[c].method = ask[c].method
<1>1. SaysOf(c)
  BY DEF IInv, CallInv
<1>2. ~IsHttp(c)
  BY DEF IsHttp, Downloads
<1>3. Download(c)
  BY <1>1, <1>2 DEF SaysOf
<1>4. QED
  BY <1>3, DownloadFacts

(* How a query or a serialization ends is not affected by a step that takes   *)
(* what is there, or that finds the end.                                      *)
LEMMA EndsStay ==
  ASSUME IInv, NEW c \in Calls, Touches(c), Download(c),
         UNCHANGED <<reply, sent, disturbed>>, req'[c] = req[c], Arrived(c)' = Arrived(c) \/ disturbed # {},
         pipe'[c].reader = pipe[c].reader, pipe'[c].writer = pipe[c].writer,
         call'[c].phase # "running", call[c].cursor \in {"open", "row"},
         call'[c].cursor \in {"open", "row", "end"},
         call'[c].cursor = "row" => sent[c].method = "query",
         call'[c].cursor = "end" => pipe'[c].data = << >> /\ ~pipe[c].writer
  PROVE  Ends(c)'
<1>1. Ends(c)
  BY DownloadFacts
<1>2. Arrived(c)' = Arrived(c) => (Total(c)' <=> Total(c))
  BY TouchedRows DEF Total
<1>3. (InSession(c)' <=> InSession(c)) /\ call'[c].cancelled = call[c].cancelled
  BY TouchedStill DEF Touches
<1>4. InSession(c) => call'[Inner[c]].cancelled = call[Inner[c]].cancelled
  BY DownloadFacts DEF Touches
<1>5. QED
  BY <1>1, <1>2, <1>3, <1>4 DEF Ends

(* The last token of a row is taken.                                          *)
LEMMA StepRowTaken ==
  ASSUME IInv, NEW c \in Calls, Download(c), ClientFrame,
         UNCHANGED <<ask, arguments, mail, reply, sent, up>>,
         \/ call[c].cursor = "row"
         \/ call[c].cursor = "open" /\ sent[c].method = "serialize",
         pipe[c].data # <<>>, CursorRow(c, Head(pipe[c].data)[2]), Consumed(c)
  PROVE  IInv'
<1>1. /\ Ends(c) /\ RequestOf(c) /\ Taken(c) \in Nat /\ IsSeq(call[c].rows) /\ Shape
      /\ Len(call[c].rows) \in Nat /\ IsSeq(pipe[c].data) /\ IsCall(call[c])
      /\ sent[c].method \in {"query", "serialize"}
  BY DownloadFacts, Shapes
<1>2. PICK s \in 0..Len(log) : FlowFrom(c, s)
  BY DownloadFacts DEF Flow
<1>3. pipe[c].reader
  BY <1>1 DEF Ends
<1>4. PICK row : row = Head(pipe[c].data)[2]
  OBVIOUS
<1>5. IsSeq(Append(call[c].rows, row))
      /\ Len(Append(call[c].rows, row)) = Len(call[c].rows) + 1
      /\ Append(call[c].rows, row)[Len(call[c].rows) + 1] = row
      /\ \A k \in 1..Len(call[c].rows) : Append(call[c].rows, row)[k] = call[c].rows[k]
  BY <1>1, AppendSeq
<1>6. call' = [call EXCEPT ![c] = [call[c] EXCEPT !.cursor = "open",
                                                  !.rows = Append(call[c].rows, row)]]
  BY <1>1, <1>4, Shapes DEF CursorRow, Fcn
<1>7. /\ Touches(c) /\ UNCHANGED <<queue, running, log, http, req, reply, sent, disturbed>>
      /\ call'[c].rows = Append(call[c].rows, row) /\ call'[c].cursor = "open"
      /\ call'[c].phase = call[c].phase /\ call'[c].write = call[c].write
      /\ call'[c].cancelled = call[c].cancelled
      /\ call'[c].phase \notin {"idle", "running"} /\ req[c].phase # "executing"
      /\ pipe'[c] = [pipe[c] EXCEPT !.data = Tail(@)]
  BY <1>1, <1>6, GrowAppend, Reading
<1>8. Taken(c)' = Taken(c) + 1 /\ Taken(c) + 1 = Tokens(c, Len(call[c].rows) + 1)
  <2>1. CASE sent[c].method = "query"
    <3>1. call[c].cursor = "row"
      BY <2>1
    <3>2. Taken(c) = 2 * Len(call[c].rows) + 1 /\ Taken(c)' = 2 * (Len(call[c].rows) + 1) + 0
      BY <1>5, <1>7, <2>1, <3>1 DEF Taken, Tokens
    <3>3. QED
      BY <1>1, <2>1, <3>2 DEF Tokens
  <2>2. CASE sent[c].method = "serialize"
    <3>1. call[c].cursor = "open"
      BY <1>1, <2>2 DEF Ends
    <3>2. Taken(c) = Len(call[c].rows) + 0 /\ Taken(c)' = (Len(call[c].rows) + 1) + 0
      BY <1>5, <1>7, <2>2, <3>1 DEF Taken, Tokens
    <3>3. QED
      BY <1>1, <2>2, <3>2 DEF Tokens
  <2>3. QED
    BY <1>1, <2>1, <2>2
<1>9. /\ Arrived(c)' = Arrived(c) /\ TokensOk(c, s)' /\ IsSeq(pipe'[c].data)
      /\ pipe'[c].reader = pipe[c].reader /\ pipe'[c].writer = pipe[c].writer
      /\ There(c, Len(call[c].rows) + 1) /\ row = Row(c, s, Len(call[c].rows) + 1)
  <2>1. Len(call[c].rows) + 1 \in Nat
    BY <1>1
  <2>2. QED
    <3>1. \A k \in Nat : Taken(c) + 1 = Tokens(c, k) =>
            There(c, k) /\ Head(pipe[c].data)[2] = Row(c, s, k)
      BY <1>2, <1>3, <1>7, <1>8, TokenTaken
    <3>2. /\ Arrived(c)' = Arrived(c) /\ TokensOk(c, s)' /\ IsSeq(pipe'[c].data)
          /\ pipe'[c].reader = pipe[c].reader /\ pipe'[c].writer = pipe[c].writer
      BY <1>2, <1>3, <1>7, <1>8, TokenTaken
    <3>3. QED
      BY <1>4, <1>8, <2>1, <3>1, <3>2
<1>10. RowsOk(c, s)'
  <2>1. RowsOk(c, s)
    BY <1>2 DEF FlowFrom
  <2>2. SUFFICES ASSUME NEW k \in 1..(Len(call[c].rows) + 1)
                 PROVE  There(c, k) /\ call'[c].rows[k] = Row(c, s, k)
    BY <1>5, <1>7, SeqFacts, TouchedRows DEF RowsOk
  <2>3. CASE k = Len(call[c].rows) + 1
    BY <1>5, <1>7, <1>9, <2>3
  <2>4. CASE k \in 1..Len(call[c].rows)
    <3>1. k \in DOMAIN call[c].rows /\ call'[c].rows[k] = call[c].rows[k]
      BY <1>1, <1>5, <1>7, <2>4, SeqFacts
    <3>2. ~Cut(c, k)
      BY DEF Cut
    <3>3. QED
      BY <2>1, <3>1, <3>2 DEF RowsOk
  <2>5. QED
    BY <1>1, <2>3, <2>4
<1>11. FlowFrom(c, s)'
  BY <1>2, <1>3, <1>7, <1>9, <1>10, FlowStays
<1>12. RequestOf(c)'
  BY <1>1, <1>7, <1>9, RequestStays
<1>13. Ends(c)'
  BY <1>7, <1>9, EndsStay
<1>14. QED
  BY <1>2, <1>7, <1>9, <1>11, <1>12, <1>13, DownloadStep

(* The end of the stream is met where a row may begin.                        *)
LEMMA StepEndMet ==
  ASSUME IInv, NEW c \in Calls, Download(c), ClientFrame,
         UNCHANGED <<ask, arguments, mail, reply, sent, up>>,
         call[c].cursor = "open", EndOfStream(c),
         call' = [call EXCEPT ![c].cursor = "end"], pipe' = pipe
  PROVE  IInv'
<1>1. /\ Ends(c) /\ RequestOf(c) /\ Taken(c) \in Nat /\ IsSeq(call[c].rows) /\ Shape
      /\ Len(call[c].rows) \in Nat /\ IsSeq(pipe[c].data) /\ IsCall(call[c])
  BY DownloadFacts, Shapes
<1>2. PICK s \in 0..Len(log) : FlowFrom(c, s)
  BY DownloadFacts DEF Flow
<1>3. pipe[c].reader
  BY <1>1 DEF Ends
<1>4. [call[c] EXCEPT !.cursor = "end"] =
        [call[c] EXCEPT !.cursor = "end", !.rows = call[c].rows]
  BY <1>1 DEF IsCall
<1>5. call' = [call EXCEPT ![c] = [call[c] EXCEPT !.cursor = "end", !.rows = call[c].rows]]
  BY <1>4
<1>6. /\ Touches(c) /\ UNCHANGED <<queue, running, log, http, req, reply, sent, disturbed>>
      /\ call'[c].rows = call[c].rows /\ call'[c].cursor = "end"
      /\ call'[c].phase = call[c].phase /\ call'[c].write = call[c].write
      /\ call'[c].cancelled = call[c].cancelled
      /\ call'[c].phase \notin {"idle", "running"} /\ req[c].phase # "executing"
  <2>1. pipe' = pipe /\ call[c].cursor = "open" /\ Grow(call[c].rows, call[c].rows)
    BY <1>1, GrowSame
  <2>2. QED
    BY <1>5, <2>1, Reading
<1>7. Taken(c)' = Taken(c) /\ Arrived(c)' = Arrived(c)
  <2>1. pipe' = pipe /\ call[c].cursor = "open" /\ sent' = sent
    BY <1>6
  <2>2. Taken(c)' = Taken(c)
    BY ONLY <1>6, <2>1 DEF Taken, Tokens
  <2>3. QED
    BY <2>1, <2>2 DEF Arrived
<1>8. RowsOk(c, s)'
  <2>1. RowsOk(c, s) /\ pipe' = pipe
    BY <1>2 DEF FlowFrom
  <2>2. \A k : Cut(c, k) => Cut(c, k)'
    BY <1>6, <2>1 DEF Cut
  <2>3. QED
    BY <1>6, <2>1, <2>2, TouchedRows DEF RowsOk
<1>9. TokensOk(c, s)'
  <2>1. TokensOk(c, s) /\ pipe' = pipe
    BY <1>2, <1>3 DEF FlowFrom
  <2>2. QED
    BY <1>6, <1>7, <2>1, TouchedRows DEF TokensOk
<1>10. FlowFrom(c, s)'
  BY <1>2, <1>3, <1>6, <1>7, <1>8, <1>9, FlowStays
<1>11. RequestOf(c)'
  BY <1>1, <1>6, RequestStays
<1>12. Ends(c)'
  BY <1>6, <1>7, EndsStay DEF EndOfStream
<1>13. QED
  BY <1>1, <1>2, <1>6, <1>10, <1>11, <1>12, DownloadStep

LEMMA StepCursorNext ==
  ASSUME IInv, NEW c \in Calls, CursorNext(c), ClientFrame
  PROVE  IInv'
<1>1. Download(c) /\ sent[c].method = "query"
  BY CursorMethod DEF CursorNext, Downloads
<1>2. /\ Ends(c) /\ RequestOf(c) /\ Taken(c) \in Nat /\ IsSeq(call[c].rows) /\ Shape
      /\ Len(call[c].rows) \in Nat /\ IsSeq(pipe[c].data) /\ IsCall(call[c])
  BY <1>1, DownloadFacts, Shapes
<1>3. PICK s \in 0..Len(log) : FlowFrom(c, s)
  BY <1>1, DownloadFacts DEF Flow
<1>4. pipe[c].reader
  BY <1>2 DEF CursorNext, Ends
<1>5. UNCHANGED <<ask, arguments, mail, reply, sent, up>>
  BY DEF CursorNext
<1>6. CASE /\ call[c].cursor = "open" /\ pipe[c].data # <<>>
           /\ call' = [call EXCEPT ![c].cursor = "row"]
           /\ Consumed(c)
  <2>1. [call[c] EXCEPT !.cursor = "row"] =
          [call[c] EXCEPT !.cursor = "row", !.rows = call[c].rows]
    BY <1>2 DEF IsCall
  <2>2. call' = [call EXCEPT ![c] = [call[c] EXCEPT !.cursor = "row", !.rows = call[c].rows]]
    BY <1>6, <2>1
  <2>3. /\ Touches(c) /\ UNCHANGED <<queue, running, log, http, req, reply, sent, disturbed>>
        /\ call'[c].rows = call[c].rows /\ call'[c].cursor = "row"
        /\ call'[c].phase = call[c].phase /\ call'[c].write = call[c].write
        /\ call'[c].cancelled = call[c].cancelled
        /\ call'[c].phase \notin {"idle", "running"} /\ req[c].phase # "executing"
        /\ pipe'[c] = [pipe[c] EXCEPT !.data = Tail(@)]
    BY <1>1, <1>2, <1>5, <1>6, <2>2, GrowSame, Reading
  <2>4. Taken(c)' = Taken(c) + 1
    <3>1. Tokens(c, Len(call[c].rows)) \in Nat
      BY <1>2 DEF Tokens
    <3>2. QED
      BY <1>6, <2>3, <3>1 DEF Taken, Tokens
  <2>5. /\ Arrived(c)' = Arrived(c) /\ TokensOk(c, s)' /\ IsSeq(pipe'[c].data)
        /\ pipe'[c].reader = pipe[c].reader /\ pipe'[c].writer = pipe[c].writer
    BY <1>1, <1>3, <1>4, <1>6, <2>3, <2>4, TokenTaken
  <2>6. RowsOk(c, s)'
    BY <1>1, <1>3, <1>6, <2>3, TouchedRows DEF FlowFrom, RowsOk, Cut
  <2>7. FlowFrom(c, s)'
    BY <1>1, <1>3, <2>3, <2>5, <2>6, FlowStays
  <2>8. RequestOf(c)'
    BY <1>2, <1>6, <2>3, <2>5, RequestStays
  <2>9. Ends(c)'
    BY <1>1, <1>6, <2>3, <2>5, EndsStay
  <2>10. QED
    BY <1>1, <1>3, <2>3, <2>5, <2>7, <2>8, <2>9, DownloadStep
<1>7. CASE /\ call[c].cursor = "open" /\ EndOfStream(c)
           /\ call' = [call EXCEPT ![c].cursor = "end"]
           /\ UNCHANGED pipe
  BY <1>1, <1>5, <1>7, StepEndMet
<1>8. CASE /\ call[c].cursor = "row" /\ pipe[c].data # <<>>
           /\ CursorRow(c, Head(pipe[c].data)[2])
           /\ Consumed(c)
  BY <1>1, <1>2, <1>3, <1>4, <1>5, <1>8, StepRowTaken
<1>9. CASE /\ call[c].cursor = "row" /\ EndOfStream(c)
           /\ CursorRow(c, UnboundRow)
           /\ UNCHANGED pipe
  <2>1. IsSeq(Append(call[c].rows, UnboundRow))
        /\ Len(Append(call[c].rows, UnboundRow)) = Len(call[c].rows) + 1
        /\ Append(call[c].rows, UnboundRow)[Len(call[c].rows) + 1] = UnboundRow
        /\ \A k \in 1..Len(call[c].rows) : Append(call[c].rows, UnboundRow)[k] = call[c].rows[k]
    BY <1>2, AppendSeq
  <2>2. call' = [call EXCEPT ![c] = [call[c] EXCEPT !.cursor = "open",
                                                    !.rows = Append(call[c].rows, UnboundRow)]]
    BY <1>9, <1>2, Shapes DEF CursorRow, Fcn
  <2>3. /\ Touches(c) /\ UNCHANGED <<queue, running, log, http, req, reply, sent, disturbed>>
        /\ call'[c].rows = Append(call[c].rows, UnboundRow) /\ call'[c].cursor = "open"
        /\ call'[c].phase = call[c].phase /\ call'[c].write = call[c].write
        /\ call'[c].cancelled = call[c].cancelled
        /\ call'[c].phase \notin {"idle", "running"} /\ req[c].phase # "executing"
    <3>1. pipe' = pipe /\ call[c].cursor = "row"
          /\ Grow(call[c].rows, Append(call[c].rows, UnboundRow))
      BY <1>2, <1>9, GrowAppend
    <3>2. QED
      BY <1>1, <1>5, <2>2, <3>1, Reading
  <2>4. disturbed # {}
    <3>1. SUFFICES ASSUME disturbed = {} PROVE FALSE
      OBVIOUS
    <3>2. Total(c)
      BY <1>2, <1>4, <1>9, <3>1 DEF Ends, EndOfStream
    <3>3. Len(pipe[c].data) = 0 /\ Taken(c) = 2 * Len(call[c].rows) + 1
      BY <1>1, <1>2, <1>9 DEF EndOfStream, Taken, Tokens
    <3>4. 2 * Len(call[c].rows) + 1 = 2 * RowCount
      BY <1>1, <1>2, <3>2, <3>3 DEF Total, Arrived, Tokens
    <3>5. QED
      BY <1>2, <3>4, SitesAssumption
  <2>5. pipe' = pipe /\ pipe[c].data = << >> /\ ~pipe[c].writer
    BY <1>9 DEF EndOfStream
  <2>6. RowsOk(c, s)'
    <3>1. RowsOk(c, s)
      BY <1>3 DEF FlowFrom
    <3>2. SUFFICES ASSUME NEW k \in 1..(Len(call[c].rows) + 1)
                   PROVE  \/ There(c, k) /\ call'[c].rows[k] = Row(c, s, k)
                          \/ call'[c].rows[k] = UnboundRow /\ Cut(c, k)'
      BY <1>1, <2>1, <2>3, SeqFacts, TouchedRows DEF RowsOk
    <3>3. CASE k = Len(call[c].rows) + 1
      BY <2>1, <2>3, <2>4, <2>5, <3>3 DEF Cut
    <3>4. CASE k \in 1..Len(call[c].rows)
      <4>1. k \in DOMAIN call[c].rows /\ call'[c].rows[k] = call[c].rows[k]
        BY <1>2, <2>1, <2>3, <3>4, SeqFacts
      <4>2. ~Cut(c, k)
        BY <1>9 DEF Cut
      <4>3. QED
        BY <3>1, <4>1, <4>2 DEF RowsOk
    <3>5. QED
      BY <1>2, <3>3, <3>4
  <2>7. TokensOk(c, s)'
    BY <2>5 DEF TokensOk
  <2>8. req[c].phase \notin RowPhases
    BY <1>2, <2>5 DEF RequestOf
  <2>9. FlowFrom(c, s)'
    BY <1>1, <1>3, <2>3, <2>6, <2>7, <2>8, TouchedRows, TouchedStill DEF FlowFrom
  <2>10. RequestOf(c)'
    BY <1>2, <1>9, <2>3, <2>5, RequestStays
  <2>11. Ends(c)'
    BY <1>1, <1>9, <2>3, <2>4, <2>5, EndsStay
  <2>12. QED
    BY <1>1, <1>2, <1>3, <2>3, <2>5, <2>9, <2>10, <2>11, DownloadStep
<1>10. QED
  BY <1>6, <1>7, <1>8, <1>9 DEF CursorNext

LEMMA StepStreamRead ==
  ASSUME IInv, NEW c \in Calls, StreamRead(c), ClientFrame
  PROVE  IInv'
<1>1. Download(c) /\ sent[c].method = "serialize"
  BY CursorMethod DEF StreamRead, Downloads
<1>2. UNCHANGED <<ask, arguments, mail, reply, sent, up>> /\ call[c].cursor = "open"
  BY DEF StreamRead
<1>3. CASE pipe[c].data # <<>> /\ CursorRow(c, Head(pipe[c].data)[2]) /\ Consumed(c)
  BY <1>1, <1>2, <1>3, StepRowTaken
<1>4. CASE EndOfStream(c) /\ call' = [call EXCEPT ![c].cursor = "end"] /\ pipe' = pipe
  BY <1>1, <1>2, <1>4, StepEndMet
<1>5. QED
  BY <1>3, <1>4 DEF StreamRead

(* The answer of a query or a serialization: the rows can be read, or the     *)
(* pipe is given up.                                                          *)
LEMMA StepAnswered ==
  ASSUME IInv, NEW c \in Calls, ReceiveReply(c), ReceiveCursor(c) \/ ReceiveStream(c), ClientFrame
  PROVE  IInv'
<1>1. SaysOf(c) /\ RequestOf(c) /\ Shape /\ IsCall(call[c])
  BY Shapes DEF IInv, CallInv
<1>2. UNCHANGED <<mail, sent, ask, policy, mru, bindings, sessions, granted, link, floor,
                  disturbed, objects,
                    reply, req, http, queue, running, log>>
  BY DEF ReceiveReply, ClientFrame, endpointVars, requestVars, portalVars, remoteVars, storeVars
<1>3. /\ call[c].phase = "running" /\ ask[c].method \in Downloads
      /\ reply[c] # "none" \/ call[c].cancelled
      /\ call' = [call EXCEPT ![c].dbus = Answer(c), ![c].phase = "done",
                ![c].result = Answer(c),
                ![c].cursor = IF Failed(Answer(c)) THEN "none" ELSE "open"]
      /\ IF Failed(Answer(c)) THEN ReaderClosed(c) ELSE pipe' = pipe
  BY DEF ReceiveCursor, ReceiveStream, AnswerArrives, Downloads
<1>4. /\ Fcn(call', Calls) /\ IsCall(call'[c])
      /\ \A d \in Calls \ {c} : call'[d] = call[d]
      /\ call'[c].rows = call[c].rows /\ call'[c].phase = "done"
      /\ call'[c].cancelled = call[c].cancelled /\ call'[c].write = call[c].write
      /\ call'[c].cursor = IF Failed(Answer(c)) THEN "none" ELSE "open"
  <2>1. Fcn(call, Calls)
    BY <1>1, Shapes
  <2>2. QED
    BY ONLY <1>1, <1>3, <2>1, c \in Calls DEF IsCall, Fcn
<1>5. /\ Fcn(pipe', Calls) /\ IsPipe(pipe'[c])
      /\ \A d \in Calls \ {c} : pipe'[d] = pipe[d]
      /\ pipe'[c].data = pipe[c].data /\ pipe'[c].writer = pipe[c].writer
      /\ pipe'[c].reader = (pipe[c].reader /\ ~Failed(Answer(c)))
  <2>1. IsPipe(pipe[c])
    BY <1>1, Shapes
  <2>2. CASE ReaderClosed(c) /\ Failed(Answer(c))
    <3>1. /\ Fcn(pipe', Calls) /\ IsPipe(pipe'[c]) /\ pipe'[c].data = pipe[c].data
          /\ \A d \in Calls \ {c} : pipe'[d] = pipe[d]
          /\ ~pipe'[c].reader /\ pipe'[c].writer = pipe[c].writer
      <4>1. pipe'[c] = [pipe[c] EXCEPT !.reader = FALSE]
        BY <1>1, <2>2, PipeMoves
      <4>2. ~pipe'[c].reader /\ pipe'[c].writer = pipe[c].writer
        BY ONLY <2>1, <4>1 DEF IsPipe
      <4>3. QED
        BY <1>1, <2>2, <4>2, PipeCloses
    <3>2. QED
      BY ONLY <2>1, <2>2, <3>1 DEF IsPipe
  <2>3. CASE pipe' = pipe /\ ~Failed(Answer(c))
    BY <1>1, <2>1, <2>3, PipeMoves DEF IsPipe
  <2>4. QED
    BY <1>3, <2>2, <2>3
<1>6. Touches(c)
  <2>1. Fcn(reply, Calls) /\ Fcn(req, Calls) /\ Fcn(http, Calls) /\ IsRequest(req[c])
        /\ IsExchange(http[c]) /\ Grow(call[c].rows, call[c].rows)
    BY <1>1, Shapes
  <2>2. QED
    BY ONLY <1>2, <1>4, <1>5, <2>1 DEF Touches, Fcn
<1>7. call[c].rows = << >> /\ call[c].cursor = "none"
  BY <1>1, <1>3 DEF SaysOf
<1>8. CASE ~Download(c)
  <2>1. ~IsHttp(c) /\ ~Sent(c)
    BY <1>1, <1>3, <1>8 DEF IsHttp, SaysOf, Download, Downloads
  <2>2. Failed(Answer(c))
    BY <1>1, <1>3, <2>1 DEF SaysOf, Answer, Failed
  <2>3. StoreGoes
    BY <1>2, StoreStays DEF ReceiveReply, ClientFrame
  <2>4. QED
    BY <1>2, <1>4, <1>6, <1>8, <2>1, <2>2, <2>3, UploadStep
<1>9. CASE Download(c)
  <2>1. PICK s \in 0..Len(log) : FlowFrom(c, s)
    BY <1>9, DownloadFacts DEF Flow
  <2>2. Ends(c) /\ IsSeq(pipe[c].data)
    BY <1>9, DownloadFacts
  <2>3. pipe[c].reader
    BY <1>3, <2>2 DEF Ends
  <2>4. ~Failed(Answer(c)) => reply[c] = "ok"
    BY DEF Failed, Answer
  <2>5. Taken(c)' = Taken(c) /\ Arrived(c)' = Arrived(c)
    BY ONLY <1>2, <1>4, <1>5, <1>7 DEF Taken, Tokens, Arrived
  <2>6. RowsOk(c, s)'
    BY ONLY <1>4, <1>7 DEF RowsOk
  <2>7. TokensOk(c, s)'
    <3>1. TokensOk(c, s)
      BY <2>1, <2>3 DEF FlowFrom
    <3>2. QED
      BY <1>5, <1>6, <1>9, <2>5, <3>1, TouchedRows DEF TokensOk
  <2>8. FlowFrom(c, s)'
    BY <1>2, <1>5, <1>6, <1>9, <2>1, <2>3, <2>5, <2>6, <2>7, FlowStays
  <2>9. RequestOf(c)'
    <3>1. (Download(c) /\ reply[c] = "none" /\ req[c].phase \in {"none", "executing"} =>
             Waiting(c))'
      BY <1>1, <1>2, <1>4, <1>5, <1>9, <2>4 DEF RequestOf, Waiting
    <3>2. QED
      BY ONLY <1>1, <1>2, <1>4, <1>5, <1>6, <3>1, TouchedStill, c \in Calls DEF RequestOf
  <2>10. Ends(c)'
    <3>1. (Total(c)' <=> Total(c))
      BY <1>6, <1>9, <2>5, TouchedRows DEF Total
    <3>2. InSession(c)' <=> InSession(c)
      BY <1>6, TouchedStill
    <3>3. InSession(c) => call'[Inner[c]].cancelled = call[Inner[c]].cancelled
      BY <1>6, <1>9, DownloadFacts DEF Touches
    <3>4. call'[c].cursor \in {"none", "open"} /\ (call'[c].cursor = "open" => ~Failed(Answer(c)))
      BY <1>4
    <3>5. QED
      BY ONLY <1>2, <1>4, <1>5, <2>2, <2>3, <2>4, <3>1, <3>2, <3>3, <3>4 DEF Ends
  <2>11. QED
    BY <1>2, <1>4, <1>5, <1>6, <1>9, <2>1, <2>2, <2>8, <2>9, <2>10, DownloadStep
<1>10. QED
  BY <1>8, <1>9

LEMMA StepCloseCursor ==
  ASSUME IInv, NEW c \in Calls, CloseCursor(c), ~IsHttp(c), ClientFrame
  PROVE  IInv'
<1>1. SaysOf(c) /\ RequestOf(c) /\ Shape /\ IsCall(call[c])
  BY Shapes DEF IInv, CallInv
<1>2. UNCHANGED <<mail, sent, ask, policy, mru, bindings, sessions, granted, link, floor,
                  disturbed, objects,
                    reply, req, http, queue, running, log>>
  BY DEF CloseCursor, ClientFrame, endpointVars, requestVars, portalVars, remoteVars, storeVars
<1>3. /\ call[c].cursor \in {"open", "row", "end"}
      /\ call' = [call EXCEPT ![c].cursor = "closed"]
      /\ ReaderClosed(c)
  BY DEF CloseCursor
<1>4. Download(c)
  BY <1>1, <1>3 DEF SaysOf
<1>5. /\ Fcn(call', Calls) /\ IsCall(call'[c])
      /\ \A d \in Calls \ {c} : call'[d] = call[d]
      /\ call'[c].rows = call[c].rows /\ call'[c].phase = call[c].phase
      /\ call'[c].cancelled = call[c].cancelled /\ call'[c].write = call[c].write
      /\ call'[c].cursor = "closed"
  <2>1. Fcn(call, Calls)
    BY <1>1, Shapes
  <2>2. QED
    BY ONLY <1>1, <1>3, <2>1, c \in Calls DEF IsCall, Fcn
<1>6. /\ Fcn(pipe', Calls) /\ IsPipe(pipe'[c])
      /\ \A d \in Calls \ {c} : pipe'[d] = pipe[d]
      /\ pipe'[c].data = pipe[c].data /\ pipe'[c].writer = pipe[c].writer
      /\ ~pipe'[c].reader
  <2>1. IsPipe(pipe[c])
    BY <1>1, Shapes
  <2>2. /\ Fcn(pipe', Calls) /\ IsPipe(pipe'[c])
        /\ \A d \in Calls \ {c} : pipe'[d] = pipe[d]
        /\ pipe'[c] = [pipe[c] EXCEPT !.reader = FALSE]
    BY <1>1, <1>3, PipeMoves
  <2>3. QED
    BY ONLY <2>1, <2>2 DEF IsPipe
<1>7. Touches(c)
  <2>1. Fcn(reply, Calls) /\ Fcn(req, Calls) /\ Fcn(http, Calls) /\ IsRequest(req[c])
        /\ IsExchange(http[c]) /\ Grow(call[c].rows, call[c].rows)
    BY <1>1, Shapes
  <2>2. QED
    BY ONLY <1>2, <1>5, <1>6, <2>1 DEF Touches, Fcn
<1>8. PICK s \in 0..Len(log) : FlowFrom(c, s)
  BY <1>4, DownloadFacts DEF Flow
<1>9. Ends(c) /\ IsSeq(pipe[c].data)
  BY <1>4, DownloadFacts
<1>10. reply[c] = "ok" /\ call[c].phase # "running" /\ req[c].phase # "executing"
       /\ call[c].phase \notin {"idle", "running"}
  BY <1>1, <1>3, <1>9 DEF Ends, SaysOf, RequestOf
<1>11. RowsOk(c, s)'
  <2>1. RowsOk(c, s)
    BY <1>8 DEF FlowFrom
  <2>2. \A k : Cut(c, k) => Cut(c, k)'
    BY <1>2, <1>5, <1>6 DEF Cut
  <2>3. QED
    BY <1>4, <1>5, <1>7, <2>1, <2>2, TouchedRows DEF RowsOk
<1>12. FlowFrom(c, s)'
  BY <1>2, <1>4, <1>6, <1>7, <1>8, <1>11, FlowStays
<1>13. RequestOf(c)'
  BY <1>1, <1>2, <1>3, <1>6, <1>7, <1>9, RequestStays
<1>14. Ends(c)'
  BY ONLY <1>2, <1>5, <1>6, <1>9, <1>10 DEF Ends
<1>15. QED
  BY <1>2, <1>4, <1>5, <1>6, <1>7, <1>8, <1>9, <1>10, <1>12, <1>13, <1>14, DownloadStep

(* ---- The endpoints pass rows on                                            *)

ServiceFrame == UNCHANGED <<clientVars, portalVars, http, remoteVars>>

(* The statement was executed: its answer, or an error that gives it up.      *)
LEMMA StepStmtExecuted ==
  ASSUME IInv, NEW c \in Calls, NEW error, StmtExecuted(c, error), ServiceFrame,
         error # "ok"
  PROVE  IInv'
<1>1. At(c, "executing") /\ RequestOf(c) /\ Shape /\ IsRequest(req[c]) /\ IsPipe(pipe[c])
  BY Shapes DEF IInv, CallInv, StmtExecuted, StmtExecuteCb, StmtSerializeCb, StmtEnded
<1>2. UNCHANGED <<mail, sent, ask, policy, mru, bindings, sessions, granted, link, floor,
                  disturbed, objects,
                    call, http, queue, running, log>>
  BY DEF StmtExecuted, StmtExecuteCb, StmtSerializeCb, StmtEnded, ServiceFrame, clientVars,
     endpointVars, portalVars, remoteVars, storeVars
<1>3. Download(c) /\ reply[c] = "none" /\ req[c].written = 0 /\ pipe[c].data = << >>
      /\ call[c].rows = << >> /\ call[c].cursor = "none" /\ pipe[c].writer
  BY <1>1 DEF RequestOf, Waiting, At
<1>4. PICK s \in 0..Len(log) : FlowFrom(c, s)
  BY <1>3, DownloadFacts DEF Flow
<1>5. Ends(c) /\ Sent(c) /\ sent[c].method \in {"query", "serialize"}
  BY <1>3, DownloadFacts
<1>6. PICK answer :
        /\ Answered(c, answer)
        /\ \/ answer \notin {"none", "ok"} /\ Moved(c, "freed") /\ WriterClosed(c)
           \/ /\ answer = "ok" /\ ~req[c].cancelled /\ pipe' = pipe
              /\ sent[c].method = "query" => Moved(c, "serving")
              /\ sent[c].method = "serialize" => Moved(c, "splicing")
  <2>1. PICK method, phase : /\ StmtEnded(c, method, error, phase) /\ sent[c].method = method
                             /\ method = "query" => phase = "serving"
                             /\ method = "serialize" => phase = "splicing"
    BY DEF StmtExecuted, StmtExecuteCb, StmtSerializeCb, StmtEnded
  <2>2. PICK failure : /\ failure = (IF req[c].cancelled THEN "cancelled" ELSE error)
                       /\ IF failure # "none" THEN StmtFailed(c, failure)
                          ELSE Answered(c, "ok") /\ Moved(c, phase) /\ pipe' = pipe
    BY <2>1 DEF StmtEnded
  <2>3. CASE failure # "none"
    <3>1. StmtFailed(c, failure) /\ failure # "ok"
      BY <2>2, <2>3
    <3>2. QED
      BY <2>3, <3>1 DEF StmtFailed
  <2>4. CASE failure = "none"
    <3>1. Answered(c, "ok") /\ Moved(c, phase) /\ pipe' = pipe /\ ~req[c].cancelled
      BY <2>2, <2>4
    <3>2. /\ sent[c].method = "query" => Moved(c, "serving")
          /\ sent[c].method = "serialize" => Moved(c, "splicing")
      BY <2>1, <3>1
    <3>3. QED
      BY <3>1, <3>2
  <2>5. QED
    BY <2>3, <2>4
<1>7. Fcn(reply', Calls) /\ reply'[c] = answer /\ \A d \in Calls \ {c} : reply'[d] = reply[d]
  BY <1>1, <1>3, <1>6, ReplyMoves
<1>8. PICK phase : /\ phase \in {"freed", "serving", "splicing"}
                   /\ Moved(c, phase) /\ (phase = "freed" <=> answer # "ok")
                   /\ phase = "serving" => sent[c].method = "query"
                   /\ phase = "splicing" => sent[c].method = "serialize"
  BY <1>5, <1>6
<1>9. /\ Fcn(req', Calls) /\ IsRequest(req'[c])
      /\ \A d \in Calls \ {c} : req'[d] = req[d]
      /\ req'[c].phase = phase /\ req'[c].written = 0 /\ req'[c].cancelled = req[c].cancelled
      /\ req'[c].text = req[c].text /\ req'[c].args = req[c].args /\ req'[c].host = req[c].host
  <2>1. Fcn(req, Calls)
    BY <1>1, Shapes
  <2>2. QED
    BY ONLY <1>1, <1>3, <1>8, <2>1, c \in Calls DEF IsRequest, Fcn, Moved
<1>10. /\ Fcn(pipe', Calls) /\ IsPipe(pipe'[c])
       /\ \A d \in Calls \ {c} : pipe'[d] = pipe[d]
       /\ pipe'[c].data = pipe[c].data /\ pipe'[c].reader = pipe[c].reader
       /\ pipe'[c].writer = (answer = "ok")
  <2>1. CASE WriterClosed(c) /\ answer # "ok"
    <3>1. IsPipe(pipe[c])
      BY <1>1, Shapes
    <3>2. pipe'[c] = [pipe[c] EXCEPT !.writer = FALSE]
      BY <1>1, <2>1, PipeMoves
    <3>3. ~pipe'[c].writer /\ pipe'[c].reader = pipe[c].reader
      BY ONLY <3>1, <3>2 DEF IsPipe
    <3>4. /\ Fcn(pipe', Calls) /\ IsPipe(pipe'[c]) /\ pipe'[c].data = pipe[c].data
          /\ \A d \in Calls \ {c} : pipe'[d] = pipe[d]
      BY <1>1, <2>1, PipeCloses
    <3>5. QED
      BY ONLY <2>1, <3>3, <3>4 DEF IsPipe
  <2>2. CASE pipe' = pipe /\ answer = "ok"
    BY <1>1, <1>3, <2>2, PipeMoves DEF IsPipe
  <2>3. QED
    BY <1>6, <2>1, <2>2
<1>11. Touches(c)
  <2>1. Fcn(call, Calls) /\ Fcn(http, Calls) /\ IsCall(call[c])
        /\ IsExchange(http[c]) /\ Grow(call[c].rows, call[c].rows)
    BY <1>1, Shapes
  <2>2. QED
    BY ONLY <1>2, <1>7, <1>9, <1>10, <2>1 DEF Touches, Fcn
<1>12. RowsOk(c, s)' /\ TokensOk(c, s)'
  BY ONLY <1>2, <1>3, <1>10 DEF RowsOk, TokensOk
<1>13. FlowFrom(c, s)'
  <2>1. (InSession(c)' <=> InSession(c)) /\ (~InSession(c) => Since(c, s)')
    BY <1>3, <1>4, <1>11, TouchedStill, TouchedRows DEF FlowFrom
  <2>2. Arrived(c)' = 0 /\ (phase # "freed" => Produced(c)' = 0)
    BY ONLY <1>2, <1>3, <1>8, <1>9, <1>10 DEF Arrived, Taken, Tokens, Produced
  <2>3. InSession(c) => Len(call'[Inner[c]].rows) \in Nat
    <3>1. \A d \in Calls : Len(call[d].rows) \in Nat
      BY <1>1, SeqFacts, Shapes
    <3>2. QED
      BY <1>2, <1>3, <3>1, DownloadFacts
  <2>4. phase # "freed" => ServingOk(c, s)'
    BY ONLY <1>8, <1>9, <2>1, <2>2, <2>3, SitesAssumption DEF ServingOk
  <2>5. QED
    BY ONLY <1>8, <1>9, <1>12, <2>1, <2>4 DEF FlowFrom, RowPhases
<1>14. RequestOf(c)'
  <2>1. sent' = sent
    BY <1>2
  <2>2. answer = "ok" <=> pipe'[c].writer
    BY <1>10
  <2>3. QED
    BY ONLY <1>1, <1>3, <1>8, <1>9, <1>11, <2>1, <2>2, TouchedStill, c \in Calls
       DEF RequestOf, UploadPhases, RowPhases, At
<1>15. Ends(c)'
  <2>1. InSession(c)' <=> InSession(c)
    BY <1>11, TouchedStill
  <2>2. call' = call /\ disturbed' = disturbed
    BY <1>2
  <2>3. reply'[c] = "ok" <=> pipe'[c].writer
    BY <1>7, <1>10
  <2>4. QED
    BY ONLY <1>1, <1>3, <1>5, <1>7, <1>8, <1>9, <1>10, <2>1, <2>2, <2>3 DEF Ends, RowPhases, At
<1>16. QED
  <2>1. call'[c] = call[c] /\ http' = http /\ IsSeq(pipe'[c].data) /\ req[c].phase # "none"
    BY <1>1, <1>2, <1>3, <1>10, DownloadFacts DEF At
  <2>2. call'[c].phase \in {"idle", "running"} =>
           call'[c].phase = call[c].phase /\ call'[c].rows = call[c].rows
           /\ call'[c].cursor \in {call[c].cursor, "none"}
    BY <2>1
  <2>3. QED
    BY <1>2, <1>3, <1>4, <1>11, <1>13, <1>14, <1>15, <2>1, <2>2, DownloadStep

(* What a step of the thread that writes rows leaves alone.                   *)
LEMMA WriterFrame ==
  ASSUME IInv, NEW c \in Calls, ServiceFrame,
         UNCHANGED <<mail, reply, sent, up, storeVars, endpointVars, objects>>,
         Fcn(pipe', Calls), IsPipe(pipe'[c]), \A d \in Calls \ {c} : pipe'[d] = pipe[d],
         Fcn(req', Calls), IsRequest(req'[c]), \A d \in Calls \ {c} : req'[d] = req[d]
  PROVE  Touches(c) /\ UNCHANGED <<queue, running, log, http, call, reply, sent, disturbed>>
<1>1. UNCHANGED <<mail, sent, ask, policy, mru, bindings, sessions, granted, link, floor,
                  disturbed, objects,
                    call, http, reply, queue, running, log>>
  BY DEF ServiceFrame, clientVars, endpointVars, portalVars, remoteVars, storeVars
<1>2. Fcn(call, Calls) /\ Fcn(http, Calls) /\ Fcn(reply, Calls) /\ IsCall(call[c])
      /\ IsExchange(http[c]) /\ Grow(call[c].rows, call[c].rows)
  BY Shapes DEF IInv
<1>3. Touches(c)
  BY <1>1, <1>2 DEF Touches, Fcn
<1>4. QED
  BY <1>1, <1>3

(* The thread stops: all rows were written, or the other side is gone.        *)
LEMMA StepEnding ==
  ASSUME IInv, NEW c \in Calls, ServiceFrame,
         UNCHANGED <<mail, reply, sent, up, storeVars, endpointVars, objects>>,
         req[c].phase \in RowPhases, Moved(c, "ending"), pipe' = pipe,
         \/ disturbed # {} \/ ~pipe[c].reader
         \/ req[c].phase # "values" /\ req[c].written = RowCount
  PROVE  IInv'
<1>1. RequestOf(c) /\ Shape /\ IsRequest(req[c]) /\ Fcn(req, Calls)
  BY Shapes DEF IInv, CallInv
<1>2. Download(c) /\ req[c].phase # "executing"
  BY <1>1 DEF RequestOf, RowPhases
<1>3. PICK s \in 0..Len(log) : FlowFrom(c, s)
  BY <1>2, DownloadFacts DEF Flow
<1>4. Ends(c) /\ IsSeq(pipe[c].data) /\ SaysOf(c)
  BY <1>2, DownloadFacts
<1>5. /\ Fcn(req', Calls) /\ IsRequest(req'[c])
      /\ \A d \in Calls \ {c} : req'[d] = req[d]
      /\ req'[c].phase = "ending" /\ req'[c].cancelled = req[c].cancelled
      /\ req'[c].host = req[c].host
  BY ONLY <1>1, c \in Calls, Moved(c, "ending") DEF IsRequest, Fcn, Moved
<1>6. Touches(c) /\ UNCHANGED <<queue, running, log, http, call, reply, sent, disturbed>>
  <2>1. Fcn(pipe', Calls) /\ IsPipe(pipe'[c]) /\ \A d \in Calls \ {c} : pipe'[d] = pipe[d]
    BY <1>1, Shapes
  <2>2. QED
    BY <1>5, <2>1, WriterFrame
<1>7. Arrived(c)' = Arrived(c) /\ Taken(c)' = Taken(c)
  BY ONLY <1>6, pipe' = pipe DEF Arrived, Taken, Tokens
<1>8. RowsOk(c, s)'
  <2>1. RowsOk(c, s)
    BY <1>3 DEF FlowFrom
  <2>2. \A k : Cut(c, k) => Cut(c, k)'
    BY ONLY <1>6, pipe' = pipe DEF Cut
  <2>3. QED
    BY <1>2, <1>6, <2>1, <2>2, TouchedRows DEF RowsOk
<1>9. pipe[c].reader => TokensOk(c, s)'
  <2>1. pipe[c].reader => TokensOk(c, s)
    BY <1>3 DEF FlowFrom
  <2>2. QED
    BY <1>2, <1>6, <1>7, <2>1, TouchedRows DEF TokensOk
<1>10. FlowFrom(c, s)'
  <2>1. (InSession(c)' <=> InSession(c)) /\ (~InSession(c) => Since(c, s)')
    BY <1>2, <1>3, <1>6, TouchedStill, TouchedRows DEF FlowFrom
  <2>2. QED
    BY ONLY <1>5, <1>8, <1>9, <2>1, pipe' = pipe DEF FlowFrom, RowPhases
<1>11. RequestOf(c)'
  BY ONLY <1>1, <1>2, <1>5, <1>6, TouchedStill, c \in Calls, req[c].phase \in RowPhases
     DEF RequestOf, UploadPhases, RowPhases
<1>12. Ends(c)'
  <2>1. InSession(c)' <=> InSession(c)
    BY <1>6, TouchedStill
  <2>2. pipe[c].reader /\ disturbed = {} => Total(c)'
    <3>1. SUFFICES ASSUME pipe[c].reader, disturbed = {} PROVE Total(c)'
      OBVIOUS
    <3>2. ServingOk(c, s) /\ req[c].phase # "values" /\ req[c].written = RowCount
      BY <1>3, <3>1 DEF FlowFrom
    <3>3. Arrived(c) = Tokens(c, RowCount) + 0 /\ Tokens(c, RowCount) \in Nat
      BY <3>1, <3>2, SitesAssumption DEF ServingOk, Produced, Tokens
    <3>4. QED
      BY <1>2, <1>6, <1>7, <3>3, TouchedRows DEF Total
  <2>3. req[c].phase \in RowPhases /\ disturbed = {} => reply[c] = "ok"
    BY <1>4 DEF Ends
  <2>4. QED
    BY ONLY <1>4, <1>5, <1>6, <2>1, <2>2, <2>3, pipe' = pipe, req[c].phase \in RowPhases
       DEF Ends, RowPhases
<1>13. QED
  <2>1. call'[c] = call[c] /\ http' = http /\ IsSeq(pipe'[c].data) /\ req[c].phase # "none"
    BY <1>4, <1>6 DEF RowPhases
  <2>2. call'[c].phase \in {"idle", "running"} =>
           call'[c].phase = call[c].phase /\ call'[c].rows = call[c].rows
           /\ call'[c].cursor \in {call[c].cursor, "none"}
    BY <2>1
  <2>3. QED
    BY <1>2, <1>3, <1>6, <1>10, <1>11, <1>12, <2>1, <2>2, DownloadStep

(* A request that ended is freed with its end of the pipe.                    *)
LEMMA StepFreeRequest ==
  ASSUME IInv, NEW c \in Calls, FreeRequest(c), ServiceFrame
  PROVE  IInv'
<1>1. RequestOf(c) /\ Shape /\ IsRequest(req[c]) /\ Fcn(req, Calls) /\ req[c].phase = "ending"
      /\ IsPipe(pipe[c])
  BY Shapes DEF IInv, CallInv, FreeRequest, At
<1>2. Download(c)
  BY <1>1 DEF RequestOf
<1>3. PICK s \in 0..Len(log) : FlowFrom(c, s)
  BY <1>2, DownloadFacts DEF Flow
<1>4. Ends(c) /\ IsSeq(pipe[c].data) /\ SaysOf(c)
  BY <1>2, DownloadFacts
<1>5. /\ Fcn(req', Calls) /\ IsRequest(req'[c])
      /\ \A d \in Calls \ {c} : req'[d] = req[d]
      /\ req'[c].phase = "freed" /\ req'[c].cancelled = req[c].cancelled
  <2>1. Moved(c, "freed")
    BY DEF FreeRequest
  <2>2. QED
    BY ONLY <1>1, c \in Calls, <2>1 DEF IsRequest, Fcn, Moved
<1>6. /\ Fcn(pipe', Calls) /\ IsPipe(pipe'[c])
      /\ \A d \in Calls \ {c} : pipe'[d] = pipe[d]
      /\ pipe'[c].data = pipe[c].data /\ pipe'[c].reader = pipe[c].reader
      /\ ~pipe'[c].writer
  <2>1. /\ Fcn(pipe', Calls) /\ IsPipe(pipe'[c])
        /\ \A d \in Calls \ {c} : pipe'[d] = pipe[d]
        /\ pipe'[c] = [pipe[c] EXCEPT !.writer = FALSE]
    BY <1>1, PipeMoves DEF FreeRequest
  <2>2. QED
    BY ONLY <1>1, <2>1 DEF IsPipe
<1>7. Touches(c) /\ UNCHANGED <<queue, running, log, http, call, reply, sent, disturbed>>
  BY <1>5, <1>6, WriterFrame DEF FreeRequest
<1>8. Arrived(c)' = Arrived(c) /\ Taken(c)' = Taken(c)
  BY ONLY <1>6, <1>7 DEF Arrived, Taken, Tokens
<1>9. RowsOk(c, s)'
  <2>1. RowsOk(c, s)
    BY <1>3 DEF FlowFrom
  <2>2. \A k : Cut(c, k) => Cut(c, k)'
    BY ONLY <1>6, <1>7 DEF Cut
  <2>3. QED
    BY <1>2, <1>7, <2>1, <2>2, TouchedRows DEF RowsOk
<1>10. pipe[c].reader => TokensOk(c, s)'
  <2>1. pipe[c].reader => TokensOk(c, s)
    BY <1>3 DEF FlowFrom
  <2>2. QED
    BY <1>2, <1>6, <1>7, <1>8, <2>1, TouchedRows DEF TokensOk
<1>11. FlowFrom(c, s)'
  <2>1. (InSession(c)' <=> InSession(c)) /\ (~InSession(c) => Since(c, s)')
    BY <1>2, <1>3, <1>7, TouchedStill, TouchedRows DEF FlowFrom
  <2>2. QED
    BY ONLY <1>5, <1>6, <1>9, <1>10, <2>1 DEF FlowFrom, RowPhases
<1>12. RequestOf(c)'
  BY ONLY <1>5 DEF RequestOf, UploadPhases, RowPhases
<1>13. Ends(c)'
  <2>1. InSession(c)' <=> InSession(c)
    BY <1>7, TouchedStill
  <2>2. Total(c)' <=> Total(c)
    BY <1>2, <1>7, <1>8, TouchedRows DEF Total
  <2>3. QED
    BY ONLY <1>1, <1>4, <1>5, <1>6, <1>7, <2>1, <2>2 DEF Ends, RowPhases
<1>14. QED
  <2>1. call'[c] = call[c] /\ http' = http /\ IsSeq(pipe'[c].data) /\ req[c].phase # "none"
    BY <1>1, <1>4, <1>6, <1>7
  <2>2. call'[c].phase \in {"idle", "running"} =>
           call'[c].phase = call[c].phase /\ call'[c].rows = call[c].rows
           /\ call'[c].cursor \in {call[c].cursor, "none"}
    BY <2>1
  <2>3. QED
    BY <1>2, <1>3, <1>7, <1>11, <1>12, <1>13, <2>1, <2>2, DownloadStep

(* A row that may be passed on next: the next one of its snapshot.            *)
NextOf(c, s, row) ==
  /\ FlowFrom(c, s) /\ There(c, req[c].written + 1)
  /\ row = Row(c, s, req[c].written + 1)
  /\ ~InSession(c) => req[c].written < RowCount

(* The thread writes a token and notes what it wrote.                         *)
LEMMA StepWritten ==
  ASSUME IInv, NEW c \in Calls, ServiceFrame,
         UNCHANGED <<mail, reply, sent, up, storeVars, endpointVars, objects>>,
         req[c].phase \in RowPhases, pipe[c].reader, NEW token, Written(c, token),
         NEW s \in 0..Len(log), FlowFrom(c, s),
         NEW phase \in RowPhases, NEW row, NEW written \in Nat, NEW snap,
         req' = [req EXCEPT ![c] = [req[c] EXCEPT !.phase = phase, !.row = row,
                                                  !.written = written, !.snap = snap]],
         \A k \in Nat : Arrived(c) + 1 = Tokens(c, k) => There(c, k) /\ token[2] = Row(c, s, k),
         Arrived(c) + 1 = Tokens(c, written) + (IF phase = "values" THEN 1 ELSE 0),
         phase \in {"serving", "values"} => sent[c].method = "query",
         phase = "splicing" => sent[c].method = "serialize",
         ~InSession(c) /\ written > 0 => snap = s,
         written <= (IF InSession(c) THEN Len(call[Inner[c]].rows) ELSE RowCount),
         phase = "values" =>
           /\ row = {Row(c, s, written + 1)} /\ There(c, written + 1)
           /\ ~InSession(c) => written < RowCount
  PROVE  IInv'
<1>1. RequestOf(c) /\ Shape /\ IsRequest(req[c]) /\ Fcn(req, Calls) /\ IsPipe(pipe[c])
  BY Shapes DEF IInv, CallInv
<1>2. Download(c) /\ pipe[c].writer
  BY <1>1 DEF RequestOf, RowPhases
<1>3. Ends(c) /\ IsSeq(pipe[c].data) /\ SaysOf(c) /\ Taken(c) \in Nat
  BY <1>2, DownloadFacts
<1>4. /\ Fcn(req', Calls) /\ IsRequest(req'[c])
      /\ \A d \in Calls \ {c} : req'[d] = req[d]
      /\ req'[c].phase = phase /\ req'[c].row = row /\ req'[c].written = written
      /\ req'[c].snap = snap /\ req'[c].cancelled = req[c].cancelled
      /\ req'[c].host = req[c].host /\ req'[c].text = req[c].text /\ req'[c].args = req[c].args
  <2> DEFINE r == [req[c] EXCEPT !.phase = phase, !.row = row, !.written = written, !.snap = snap]
  <2>1. /\ IsRequest(r) /\ r.phase = phase /\ r.row = row /\ r.written = written
        /\ r.snap = snap /\ r.cancelled = req[c].cancelled
        /\ r.host = req[c].host /\ r.text = req[c].text /\ r.args = req[c].args
    BY ONLY <1>1, written \in Nat DEF IsRequest
  <2>2. req' = [req EXCEPT ![c] = r]
    OBVIOUS
  <2> HIDE DEF r
  <2>3. QED
    BY ONLY <1>1, <2>1, <2>2, c \in Calls, ReqMoves
<1>5. /\ Fcn(pipe', Calls) /\ IsPipe(pipe'[c])
      /\ \A d \in Calls \ {c} : pipe'[d] = pipe[d]
      /\ pipe'[c].data = Append(pipe[c].data, token) /\ pipe'[c].reader /\ pipe'[c].writer
  <2>1. /\ Fcn(pipe', Calls) /\ IsPipe(pipe'[c])
        /\ \A d \in Calls \ {c} : pipe'[d] = pipe[d]
        /\ pipe'[c] = [pipe[c] EXCEPT !.data = Append(@, token)]
    BY <1>1, PipeMoves
  <2>2. QED
    BY ONLY <1>1, <1>2, <2>1, pipe[c].reader DEF IsPipe
<1>6. Touches(c) /\ UNCHANGED <<queue, running, log, http, call, reply, sent, disturbed>>
  BY <1>4, <1>5, WriterFrame
<1>7. /\ IsSeq(pipe'[c].data) /\ Len(pipe[c].data) \in Nat
      /\ Len(pipe'[c].data) = Len(pipe[c].data) + 1
      /\ pipe'[c].data[Len(pipe[c].data) + 1] = token
      /\ \A j \in 1..Len(pipe[c].data) : pipe'[c].data[j] = pipe[c].data[j]
  BY <1>3, <1>5, AppendSeq
<1>8. Taken(c)' = Taken(c)
  BY ONLY <1>6 DEF Taken, Tokens
<1>9. Arrived(c)' = Arrived(c) + 1
  <2>1. Arrived(c)' = Taken(c) + (Len(pipe[c].data) + 1)
    BY <1>7, <1>8 DEF Arrived
  <2>2. QED
    BY <1>3, <1>7, <2>1 DEF Arrived
<1>10. RowsOk(c, s)'
  <2>1. RowsOk(c, s)
    BY DEF FlowFrom
  <2>2. \A k : ~Cut(c, k)
    BY <1>2 DEF Cut
  <2>3. QED
    BY <1>2, <1>6, <2>1, <2>2, TouchedRows DEF RowsOk
<1>11. TokensOk(c, s)'
  <2>1. SUFFICES ASSUME NEW j \in DOMAIN pipe'[c].data, NEW k \in Nat,
                        Taken(c)' + j = Tokens(c, k)'
                 PROVE  There(c, k)' /\ pipe'[c].data[j][2] = Row(c, s, k)'
    BY DEF TokensOk
  <2>2. /\ (There(c, k)' <=> There(c, k)) /\ Row(c, s, k)' = Row(c, s, k)
        /\ Taken(c) + j = Tokens(c, k)
    BY <1>2, <1>6, <1>8, <2>1, TouchedRows
  <2>3. j \in 1..(Len(pipe[c].data) + 1)
    BY ONLY <1>7, <2>1, SeqFacts
  <2>4. CASE j = Len(pipe[c].data) + 1
    <3>1. Arrived(c) + 1 = Tokens(c, k)
      BY <1>3, <1>7, <2>2, <2>4 DEF Arrived
    <3>2. There(c, k) /\ token[2] = Row(c, s, k)
      BY <2>1, <3>1
    <3>3. QED
      BY <1>7, <2>2, <2>4, <3>2
  <2>5. CASE j \in 1..Len(pipe[c].data)
    <3>1. TokensOk(c, s) /\ j \in DOMAIN pipe[c].data
      BY <1>3, <2>5, SeqFacts DEF FlowFrom
    <3>2. There(c, k) /\ pipe[c].data[j][2] = Row(c, s, k)
      BY <2>1, <2>2, <3>1 DEF TokensOk
    <3>3. QED
      BY <1>7, <2>2, <2>5, <3>2
  <2>6. j = Len(pipe[c].data) + 1 \/ j \in 1..Len(pipe[c].data)
    BY ONLY <1>7, <2>3
  <2>7. QED
    BY ONLY <2>4, <2>5, <2>6
<1>12. ServingOk(c, s)'
  <2>1. Produced(c)' = Arrived(c)'
    <3>1. Produced(c)' = Tokens(c, written) + (IF phase = "values" THEN 1 ELSE 0)
      BY ONLY <1>4, <1>6 DEF Produced, Tokens
    <3>2. QED
      BY <1>9, <3>1
  <2>2. /\ Row(c, s, written + 1)' = Row(c, s, written + 1)
        /\ (There(c, written + 1)' <=> There(c, written + 1))
        /\ InSession(c) => Len(call'[Inner[c]].rows) = Len(call[Inner[c]].rows)
    BY <1>2, <1>6, TouchedRows
  <2>3. InSession(c)' <=> InSession(c)
    BY <1>6, TouchedStill
  <2>4. (~InSession(c) /\ req[c].written > 0 => req[c].snap = s)'
    BY <1>4, <2>3
  <2>5. (req[c].written <= (IF InSession(c) THEN Len(call[Inner[c]].rows) ELSE RowCount))'
    BY <1>4, <2>2, <2>3
  <2>6. (req[c].phase = "values" =>
       /\ req[c].row = {Row(c, s, req[c].written + 1)} /\ There(c, req[c].written + 1)
       /\ ~InSession(c) => req[c].written < RowCount)'
    BY <1>4, <2>2, <2>3
  <2>7. QED
    BY <2>1, <2>4, <2>5, <2>6 DEF ServingOk
<1>13. FlowFrom(c, s)'
  <2>1. (InSession(c)' <=> InSession(c)) /\ (~InSession(c) => Since(c, s)')
    BY <1>2, <1>6, TouchedStill, TouchedRows DEF FlowFrom
  <2>2. QED
    BY ONLY <1>10, <1>11, <1>12, <2>1 DEF FlowFrom
<1>14. RequestOf(c)'
  <2>1. req[c].phase \in RowPhases \cup {"executing"} /\ sent' = sent
    BY <1>6
  <2>2. QED
    BY ONLY <1>1, <1>4, <1>5, <1>6, <2>1, TouchedStill, c \in Calls, phase \in RowPhases,
            phase \in {"serving", "values"} => sent[c].method = "query",
            phase = "splicing" => sent[c].method = "serialize"
       DEF RequestOf, UploadPhases, RowPhases
<1>15. Ends(c)'
  <2>1. InSession(c)' <=> InSession(c)
    BY <1>6, TouchedStill
  <2>2. req[c].phase \in RowPhases /\ disturbed = {} => reply[c] = "ok"
    BY <1>3 DEF Ends
  <2>3. call[c].cursor # "end" /\ req'[c].phase # "ending" /\ req[c].phase # "none"
    BY <1>2, <1>3, <1>4 DEF Ends, RowPhases
  <2>4. QED
    BY ONLY <1>3, <1>4, <1>5, <1>6, <2>1, <2>2, <2>3, pipe[c].reader,
            req[c].phase \in RowPhases DEF Ends
<1>16. QED
  <2>1. call'[c] = call[c] /\ http' = http /\ req[c].phase # "none"
    BY <1>6 DEF RowPhases
  <2>2. call'[c].phase \in {"idle", "running"} =>
           call'[c].phase = call[c].phase /\ call'[c].rows = call[c].rows
           /\ call'[c].cursor \in {call[c].cursor, "none"}
    BY <2>1
  <2>3. QED
    BY <1>2, <1>6, <1>7, <1>13, <1>14, <1>15, <2>1, <2>2, DownloadStep

(* What a step that writes a token is to make sure of.                        *)
Puts(c, s, token, phase, row, written, snap) ==
  /\ s \in 0..Len(log) /\ FlowFrom(c, s) /\ phase \in RowPhases /\ written \in Nat
  /\ Written(c, token)
  /\ req' = [req EXCEPT ![c] = [req[c] EXCEPT !.phase = phase, !.row = row,
                                              !.written = written, !.snap = snap]]
  /\ \A k \in Nat : Arrived(c) + 1 = Tokens(c, k) => There(c, k) /\ token[2] = Row(c, s, k)
  /\ Arrived(c) + 1 = Tokens(c, written) + (IF phase = "values" THEN 1 ELSE 0)
  /\ phase \in {"serving", "values"} => sent[c].method = "query"
  /\ phase = "splicing" => sent[c].method = "serialize"
  /\ ~InSession(c) /\ written > 0 => snap = s
  /\ written <= (IF InSession(c) THEN Len(call[Inner[c]].rows) ELSE RowCount)
  /\ phase = "values" =>
       /\ row = {Row(c, s, written + 1)} /\ There(c, written + 1)
       /\ ~InSession(c) => written < RowCount

LEMMA StepPuts ==
  ASSUME IInv, NEW c \in Calls, ServiceFrame,
         UNCHANGED <<mail, reply, sent, up, storeVars, endpointVars, objects>>,
         req[c].phase \in RowPhases, pipe[c].reader,
         NEW s, NEW token, NEW phase, NEW row, NEW written, NEW snap,
         Puts(c, s, token, phase, row, written, snap)
  PROVE  IInv'
<1>1. s \in 0..Len(log) /\ phase \in RowPhases /\ written \in Nat
  BY DEF Puts
<1>2. QED
  BY <1>1, StepWritten DEF Puts

(* What is said of next by the store or by the inner call.                    *)
NextOk(c, next) ==
  /\ pipe[c].reader => \A row \in next : \E s \in 0..Len(log) : NextOf(c, s, row)
  /\ next = {} => disturbed # {} \/ ~pipe[c].reader \/ req[c].written = RowCount

LEMMA RowFacts ==
  ASSUME IInv, NEW c \in Calls, req[c].phase \in RowPhases
  PROVE  /\ Download(c) /\ IsRequest(req[c]) /\ req[c].written \in Nat /\ Ends(c)
         /\ (Gone(c) => disturbed # {} \/ ~pipe[c].reader)
         /\ req[c].phase \in {"serving", "values"} => sent[c].method = "query"
         /\ req[c].phase = "splicing" => sent[c].method = "serialize"
         /\ \A s : FlowFrom(c, s) => ServingOk(c, s)
<1>1. RequestOf(c) /\ IsRequest(req[c])
  BY Shapes DEF IInv, CallInv
<1>2. Download(c)
  BY <1>1 DEF RequestOf, RowPhases
<1>3. Ends(c) /\ req[c].written \in Nat /\ req[c].phase # "none"
  BY <1>2, DownloadFacts DEF RowPhases
<1>4. QED
  BY <1>1, <1>2, <1>3 DEF Ends, Gone, Broken, RequestOf, FlowFrom

LEMMA StepPutHeader ==
  ASSUME IInv, NEW c \in Calls, NEW next, PutHeader(c, next), NextOk(c, next), ServiceFrame
  PROVE  IInv'
<1>1. req[c].phase = "serving" /\ req[c].phase \in RowPhases
      /\ UNCHANGED <<mail, reply, sent, up, storeVars, endpointVars, objects>>
  BY DEF PutHeader, At, RowPhases
<1>2. Download(c) /\ IsRequest(req[c]) /\ req[c].written \in Nat /\ sent[c].method = "query"
  BY <1>1, RowFacts
<1>3. CASE (Gone(c) \/ next = {}) /\ Moved(c, "ending") /\ pipe' = pipe
  <2>1. disturbed # {} \/ ~pipe[c].reader \/ req[c].written = RowCount
    BY <1>1, <1>3, RowFacts DEF NextOk
  <2>2. QED
    BY <1>1, <1>3, <2>1, StepEnding
<1>4. ASSUME NEW row \in next, CanWrite(c), Written(c, <<"columns">>),
             req' = [req EXCEPT ![c].phase = "values", ![c].row = {row}]
      PROVE  IInv'
  <2>1. pipe[c].reader
    BY <1>4 DEF CanWrite
  <2>2. PICK s \in 0..Len(log) : NextOf(c, s, row)
    BY <1>4, <2>1 DEF NextOk
  <2>3. FlowFrom(c, s) /\ There(c, req[c].written + 1) /\ row = Row(c, s, req[c].written + 1)
        /\ (~InSession(c) => req[c].written < RowCount)
    BY <2>2 DEF NextOf
  <2>4. ServingOk(c, s)
    BY <1>1, <2>3, RowFacts
  <2>5. req' = [req EXCEPT ![c] = [req[c] EXCEPT !.phase = "values", !.row = {row},
                                                 !.written = req[c].written, !.snap = req[c].snap]]
    <3>1. Fcn(req, Calls)
      BY Shapes DEF IInv
    <3>2. [req[c] EXCEPT !.phase = "values", !.row = {row}] =
            [req[c] EXCEPT !.phase = "values", !.row = {row},
                           !.written = req[c].written, !.snap = req[c].snap]
      BY ONLY <1>2 DEF IsRequest
    <3>3. req' = [req EXCEPT ![c] = [req[c] EXCEPT !.phase = "values", !.row = {row}]]
      BY ONLY <1>4, <3>1, c \in Calls DEF Fcn
    <3>4. QED
      BY ONLY <3>2, <3>3
  <2>6. Arrived(c) = 2 * req[c].written
    BY <1>1, <1>2, <2>1, <2>4 DEF ServingOk, Produced, Tokens
  <2>7. \A k \in Nat : Arrived(c) + 1 # Tokens(c, k)
    BY <1>2, <2>6 DEF Tokens
  <2>8. Arrived(c) + 1 = Tokens(c, req[c].written) + (IF "values" = "values" THEN 1 ELSE 0)
    BY <1>2, <2>6 DEF Tokens
  <2>9. (~InSession(c) /\ req[c].written > 0 => req[c].snap = s)
        /\ req[c].written <= (IF InSession(c) THEN Len(call[Inner[c]].rows) ELSE RowCount)
    BY <2>4 DEF ServingOk
  <2>10. {row} = {Row(c, s, req[c].written + 1)} /\ "values" \in RowPhases
    BY <2>3 DEF RowPhases
  <2>11. Puts(c, s, <<"columns">>, "values", {row}, req[c].written, req[c].snap)
    BY ONLY s \in 0..Len(log), <1>1, <1>2, <1>4, <2>3, <2>5, <2>7, <2>8, <2>9, <2>10 DEF Puts
  <2>12. QED
    BY ONLY IInv, ServiceFrame, c \in Calls, <1>1, <2>1, <2>11, StepPuts
<1>5. QED
  BY <1>3, <1>4 DEF PutHeader

(* The next row of a query is written whole.                                  *)
LEMMA StepPutValues ==
  ASSUME IInv, NEW c \in Calls, PutValues(c), ServiceFrame
  PROVE  IInv'
<1>1. req[c].phase = "values" /\ req[c].phase \in RowPhases
      /\ UNCHANGED <<mail, reply, sent, up, storeVars, endpointVars, objects>>
  BY DEF PutValues, At, RowPhases
<1>2. Download(c) /\ IsRequest(req[c]) /\ req[c].written \in Nat /\ sent[c].method = "query"
  BY <1>1, RowFacts
<1>3. CASE Gone(c) /\ Moved(c, "ending") /\ pipe' = pipe
  <2>1. disturbed # {} \/ ~pipe[c].reader
    BY <1>1, <1>3, RowFacts
  <2>2. QED
    BY <1>1, <1>3, <2>1, StepEnding
<1>4. ASSUME NEW row \in req[c].row, CanWrite(c), Written(c, <<"row", row>>),
             req' = [req EXCEPT ![c].phase = "serving", ![c].row = {},
                                ![c].written = @ + 1, ![c].snap = row.snap]
      PROVE  IInv'
  <2>1. pipe[c].reader
    BY <1>4 DEF CanWrite
  <2>2. PICK s \in 0..Len(log) : FlowFrom(c, s)
    BY <1>2, DownloadFacts DEF Flow
  <2>3. ServingOk(c, s)
    BY <1>1, <2>2, RowFacts
  <2>4. row = Row(c, s, req[c].written + 1) /\ There(c, req[c].written + 1)
        /\ (~InSession(c) => req[c].written < RowCount)
    BY <1>1, <1>4, <2>3 DEF ServingOk
  <2>5. req' = [req EXCEPT ![c] = [req[c] EXCEPT !.phase = "serving", !.row = {},
                                     !.written = req[c].written + 1, !.snap = row.snap]]
    <3>1. Fcn(req, Calls)
      BY Shapes DEF IInv
    <3>2. QED
      BY ONLY <1>4, <3>1, c \in Calls DEF Fcn
  <2>6. Arrived(c) = 2 * req[c].written + 1
    BY <1>1, <1>2, <2>1, <2>3 DEF ServingOk, Produced, Tokens
  <2>7. \A k \in Nat : Arrived(c) + 1 = Tokens(c, k) =>
          There(c, k) /\ <<"row", row>>[2] = Row(c, s, k)
    <3>1. SUFFICES ASSUME NEW k \in Nat, Arrived(c) + 1 = Tokens(c, k)
                   PROVE  k = req[c].written + 1
      BY <2>4
    <3>2. 2 * k = 2 * req[c].written + 2
      BY <1>2, <2>6, <3>1 DEF Tokens
    <3>3. QED
      BY <1>2, <3>2
  <2>8. Arrived(c) + 1 = Tokens(c, req[c].written + 1) + (IF "serving" = "values" THEN 1 ELSE 0)
    BY <1>2, <2>6 DEF Tokens
  <2>9. /\ ~InSession(c) /\ req[c].written + 1 > 0 => row.snap = s
        /\ req[c].written + 1 <= (IF InSession(c) THEN Len(call[Inner[c]].rows) ELSE RowCount)
    <3>1. CASE InSession(c)
      BY <2>4, <3>1 DEF There
    <3>2. CASE ~InSession(c)
      BY <1>2, <2>4, <3>2, SitesAssumption DEF Row
    <3>3. QED
      BY <3>1, <3>2
  <2>10. "serving" \in RowPhases /\ req[c].written + 1 \in Nat
    BY <1>2 DEF RowPhases
  <2>11. Puts(c, s, <<"row", row>>, "serving", {}, req[c].written + 1, row.snap)
    BY ONLY s \in 0..Len(log), <1>1, <1>2, <1>4, <2>2, <2>5, <2>7, <2>8, <2>9, <2>10 DEF Puts
  <2>12. QED
    BY ONLY IInv, ServiceFrame, c \in Calls, <1>1, <2>1, <2>11, StepPuts
<1>5. QED
  BY <1>3, <1>4 DEF PutValues

(* A part of a serialization is passed on.                                    *)
LEMMA StepSpliceRdf ==
  ASSUME IInv, NEW c \in Calls, NEW next, SpliceRdf(c, next), NextOk(c, next), ServiceFrame
  PROVE  IInv'
<1>1. req[c].phase = "splicing" /\ req[c].phase \in RowPhases
      /\ UNCHANGED <<mail, reply, sent, up, storeVars, endpointVars, objects>>
  BY DEF SpliceRdf, At, RowPhases
<1>2. Download(c) /\ IsRequest(req[c]) /\ req[c].written \in Nat /\ sent[c].method = "serialize"
  BY <1>1, RowFacts
<1>3. CASE /\ req[c].host \notin objects \/ Broken(c) \/ next = {}
           /\ Moved(c, "ending") /\ pipe' = pipe
  <2>1. req[c].host \notin objects => disturbed # {}
    <3>1. req[c].host = sent[c].path
      BY <1>1 DEF IInv, CallInv, RequestOf
    <3>2. sent[c].path \in Opened \cup {"service"}
      BY <1>2, DownloadFacts
    <3>3. QED
      BY <3>1, <3>2 DEF IInv, Links
  <2>2. disturbed # {} \/ ~pipe[c].reader \/ req[c].written = RowCount
    BY <1>3, <2>1 DEF NextOk, Broken
  <2>3. QED
    BY <1>1, <1>3, <2>2, StepEnding
<1>4. ASSUME NEW row \in next, CanWrite(c), Written(c, <<"rdf", row>>),
             req' = [req EXCEPT ![c].written = @ + 1, ![c].snap = row.snap]
      PROVE  IInv'
  <2>1. pipe[c].reader
    BY <1>4 DEF CanWrite
  <2>2. PICK s \in 0..Len(log) : NextOf(c, s, row)
    BY <1>4, <2>1 DEF NextOk
  <2>3. FlowFrom(c, s) /\ There(c, req[c].written + 1) /\ row = Row(c, s, req[c].written + 1)
        /\ (~InSession(c) => req[c].written < RowCount)
    BY <2>2 DEF NextOf
  <2>4. ServingOk(c, s)
    BY <1>1, <2>3, RowFacts
  <2>5. req' = [req EXCEPT ![c] = [req[c] EXCEPT !.phase = "splicing", !.row = req[c].row,
                                     !.written = req[c].written + 1, !.snap = row.snap]]
    <3>1. Fcn(req, Calls)
      BY Shapes DEF IInv
    <3>2. [req[c] EXCEPT !.written = req[c].written + 1, !.snap = row.snap] =
            [req[c] EXCEPT !.phase = "splicing", !.row = req[c].row,
                           !.written = req[c].written + 1, !.snap = row.snap]
      BY ONLY <1>1, <1>2 DEF IsRequest
    <3>3. req' = [req EXCEPT ![c] = [req[c] EXCEPT !.written = req[c].written + 1,
                                                   !.snap = row.snap]]
      BY ONLY <1>4, <3>1, c \in Calls DEF Fcn
    <3>4. QED
      BY ONLY <3>2, <3>3
  <2>6. Arrived(c) = req[c].written
    BY <1>1, <1>2, <2>1, <2>4 DEF ServingOk, Produced, Tokens
  <2>7. \A k \in Nat : Arrived(c) + 1 = Tokens(c, k) =>
          There(c, k) /\ <<"rdf", row>>[2] = Row(c, s, k)
    BY <1>2, <2>3, <2>6 DEF Tokens
  <2>8. Arrived(c) + 1 = Tokens(c, req[c].written + 1) + (IF "splicing" = "values" THEN 1 ELSE 0)
    BY <1>2, <2>6 DEF Tokens
  <2>9. /\ ~InSession(c) /\ req[c].written + 1 > 0 => row.snap = s
        /\ req[c].written + 1 <= (IF InSession(c) THEN Len(call[Inner[c]].rows) ELSE RowCount)
    <3>1. CASE InSession(c)
      BY <2>3, <3>1 DEF There
    <3>2. CASE ~InSession(c)
      BY <1>2, <2>3, <3>2, SitesAssumption DEF Row
    <3>3. QED
      BY <3>1, <3>2
  <2>10. "splicing" \in RowPhases /\ req[c].written + 1 \in Nat
    BY <1>2 DEF RowPhases
  <2>11. Puts(c, s, <<"rdf", row>>, "splicing", req[c].row, req[c].written + 1, row.snap)
    BY ONLY s \in 0..Len(log), <1>1, <1>2, <1>4, <2>3, <2>5, <2>7, <2>8, <2>9, <2>10 DEF Puts
  <2>12. QED
    BY ONLY IInv, ServiceFrame, c \in Calls, <1>1, <2>1, <2>11, StepPuts
<1>5. QED
  BY <1>3, <1>4 DEF SpliceRdf

(* ---- What the next row of an answer is                                     *)

(* Before the first row nothing is read from any snapshot yet.                *)
LEMMA FreshFlow ==
  ASSUME IInv, NEW c \in Calls, Download(c), ~InSession(c), pipe[c].reader,
         NEW s, FlowFrom(c, s), req[c].phase \in {"serving", "splicing"}, req[c].written = 0
  PROVE  FlowFrom(c, Len(log))
<1>1. ServingOk(c, s) /\ Len(call[c].rows) \in Nat /\ Len(pipe[c].data) \in Nat
      /\ IsSeq(call[c].rows) /\ IsSeq(pipe[c].data)
  BY DownloadFacts DEF FlowFrom, RowPhases
<1>2. Arrived(c) = 0
  BY <1>1 DEF ServingOk, Produced, Tokens
<1>3. Len(call[c].rows) = 0 /\ Len(pipe[c].data) = 0
  <2>1. Taken(c) \in Nat
    BY DownloadFacts
  <2>2. Taken(c) = 0 /\ Len(pipe[c].data) = 0
    BY <1>1, <1>2, <2>1 DEF Arrived
  <2>3. (IF call[c].cursor = "row" THEN 1 ELSE 0) \in Nat
    OBVIOUS
  <2>4. Tokens(c, Len(call[c].rows)) = 0
    <3>1. Tokens(c, Len(call[c].rows)) \in Nat
      BY <1>1 DEF Tokens
    <3>2. QED
      BY <2>2, <2>3, <3>1 DEF Taken
  <2>5. QED
    BY <1>1, <2>2, <2>4 DEF Tokens
<1>4. DOMAIN call[c].rows = {} /\ DOMAIN pipe[c].data = {}
  BY <1>1, <1>3, SeqFacts
<1>5. RowsOk(c, Len(log)) /\ TokensOk(c, Len(log))
  BY <1>4 DEF RowsOk, TokensOk
<1>6. Since(c, Len(log))
  BY DEF IInv, Shape, FloorShape, Since
<1>7. ServingOk(c, Len(log))
  BY <1>1 DEF ServingOk
<1>8. QED
  BY <1>5, <1>6, <1>7 DEF FlowFrom

(* The store reads a query from the snapshot of its first row.                *)
LEMMA ServiceNextOk ==
  ASSUME IInv, NEW c \in Calls, ToService(c), req[c].phase \in {"serving", "splicing"}
  PROVE  NextOk(c, ServiceNext(c))
<1>1. Download(c) /\ req[c].written \in Nat /\ RequestOf(c)
  BY RowFacts DEF RowPhases, IInv, CallInv
<1>2. ~InSession(c) /\ sent[c].path = "service"
  BY <1>1, DownloadFacts, OpenedPaths DEF ToService, InSession
<1>3. PICK s \in 0..Len(log) : FlowFrom(c, s)
  BY <1>1, DownloadFacts DEF Flow
<1>4. ServingOk(c, s)
  BY <1>3 DEF FlowFrom, RowPhases
<1>5. ServiceNext(c) = {} => req[c].written = RowCount
  <2>1. req[c].written <= RowCount
    BY <1>2, <1>4 DEF ServingOk
  <2>2. ServiceNext(c) = {} => req[c].written >= RowCount
    BY DEF ServiceNext
  <2>3. QED
    BY <1>1, <2>1, <2>2, SitesAssumption
<1>6. ASSUME pipe[c].reader, NEW row \in ServiceNext(c)
      PROVE  \E t \in 0..Len(log) : NextOf(c, t, row)
  <2>1. /\ req[c].written < RowCount
        /\ row = [text |-> req[c].text, args |-> req[c].args, n |-> req[c].written + 1,
                  snap |-> IF req[c].written = 0 THEN Len(log) ELSE req[c].snap]
    BY <1>1, <1>6, SitesAssumption DEF ServiceNext
  <2>2. There(c, req[c].written + 1)
    BY <1>2 DEF There
  <2>3. req[c].text = Want(c) /\ req[c].args = sent[c].args
    BY <1>1, <1>2 DEF RequestOf, RowPhases, Want
  <2>4. CASE req[c].written = 0
    <3>1. FlowFrom(c, Len(log))
      BY <1>1, <1>2, <1>3, <1>6, <2>4, FreshFlow
    <3>2. row = Row(c, Len(log), req[c].written + 1)
      BY <1>2, <2>1, <2>3, <2>4 DEF Row
    <3>3. Len(log) \in 0..Len(log)
      BY <1>1, DownloadFacts
    <3>4. QED
      BY <2>1, <2>2, <3>1, <3>2, <3>3 DEF NextOf
  <2>5. CASE req[c].written > 0
    <3>1. req[c].snap = s
      BY <1>2, <1>4, <2>5 DEF ServingOk
    <3>2. row = Row(c, s, req[c].written + 1)
      BY <1>1, <1>2, <2>1, <2>3, <2>5, <3>1 DEF Row
    <3>3. QED
      BY <1>3, <2>1, <2>2, <3>2 DEF NextOf
  <2>6. QED
    BY <1>1, <2>4, <2>5
<1>7. QED
  BY <1>5, <1>6 DEF NextOk

(* A cursor of the portal that is at its end has read all rows.               *)
LEMMA InnerEnds ==
  ASSUME IInv, NEW i \in Calls \ Asked, call[i].cursor = "end", disturbed = {}
  PROVE  Len(call[i].rows) = RowCount
<1>1. SaysOf(i)
  BY DEF IInv, CallInv
<1>2. Download(i)
  BY <1>1 DEF SaysOf
<1>3. Ends(i) /\ Len(call[i].rows) \in Nat /\ sent[i].method \in {"query", "serialize"}
  BY <1>2, DownloadFacts
<1>4. Total(i) /\ Len(pipe[i].data) = 0
  BY <1>3 DEF Ends
<1>5. Tokens(i, Len(call[i].rows)) = Tokens(i, RowCount)
  BY <1>3, <1>4, SitesAssumption DEF Total, Arrived, Taken, Tokens
<1>6. QED
  BY <1>3, <1>5, SitesAssumption DEF Tokens

(* A session passes on the rows its inner cursor has read, all of them.       *)
LEMMA NextRowOk ==
  ASSUME IInv, NEW c \in Calls, InSession(c), HasNext(c),
         req[c].phase \in {"serving", "splicing"}
  PROVE  NextOk(c, NextRow(c))
<1>1. Download(c) /\ req[c].written \in Nat
  BY RowFacts DEF RowPhases
<1>2. Inner[c] \in Calls \ Asked /\ Ends(c)
  BY <1>1, DownloadFacts
<1>3. PICK s \in 0..Len(log) : FlowFrom(c, s)
  BY <1>1, DownloadFacts DEF Flow
<1>4. ServingOk(c, s)
  BY <1>3 DEF FlowFrom, RowPhases
<1>5. IsSeq(call[Inner[c]].rows) /\ Len(call[Inner[c]].rows) \in Nat
  BY <1>2, Shapes, SeqFacts DEF IInv
<1>6. ASSUME NEW row \in NextRow(c)
      PROVE  \E t \in 0..Len(log) : NextOf(c, t, row)
  <2>1. req[c].written < Len(call[Inner[c]].rows)
        /\ row = call[Inner[c]].rows[req[c].written + 1]
    BY <1>1, <1>5, <1>6 DEF NextRow
  <2>2. There(c, req[c].written + 1) /\ row = Row(c, s, req[c].written + 1)
    BY <1>1, <1>5, <2>1 DEF There, Row
  <2>3. QED
    BY <1>3, <2>2 DEF NextOf
<1>7. ASSUME NextRow(c) = {}, disturbed = {}, pipe[c].reader
      PROVE  req[c].written = RowCount
  <2>1. req[c].written = Len(call[Inner[c]].rows)
    <3>1. req[c].written <= Len(call[Inner[c]].rows)
      BY <1>4 DEF ServingOk
    <3>2. ~(Len(call[Inner[c]].rows) > req[c].written)
      BY <1>7 DEF NextRow
    <3>3. QED
      BY <1>1, <1>5, <3>1, <3>2
  <2>2. ~call[Inner[c]].cancelled
    BY <1>2, <1>7 DEF Ends
  <2>3. call[Inner[c]].cursor = "end"
    BY <1>1, <2>1, <2>2 DEF HasNext
  <2>4. QED
    BY <1>2, <1>7, <2>1, <2>3, InnerEnds
<1>8. QED
  BY <1>6, <1>7 DEF NextOk

(* The steps of the endpoints that answer a query.                            *)
LEMMA StepAnswering ==
  ASSUME IInv, NEW c \in Calls,
         \/ ServiceExecuted(c) \/ ServiceRow(c)
         \/ (SessionExecuted(c) \/ SessionRow(c)) /\ UNCHANGED <<http, remoteVars>>
  PROVE  IInv'
<1>1. ServiceFrame
  BY DEF ServiceExecuted, ServiceRow, SessionExecuted, SessionRow, ServiceFrame
<1>2. CASE ServiceExecuted(c)
  BY <1>1, <1>2, StepStmtExecuted DEF ServiceExecuted
<1>3. CASE SessionExecuted(c)
  BY <1>1, <1>3, StepStmtExecuted DEF SessionExecuted
<1>4. CASE ServiceRow(c)
  <2>1. req[c].phase \in {"serving", "splicing"}
    BY <1>4 DEF ServiceRow, PutHeader, SpliceRdf, At
  <2>2. NextOk(c, ServiceNext(c))
    BY <1>4, <2>1, ServiceNextOk DEF ServiceRow
  <2>3. QED
    BY <1>1, <1>4, <2>2, StepPutHeader, StepSpliceRdf DEF ServiceRow
<1>5. CASE SessionRow(c)
  <2>1. req[c].phase \in {"serving", "splicing"}
    BY <1>5 DEF SessionRow, PutHeader, SpliceRdf, At
  <2>2. NextOk(c, NextRow(c))
    BY <1>5, <2>1, NextRowOk DEF SessionRow
  <2>3. QED
    BY <1>1, <1>5, <2>2, StepPutHeader, StepSpliceRdf DEF SessionRow
<1>6. QED
  BY <1>2, <1>3, <1>4, <1>5
=============================================================================
