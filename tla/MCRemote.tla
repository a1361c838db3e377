------------------------------ MODULE MCRemote ------------------------------
(* Small behaviours of Remote, and what is only checked of a served store.     *)
EXTENDS Remote

MCCalls == {"a", "b", "c", "n", "a2", "b2", "n2"}
MCInner == [c \in MCCalls |-> CASE c = "a" -> "a2" [] c = "b" -> "b2" [] c = "n" -> "n2"
                                [] OTHER -> "none"]
MCSessionPaths == <<"s1">>
MCFormats == <<"json", "xml", "ttl">>
MCNeeds == [t \in {"q1", "q2", "u1", "u2", "doc", "rdf", "bad", "prefixes", "none",
                     "description"} |->
              IF t \in {"q1", "u2"} THEN {"p"} ELSE {}]

P(value) == {<<"p", value>>}

Outside == [sandboxed |-> FALSE, graphs |-> {}]

Asks(some) == [c \in MCCalls |-> IF c \in DOMAIN some THEN some[c] ELSE NoAsk]

Query(cl, text, args) == [NoAsk EXCEPT !.client = cl, !.method = "query", !.text = text, !.args = args]
Serialize(cl, text) == [NoAsk EXCEPT !.client = cl, !.method = "serialize", !.text = text]
Update(cl, text) == [NoAsk EXCEPT !.client = cl, !.method = "update", !.text = text]
Blank(cl, text) == [NoAsk EXCEPT !.client = cl, !.method = "blank", !.text = text]
Array(cl, ops) == [NoAsk EXCEPT !.client = cl, !.method = "array", !.ops = ops]
Load(cl, n) == [NoAsk EXCEPT !.client = cl, !.method = "deserialize", !.text = "doc", !.n = n]
After(asked, calls) == [asked EXCEPT !.after = calls]

Sparql(text, stmt) == [kind |-> "sparql", text |-> text, stmt |-> stmt]
Rdf(n) == [kind |-> "rdf", text |-> "doc", n |-> n]

Job(asks, faultSet) ==
  [ask |-> Asks(asks), faults |-> faultSet, bound |-> [s \in Stmts |-> P(1)],
   policy |-> [h \in Hosts |-> OpenPolicy], granted |-> Outside,
   link |-> [cl \in Clients |-> Direct], rebinds |-> <<>>]

(* A batch of every kind of operation against queries of the same text with   *)
(* other values, one of which is made when the batch is done.                 *)
BatchJob(faultSet) ==
  Job([a |-> Array("A", <<Sparql("u2", "s"), Rdf(2)>>),
       b |-> Query("B", "q1", P(1)),
       c |-> After(Query("A", "q1", P(2)), {"a"})], faultSet)

BatchCancelJob ==
  Job([a |-> Array("A", <<Sparql("u2", "s"), Rdf(2)>>), b |-> Query("B", "q1", P(1))], {"cancel"})

(* Updates of two clients and what a deserialization of one loads.            *)
UpdateJob(faultSet) ==
  Job([a |-> Load("A", 2), b |-> Update("B", "u1"), c |-> After(Blank("B", "u1"), {"b"})],
      faultSet)

(* Requests that fail: a text that does not compile, one without its values,  *)
(* an operation of a batch that does not compile after one that does.         *)
ErrorJob ==
  Job([a |-> Array("A", <<Sparql("u1", "none"), Sparql("bad", "none"), Sparql("u1", "none")>>),
       b |-> Query("B", "q1", P(1)), c |-> After(Query("B", "q1", {}), {"b"})], {})

EmptyJob == Job([a |-> Array("A", <<>>), b |-> Update("B", "bad"), c |-> Query("A", "bad", {})],
                {"crash"})

ReadonlyJob ==
  [Job([a |-> Load("A", 1), b |-> Update("B", "u1"), c |-> Serialize("A", "q2")], {}) EXCEPT
     !.policy = [h \in Hosts |-> [OpenPolicy EXCEPT !.readonly = TRUE, !.graphs = {"g"}]]]

(* A statement that is executed twice, with new values in between.            *)
RebindJob ==
  [Job([a |-> Array("A", <<Sparql("u2", "s")>>),
        b |-> After(Array("A", <<Sparql("u2", "s")>>), {"a"})], {"cancel"}) EXCEPT
     !.rebinds = <<[stmt |-> "s", values |-> P(2), after |-> {"a"}, during |-> {}, before |-> {"b"}]>>]

(* A sandboxed client, through the portal.                                    *)
Confined(asks, faultSet) ==
  [Job([n |-> Query("A", "prefixes", {})] @@ asks, faultSet) EXCEPT
     !.granted = [sandboxed |-> TRUE, graphs |-> {"g"}],
     !.link = [cl \in Clients |-> IF cl = "A" THEN New ELSE Direct]]

SandboxJob(faultSet) ==
  Confined([a |-> Query("A", "q1", P(1))], faultSet)

SandboxAndOtherJob ==
  Confined([a |-> Query("A", "q1", P(1)), c |-> Update("B", "u1")], {"crash"})

SandboxUpdateJob ==
  Confined([a |-> Update("A", "u1"), b |-> Serialize("A", "q2")], {"portal"})

(* Clients that close their cursors before the end.                           *)
EarlyJob ==
  Job([a |-> Query("A", "q1", P(1)), b |-> Serialize("B", "q2")], {"early"})

CrashedPortalJob == Confined(<<>>, {"close", "portal"})

RefusedJob ==
  [SandboxJob({}) EXCEPT !.granted = [sandboxed |-> TRUE, graphs |-> {}]]

PlainJob ==
  [Job([n |-> Query("A", "prefixes", {})], {"crash"}) EXCEPT
     !.link = [cl \in Clients |-> IF cl = "A" THEN New ELSE Direct]]

(* Over HTTP: a query that waits for an update, one nobody can read the       *)
(* answer of, the description of the endpoint, and one without its value.     *)
Post(cl, text, args) ==
  [NoAsk EXCEPT !.client = cl, !.method = "post", !.text = text, !.args = args,
                !.formats = {"json", "xml"}]
Get(cl) == [NoAsk EXCEPT !.client = cl, !.method = "get", !.text = "description"]

WebJob(faultSet) ==
  [Job([a |-> Post("A", "q1", P(1)), b |-> Update("B", "u1"),
        c |-> After(Post("B", "q2", {}), {"b"})], faultSet) EXCEPT
     !.policy = [h \in Hosts |-> [OpenPolicy EXCEPT !.graphs = {"g"}]]]

WebErrorJob ==
  [Job([a |-> Post("A", "q1", {<<"x", 1>>}), b |-> Post("B", "q1", {}),
        c |-> After([Post("B", "q2", {}) EXCEPT !.formats = {}], {"b"}),
        n |-> Get("A"), a2 |-> After(Post("A", "bad", {}), {"n"})], {"crash"}) EXCEPT
     !.policy = [h \in Hosts |-> [OpenPolicy EXCEPT !.blocked = {"A"}]]]

GetJob == Job([a |-> Get("A")], {"early"})

MCJobs ==
  {BatchCancelJob, BatchJob({"crash"}), EarlyJob,
   UpdateJob({"cancel"}), UpdateJob({"finalize"}), UpdateJob({"A"}),
   ErrorJob, EmptyJob, ReadonlyJob, RebindJob,
   SandboxJob({"cancel"}), SandboxJob({"close"}), SandboxJob({"A"}), SandboxAndOtherJob,
   SandboxUpdateJob, CrashedPortalJob, RefusedJob, PlainJob,
   WebJob({"cancel"}), WebJob({"crash"}), WebErrorJob, GetJob}

ASSUME JobsApart == \A job \in MCJobs : ApartIn(job)

(* The statement is bound again while its execution is being written.         *)
RebindRaceJobs ==
  {[RebindJob EXCEPT !.faults = {},
      !.rebinds = <<[stmt |-> "s", values |-> P(2), after |-> {}, during |-> {"a"}, before |-> {}]>>]}

-----------------------------------------------------------------------------

(* Whatever happens to the other side, every call that is made ends, and in   *)
(* the end nothing of it is left: no end of a pipe is open, no request, no    *)
(* task and no mail is there.                                                 *)
Settles ==
  <>[](/\ \A c \in Calls : /\ call[c].phase # "running"
                           /\ ~pipe[c].reader /\ ~pipe[c].writer
                           /\ req[c].phase \in {"none", "freed"}
                           /\ http[c].stage \in {"none", "freed"} /\ ~http[c].open
       /\ queue = <<>> /\ running = NoTask
       /\ \A s \in Sites : mail[s] = <<>>)

(* doc of tracker_sparql_statement_update_async: the values bound when it is  *)
(* called are those it executes with.                                         *)
BoundValuesExecuted ==
  \A k \in DOMAIN log : log[k].ops = meant[log[k].call]
=============================================================================
