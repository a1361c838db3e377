------------------------------ MODULE RemoteCommits ------------------------------
(* What is stored of the updates of Remote: each request whole and once, with *)
(* the values it had when it was made.  The invariant follows the tokens of   *)
(* a request from the thread that writes them through the pipe to the one     *)
(* that reads them, and the request from its message to its entry in the log. *)
EXTENDS RemoteProofs

(* ---- What a request says, and where its tokens are                         *)

Upload(c) == sent[c].method \in Uploads
OfText(c) == sent[c].method \in {"update", "blank"}
OfBatch(c) == sent[c].method = "array"
OfData(c) == sent[c].method = "deserialize"

Text(c) == Rewritten("service", Plain(ask[c].text))
Loaded(n) == {<<"loaded", n>>}

MeantOk(c) ==
  /\ OfText(c) => meant[c] = << [text |-> Text(c), args |-> {}] >>
  /\ OfData(c) => meant[c] = << [text |-> Plain("rdf"), args |-> Loaded(ask[c].n)] >>
  /\ OfBatch(c) =>
       /\ Len(ask[c].ops) > 0 /\ IsSeq(meant[c]) /\ Len(meant[c]) = Len(ask[c].ops)
       /\ \A k \in DOMAIN ask[c].ops :
            LET op == ask[c].ops[k] IN
            /\ meant[c][k] = [text |-> Plain(op.text), args |-> meant[c][k].args]
            /\ op.kind = "rdf" => meant[c][k].args = Loaded(op.n)

(* A batch that is being written has the values it had when it was made.      *)
ValuesOk(c) ==
  OfBatch(c) => \A k \in DOMAIN ask[c].ops :
    ask[c].ops[k].kind = "sparql" => Values(ask[c].ops[k].stmt) = meant[c][k].args

(* How many tokens there are before the operation after the k-th one; the     *)
(* first token of all is the number of operations.                            *)
Start(ops, k) == 1 + Len(BatchPieces(SubSeq(ops, 1, k)))
Sized(op) == IF op.kind = "sparql" THEN 3 ELSE 2 + op.n

(* The i-th token of an operation, as the reader takes it.                    *)
Part(op, args, i, token) ==
  /\ op.kind = "sparql" =>
       /\ i = 1 => token[2] = "sparql"
       /\ i = 2 => token[2] = op.text
       /\ i = 3 => token[2] = args
  /\ op.kind = "rdf" =>
       /\ i = 1 => token[2] = "rdf"
       /\ i \in 3..Sized(op) => token[2] = op.text /\ token[3] = op.n

Wanted(c, r, token) ==
  /\ OfText(c) /\ r = 2 => token[2] = ask[c].text
  /\ OfBatch(c) =>
       /\ r = 1 => token[2] = Len(ask[c].ops)
       /\ \A k \in DOMAIN ask[c].ops :
            Part(ask[c].ops[k], meant[c][k].args, r - Start(ask[c].ops, k - 1), token)

(* The tokens that were read of those that were written.                      *)
Read(c) == call[c].pos - 1 - Len(pipe[c].data)

TokensFit(c) ==
  /\ IsSeq(pipe[c].data) /\ call[c].pos \in Nat \ {0}
  /\ Read(c) >= 0 /\ call[c].pos <= Len(Pieces(c)) + 1
  /\ \A j \in DOMAIN pipe[c].data : Wanted(c, Read(c) + j, pipe[c].data[j])

(* ---- The task of a request                                                 *)

Waits(c) == \E k \in DOMAIN queue : queue[k].call = c
Runs(c) == running # NoTask /\ running.call = c
Active(c) == Upload(c) /\ reply[c] = "none" /\ outcome[c] = "none"

(* What was read of a batch: the first operations of it, and some of the next *)
(* one.                                                                       *)
ReadsAs(ops, wanted, r, t) ==
  LET done == Len(t.ops)
      into == r - Start(ops, done)
      op == ops[done + 1] IN
  /\ IsSeq(t.ops) /\ \A i \in 1..done : t.ops[i] = wanted[i]
  /\ t.expect \in {"count", "op", "text", "params", "graph", "data", "done"}
  /\ t.expect = "count" => done = 0 /\ r = 0
  /\ t.expect = "done" => done = Len(ops) /\ into = 0
  /\ t.expect \notin {"count", "done"} => done < Len(ops) /\ t.left = Len(ops) - done
  /\ t.expect = "op" => into = 0
  /\ t.expect = "text" => into = 1 /\ op.kind = "sparql"
  /\ t.expect = "params" => into = 2 /\ op.kind = "sparql" /\ t.op[1] = op.text
  /\ t.expect = "graph" => into = 1 /\ op.kind = "rdf"
  /\ t.expect = "data" =>
       op.kind = "rdf" /\ IsSeq(t.op) /\ into = 2 + Len(t.op) /\ Len(t.op) < op.n

Reads(c, t) == ReadsAs(ask[c].ops, meant[c], Read(c), t)

RunOk(c) ==
  Runs(c) =>
    /\ OfBatch(c) => Reads(c, running)
    /\ OfData(c) => running.expect = "rdf" /\ IsSeq(running.op) /\ Len(running.op) = Read(c)

(* The thread of an update of the endpoint.                                   *)
ReadOk(c) ==
  /\ Active(c) /\ req[c].phase \in {"none", "op"} => Read(c) = 0
  /\ OfText(c) /\ req[c].phase = "text" => Read(c) = 1
  /\ OfText(c) /\ req[c].phase = "params" => Read(c) = 2 /\ req[c].text = Text(c)
  /\ OfText(c) /\ req[c].phase = "read" => Read(c) = 3 /\ req[c].text = Text(c)
  /\ OfText(c) /\ Waits(c) => Read(c) = 3
  /\ ~OfText(c) /\ Waits(c) => Read(c) = 0

TaskOk(c) ==
  /\ outcome[c] # "none" => Upload(c)
  /\ Waits(c) => ~Runs(c)
  /\ Waits(c) \/ Runs(c) =>
       Active(c) /\ req[c].phase = IF OfText(c) THEN "updating" ELSE "stream"
  /\ Runs(c) => ~OfText(c)
  /\ req[c].phase \in UploadPhases => reply[c] = "none" /\ req[c].host = "service"
  /\ Upload(c) /\ outcome[c] # "none" => req[c].phase \in {"updating", "stream"} \/ reply[c] # "none"
  /\ req[c].phase = "stream" => ~OfText(c)
  /\ req[c].phase \in {"op", "text", "params", "read", "unread", "updating"} => OfText(c)

(* The tasks that wait, one for each request, and how each task ended.        *)
Queue ==
  /\ Fcn(outcome, Calls)
  /\ \A j, k \in DOMAIN queue : queue[j].call = queue[k].call => j = k
  /\ \A k \in DOMAIN queue :
       LET c == queue[k].call IN
       queue[k].kind = sent[c].method /\ (OfText(c) => queue[k].text = Text(c))

(* ---- What was stored, and what the client is told of it                    *)

Partly(c, ops) == OfData(c) /\ disturbed # {} /\ ops \in Shortened(c)

LogOk(c) ==
  /\ \A j, k \in Entries(c) : j = k
  /\ Entries(c) # {} <=> outcome[c] = "ok"
  /\ \A k \in Entries(c) : log[k].ops = meant[c] \/ Partly(c, log[k].ops)

ReplyOk(c) ==
  Upload(c) =>
    /\ reply[c] = "ok" => outcome[c] = "ok"
    /\ reply[c] \notin Unknown \cup {"ok"} => outcome[c] # "ok"

Ended(c) == call[c].pos > Len(Pieces(c))

WriterOk(c) ==
  /\ call[c].write = "busy" => pipe[c].writer /\ call[c].phase = "running" /\ ValuesOk(c)
  /\ call[c].write = "broken pipe" => ~pipe[c].reader
  /\ outcome[c] = "ok" =>
       call[c].write # "broken pipe" /\ (call[c].write = "busy" => Ended(c))
  /\ Active(c) => pipe[c].reader
  /\ pipe[c].reader /\ ~pipe[c].writer /\ disturbed = {} => Ended(c)
  /\ call[c].cancelled => disturbed # {}

ClientOk(c) ==
  /\ call[c].phase = "running" => call[c].write \in {"busy", "ok", "cancelled", "broken pipe"}
  /\ call[c].dbus \in {"none", "cancelled", reply[c]}
  /\ call[c].phase = "done" =>
       call[c].result = "cancelled" \/ (call[c].result = reply[c] /\ reply[c] # "none")

UploadOk(c) ==
  Upload(c) =>
    MeantOk(c) /\ TokensFit(c) /\ RunOk(c) /\ ReadOk(c) /\ WriterOk(c) /\ ClientOk(c)

(* ---- The invariant                                                         *)

OpsOk(ops) ==
  /\ IsSeq(ops)
  /\ \A k \in DOMAIN ops :
       ops[k].kind = "sparql" \/ (ops[k].kind = "rdf" /\ ops[k].n \in Nat \ {0})

AskOk(c) == ask[c].n \in Nat /\ OpsOk(ask[c].ops)

UnsentOk(c) ==
  /\ ~Sent(c) => meant[c] = <<>>
  /\ call[c].phase = "idle" =>
       /\ call[c].pos = 1 /\ call[c].dbus = "none"
       /\ c \in Asked /\ call[c].cancelled => disturbed # {}

HostOk(c) == req[c].host \in {"none", sent[c].path}

CommitInv(c) ==
  /\ AskOk(c) /\ UnsentOk(c) /\ HostOk(c)
  /\ TaskOk(c) /\ LogOk(c) /\ ReplyOk(c) /\ UploadOk(c)

RebindsOk ==
  /\ Fcn(meant, Calls) /\ IsSeq(rebinds)
  /\ \A k \in DOMAIN rebinds : \A c \in Asked :
       Uses(ask[c], rebinds[k].stmt) => c \in rebinds[k].after \cup rebinds[k].before

ReadonlySessions == \A h \in Opened : policy[h].readonly

CInv == Queue /\ RebindsOk /\ ReadonlySessions /\ \A c \in Calls : CommitInv(c)

-----------------------------------------------------------------------------

(* ---- The tokens of a batch                                                 *)

LEMMA Counting ==
  ASSUME NEW T, 0 \in T, \A n \in T \cap Nat : n + 1 \in T
  PROVE  Nat \subseteq T
<1> DEFINE M == Nat \ T
<1>1. SUFFICES ASSUME M # {} PROVE FALSE
  OBVIOUS
<1>2. PICK x \in M : \A y \in M : <<y, x>> \notin OpToRel(<, Nat)
  <2>1. M \subseteq Nat
    OBVIOUS
  <2> HIDE DEF M
  <2>2. QED
    BY <1>1, <2>1, WFMin, NatLessThanWellFounded, Zenon
<1>3. \A y \in M : ~(y < x)
  <2>1. M \subseteq Nat
    OBVIOUS
  <2> HIDE DEF M
  <2>2. QED
    BY <1>2, <2>1, Zenon DEF OpToRel
<1>4. x \in Nat /\ x # 0
  OBVIOUS
<1>5. x - 1 \in Nat /\ x - 1 \notin M
  BY <1>3, <1>4
<1>6. x - 1 \in T \cap Nat /\ (x - 1) + 1 = x
  BY <1>4, <1>5
<1>7. QED
  BY <1>6

(* What FlattenSeq computes: the concatenation of its sequences.              *)
Joins(F, n, s) == F = [i \in 1..n |-> IF i = 1 THEN s[i] ELSE F[i - 1] \o s[i]]

LEMMA FlattenedBy ==
  ASSUME NEW n \in Nat \ {0}, NEW s, Len(s) = n, NEW F, Joins(F, n, s)
  PROVE  FlattenSeq(s) = F[n]
<1> DEFINE Put(r, t) == r \o t
           Step(f) == [i \in 1..n |-> IF i = 1 THEN s[i] ELSE Put(f[i - 1], s[i])]
           It == CHOOSE f : f = Step(f)
           T0 == {m \in Nat : m + 1 <= n => It[m + 1] = F[m + 1]}
<1>1. FlattenSeq(s) = It[n]
  BY n # 0 DEF FlattenSeq
<1>2. F = Step(F)
  BY DEF Joins
<1> HIDE DEF Put
<1>3. It = Step(It)
  BY <1>2
<1> HIDE DEF It
<1>4. \A i \in 1..n : It[i] = IF i = 1 THEN s[i] ELSE Put(It[i - 1], s[i])
  BY ONLY <1>3
<1>5. \A i \in 1..n : F[i] = IF i = 1 THEN s[i] ELSE Put(F[i - 1], s[i])
  BY ONLY <1>2
<1>6. 0 \in T0
  <2>1. 1 \in 1..n
    OBVIOUS
  <2>2. It[1] = F[1]
    BY ONLY <1>4, <1>5, <2>1
  <2>3. QED
    BY ONLY <2>2
<1>7. ASSUME NEW m \in T0 \cap Nat PROVE m + 1 \in T0
  <2>1. SUFFICES ASSUME m + 2 <= n PROVE It[m + 2] = F[m + 2]
    OBVIOUS
  <2>2. m + 2 \in 1..n /\ m + 2 # 1 /\ (m + 2) - 1 = m + 1
    BY ONLY <2>1, m \in Nat, n \in Nat
  <2>3. It[m + 1] = F[m + 1]
    BY ONLY <2>1, m \in T0, m \in Nat, n \in Nat
  <2>4. QED
    BY ONLY <1>4, <1>5, <2>2, <2>3
<1>8. Nat \subseteq T0
  <2> HIDE DEF T0
  <2>1. QED
    BY ONLY <1>6, <1>7, Counting
<1>9. n - 1 \in Nat /\ (n - 1) + 1 = n
  OBVIOUS
<1>10. n - 1 \in T0
  BY ONLY <1>8, <1>9
<1>11. It[n] = F[n]
  BY ONLY <1>9, <1>10, n \in Nat
<1>12. QED
  BY <1>1, <1>11

LEMMA PrefixSums ==
  ASSUME NEW T, NEW s \in Seq(Seq(T))
  PROVE  \E F \in [0..Len(s) -> Seq(T)] :
           F[0] = <<>> /\ \A k \in 1..Len(s) : F[k] = F[k - 1] \o s[k]
<1> DEFINE n == Len(s)
           Chain(m) == \E F \in [0..m -> Seq(T)] :
                         F[0] = <<>> /\ \A k \in 1..m : F[k] = F[k - 1] \o s[k]
           Upto == {m \in Nat : m <= n => Chain(m)}
<1>1. n \in Nat /\ \A i \in 1..n : s[i] \in Seq(T)
  OBVIOUS
<1> HIDE DEF n
<1>2. Chain(0)
  <2>1. [i \in 0..0 |-> <<>>] \in [0..0 -> Seq(T)] /\ [i \in 0..0 |-> <<>>][0] = <<>>
    OBVIOUS
  <2>2. \A k \in 1..0 : FALSE
    OBVIOUS
  <2>3. QED
    BY <2>1, <2>2
<1>3. ASSUME NEW m \in Nat, m + 1 <= n, Chain(m) PROVE Chain(m + 1)
  <2>1. PICK F \in [0..m -> Seq(T)] :
          F[0] = <<>> /\ \A k \in 1..m : F[k] = F[k - 1] \o s[k]
    BY <1>3
  <2> DEFINE last == F[m] \o s[m + 1]
             g == [i \in 0..(m + 1) |-> IF i = m + 1 THEN last ELSE F[i]]
  <2>2. last \in Seq(T)
    BY <1>1, <1>3
  <2> HIDE DEF last
  <2>3. g \in [0..(m + 1) -> Seq(T)] /\ g[m + 1] = last /\ \A i \in 0..m : g[i] = F[i]
    BY <2>2
  <2> HIDE DEF g
  <2>4. \A k \in 1..(m + 1) : k = m + 1 \/ (k \in 1..m /\ k \in 0..m /\ k - 1 \in 0..m)
    BY <1>3
  <2>5. 0 \in 0..m /\ m \in 0..m /\ (m + 1) - 1 = m
    BY <1>3
  <2>6. g[0] = <<>> /\ \A k \in 1..(m + 1) : g[k] = g[k - 1] \o s[k]
    BY <2>1, <2>3, <2>4, <2>5 DEF last
  <2>7. QED
    BY <2>3, <2>6
<1> HIDE DEF Chain
<1>4. 0 \in Upto /\ \A m \in Upto \cap Nat : m + 1 \in Upto
  BY <1>1, <1>2, <1>3
<1>5. Nat \subseteq Upto
  <2> HIDE DEF Upto
  <2>1. QED
    BY <1>4, Counting
<1>6. Chain(n)
  BY <1>1, <1>5
<1>7. QED
  BY <1>6 DEF Chain, n

LEMMA PiecesOfOp ==
  ASSUME NEW op, op.kind = "sparql" \/ (op.kind = "rdf" /\ op.n \in Nat \ {0})
  PROVE  IsSeq(OpPieces(op)) /\ Len(OpPieces(op)) = Sized(op) /\ Sized(op) \in Nat \ {0}
<1>1. CASE op.kind = "sparql"
  <2> DEFINE p == << <<"op", "sparql">>, <<"text", op.text>>, <<"params", op.stmt>> >>
             T == {<<"op", "sparql">>, <<"text", op.text>>, <<"params", op.stmt>>}
  <2>1. p \in Seq(T) /\ Len(p) = 3
    OBVIOUS
  <2>2. OpPieces(op) = p
    BY <1>1 DEF OpPieces
  <2> HIDE DEF p, T
  <2>3. QED
    BY <1>1, <2>1, <2>2, SeqIs DEF Sized
<1>2. CASE op.kind = "rdf"
  <2> DEFINE n == op.n
             T == {<<"op", "rdf">>, <<"graph", "default">>, <<"data", op.text, n>>}
             q == [i \in 1..n |-> <<"data", op.text, n>>]
             h == << <<"op", "rdf">>, <<"graph", "default">> >>
  <2>1. n \in Nat \ {0}
    BY <1>2
  <2>2. h \in Seq(T) /\ Len(h) = 2
    OBVIOUS
  <2>3. OpPieces(op) = h \o q
    BY <1>2 DEF OpPieces
  <2> HIDE DEF n
  <2>4. q \in Seq(T) /\ Len(q) = n
    BY <2>1
  <2> HIDE DEF T, q, h
  <2>5. h \o q \in Seq(T) /\ Len(h \o q) = 2 + n
    BY ONLY <2>1, <2>2, <2>4, ConcatProperties
  <2>6. IsSeq(OpPieces(op)) /\ Len(OpPieces(op)) = 2 + n
    BY ONLY <2>3, <2>5, SeqIs
  <2>7. Sized(op) = 2 + n
    BY ONLY <1>2 DEF Sized, n
  <2>8. QED
    BY ONLY <2>1, <2>6, <2>7
<1>3. QED
  BY <1>1, <1>2

(* The pieces of the first operations, and where those of the next one are.   *)
LEMMA PiecesSoFar ==
  ASSUME NEW ops, OpsOk(ops)
  PROVE  \E T, F : /\ F \in [0..Len(ops) -> Seq(T)] /\ F[0] = <<>>
                   /\ \A k \in 1..Len(ops) :
                        OpPieces(ops[k]) \in Seq(T) /\ F[k] = F[k - 1] \o OpPieces(ops[k])
                   /\ \A k \in 0..Len(ops) : BatchPieces(SubSeq(ops, 1, k)) = F[k]
                   /\ BatchPieces(ops) = F[Len(ops)]
<1> DEFINE n == Len(ops)
           P(k) == OpPieces(ops[k])
           T == UNION {{P(k)[i] : i \in DOMAIN P(k)} : k \in 1..n}
           s == [k \in 1..n |-> P(k)]
<1>1. n \in Nat /\ DOMAIN ops = 1..n /\ IsSeq(ops)
  BY SeqFacts DEF OpsOk
<1> HIDE DEF n
<1>2. ASSUME NEW k \in 1..n PROVE IsSeq(P(k))
  BY <1>1, PiecesOfOp DEF OpsOk
<1>3. ASSUME NEW k \in 1..n PROVE P(k) \in Seq(T)
  <2> DEFINE E == {P(k)[i] : i \in DOMAIN P(k)}
  <2>1. P(k) \in Seq(E)
    BY <1>2 DEF IsSeq
  <2>2. E \subseteq T
    OBVIOUS
  <2> HIDE DEF E, T, P
  <2>3. QED
    BY ONLY <2>1, <2>2
<1> HIDE DEF T, P
<1>4. s \in Seq(Seq(T)) /\ Len(s) = n /\ \A k \in 1..n : s[k] = P(k)
  BY ONLY <1>1, <1>3
<1>5. PICK F \in [0..n -> Seq(T)] :
        F[0] = <<>> /\ \A k \in 1..n : F[k] = F[k - 1] \o s[k]
  <2> HIDE DEF s
  <2>1. QED
    BY ONLY <1>4, PrefixSums
<1>6. ASSUME NEW k \in 0..n PROVE BatchPieces(SubSeq(ops, 1, k)) = F[k]
  <2> DEFINE sub == SubSeq(ops, 1, k)
             t == [j \in DOMAIN sub |-> OpPieces(sub[j])]
  <2>1. Len(sub) = k /\ DOMAIN sub = 1..k /\ \A j \in 1..k : sub[j] = ops[j]
    <3> DEFINE O == {ops[j] : j \in DOMAIN ops}
    <3>1. ops \in Seq(O)
      BY <1>1 DEF IsSeq
    <3> HIDE DEF O
    <3>2. k \in Nat /\ k <= Len(ops) /\ 1 \in Int
      BY <1>1 DEF n
    <3>3. \A j \in 1..Len(ops) : ops[j] \in O
      BY <3>1
    <3>4. sub = [j \in 1..k |-> ops[j]]
      BY <3>2
    <3> HIDE DEF sub
    <3>5. sub \in Seq(O) /\ Len(sub) = k
      BY <3>2, <3>3, <3>4
    <3>6. QED
      BY <3>2, <3>4, <3>5
  <2> HIDE DEF sub
  <2>2. t = [j \in 1..k |-> P(j)]
    BY <2>1 DEF P
  <2>3. BatchPieces(SubSeq(ops, 1, k)) = FlattenSeq(t)
    BY DEF BatchPieces, sub
  <2>4. t \in Seq(Seq(T)) /\ Len(t) = k /\ \A j \in 1..k : t[j] = P(j)
    <3>1. k \in Nat /\ \A j \in 1..k : P(j) \in Seq(T)
      BY <1>1, <1>3
    <3> HIDE DEF t
    <3>2. QED
      BY ONLY <2>2, <3>1
  <2> HIDE DEF t
  <2>5. CASE k = 0
    <3>1. t = <<>> /\ Len(t) = 0
      BY ONLY <2>4, <2>5
    <3>2. FlattenSeq(t) = t
      BY ONLY <3>1 DEF FlattenSeq
    <3>3. QED
      BY ONLY <1>5, <2>3, <2>5, <3>1, <3>2
  <2>6. CASE k # 0
    <3> DEFINE Put(r, x) == r \o x
               G == [i \in 1..k |-> F[i]]
    <3>1. k \in Nat \ {0}
      BY <1>1, <2>6
    <3>2. \A i \in 1..k : i \in 1..n /\ (i # 1 => i - 1 \in 1..k)
      BY <1>1, <3>1
    <3>3. F[1] = t[1]
      <4>1. 1 \in 1..n /\ 1 \in 1..k /\ 1 - 1 = 0
        BY <3>1, <3>2
      <4>2. F[1] = <<>> \o t[1] /\ t[1] \in Seq(T)
        BY ONLY <1>3, <1>4, <1>5, <2>4, <4>1
      <4>3. QED
        BY ONLY <4>2, ConcatEmptySeq
    <3>4. \A i \in 1..k : F[i] = Put(F[i - 1], t[i])
      BY ONLY <1>4, <1>5, <2>4, <3>2
    <3> HIDE DEF Put
    <3>5. G = [i \in 1..k |-> IF i = 1 THEN t[i] ELSE Put(G[i - 1], t[i])]
      BY ONLY <3>1, <3>2, <3>3, <3>4
    <3> USE DEF Put
    <3>9. Joins(G, k, t)
      BY ONLY <3>5 DEF Joins
    <3>6. G[k] = F[k]
      BY <3>1
    <3> HIDE DEF G
    <3>7. FlattenSeq(t) = G[k]
      BY ONLY <2>4, <3>1, <3>9, FlattenedBy
    <3>8. QED
      BY <2>3, <3>6, <3>7
  <2>7. QED
    BY <2>5, <2>6
<1>7. SubSeq(ops, 1, n) = ops
  <2> DEFINE O == {ops[j] : j \in DOMAIN ops}
  <2>1. ops \in Seq(O)
    BY <1>1 DEF IsSeq
  <2> HIDE DEF O
  <2>2. QED
    BY ONLY <2>1, SubSeqFull DEF n
<1>8. BatchPieces(ops) = F[n]
  <2>1. n \in 0..n
    BY <1>1
  <2>2. BatchPieces(SubSeq(ops, 1, n)) = F[n]
    BY ONLY <1>6, <2>1
  <2>3. QED
    BY ONLY <1>7, <2>2
<1>9. \A k \in 1..n : OpPieces(ops[k]) \in Seq(T) /\ F[k] = F[k - 1] \o OpPieces(ops[k])
  BY ONLY <1>3, <1>4, <1>5 DEF P
<1>10. QED
  BY <1>5, <1>6, <1>8, <1>9 DEF n

LEMMA StartOf ==
  ASSUME NEW ops, OpsOk(ops)
  PROVE  /\ IsSeq(BatchPieces(ops)) /\ Len(BatchPieces(ops)) \in Nat
         /\ Len(ops) \in Nat /\ DOMAIN ops = 1..Len(ops)
         /\ Start(ops, 0) = 1 /\ Start(ops, Len(ops)) = 1 + Len(BatchPieces(ops))
         /\ \A k \in 0..Len(ops) : Start(ops, k) \in Nat \ {0}
         /\ \A k \in 1..Len(ops) :
              /\ Start(ops, k) = Start(ops, k - 1) + Sized(ops[k])
              /\ \A i \in 1..Sized(ops[k]) :
                   BatchPieces(ops)[Start(ops, k - 1) - 1 + i] = OpPieces(ops[k])[i]
<1> DEFINE n == Len(ops)
           P(k) == OpPieces(ops[k])
<1>1. n \in Nat /\ DOMAIN ops = 1..n
  BY SeqFacts DEF OpsOk
<1>2. PICK T, F :
        /\ F \in [0..n -> Seq(T)] /\ F[0] = <<>>
        /\ \A k \in 1..n : P(k) \in Seq(T) /\ F[k] = F[k - 1] \o P(k)
        /\ \A k \in 0..n : BatchPieces(SubSeq(ops, 1, k)) = F[k]
        /\ BatchPieces(ops) = F[n]
  BY PiecesSoFar
<1>3. \A k \in 1..n : Len(P(k)) = Sized(ops[k]) /\ Sized(ops[k]) \in Nat \ {0}
  BY <1>1, PiecesOfOp DEF OpsOk
<1> HIDE DEF n, P
<1>4. ASSUME NEW k \in 0..n PROVE F[k] \in Seq(T) /\ Len(F[k]) \in Nat
  <2>1. F[k] \in Seq(T)
    BY <1>2
  <2>2. QED
    BY ONLY <2>1
<1>5. \A k \in 0..n : Start(ops, k) = 1 + Len(F[k])
  BY ONLY <1>2 DEF Start
<1>6. ASSUME NEW k \in 1..n
      PROVE  /\ k - 1 \in 0..n /\ k \in 0..n
             /\ Len(F[k]) = Len(F[k - 1]) + Len(P(k))
             /\ \A i \in 1..Len(F[k - 1]) : F[k][i] = F[k - 1][i]
             /\ \A i \in 1..Len(P(k)) : F[k][Len(F[k - 1]) + i] = P(k)[i]
  <2>1. k - 1 \in 0..n /\ k \in 0..n
    BY <1>1
  <2>2. F[k - 1] \in Seq(T) /\ P(k) \in Seq(T) /\ F[k] = F[k - 1] \o P(k)
    BY ONLY <1>2, <1>4, <2>1, k \in 1..n
  <2> DEFINE a == F[k - 1]
             b == P(k)
  <2>3. a \in Seq(T) /\ b \in Seq(T)
    BY <2>2
  <2> HIDE DEF a, b
  <2>4. Len(a) \in Nat /\ Len(b) \in Nat
    BY ONLY <2>3
  <2>5. /\ Len(a \o b) = Len(a) + Len(b)
        /\ \A i \in 1..Len(a) : (a \o b)[i] = a[i]
        /\ \A i \in 1..Len(b) : (a \o b)[Len(a) + i] = b[i]
    BY ONLY <2>3, <2>4, ConcatProperties
  <2>6. QED
    BY ONLY <2>1, <2>2, <2>5 DEF a, b
<1>7. ASSUME NEW k \in 0..n
      PROVE  \A i \in 1..Len(F[k]) : F[n][i] = F[k][i]
  <2> DEFINE M == {m \in Nat : k + m <= n =>
                      /\ Len(F[k]) <= Len(F[k + m])
                      /\ \A i \in 1..Len(F[k]) : F[k + m][i] = F[k][i]}
  <2>1. k \in Nat /\ k + 0 = k /\ Len(F[k]) \in Nat
    BY <1>1, <1>4
  <2>2. 0 \in M
    BY ONLY <2>1
  <2>3. ASSUME NEW m \in M \cap Nat PROVE m + 1 \in M
    <3>1. SUFFICES ASSUME k + (m + 1) <= n
                   PROVE  /\ Len(F[k]) <= Len(F[k + (m + 1)])
                          /\ \A i \in 1..Len(F[k]) : F[k + (m + 1)][i] = F[k][i]
      OBVIOUS
    <3> DEFINE j == k + (m + 1)
    <3>2. j \in 1..n /\ j - 1 = k + m /\ k + m <= n
      BY ONLY <1>1, <2>1, <3>1, m \in Nat
    <3>3. Len(F[k]) <= Len(F[j - 1]) /\ \A i \in 1..Len(F[k]) : F[j - 1][i] = F[k][i]
      BY ONLY <3>2, m \in M
    <3> HIDE DEF j
    <3>4. j - 1 \in 0..n /\ Len(F[j - 1]) \in Nat /\ Len(P(j)) \in Nat
      BY ONLY <1>1, <1>3, <1>4, <3>2
    <3>5. Len(F[j]) = Len(F[j - 1]) + Len(P(j)) /\ \A i \in 1..Len(F[j - 1]) : F[j][i] = F[j - 1][i]
      BY ONLY <1>6, <3>2
    <3>6. Len(F[k]) <= Len(F[j])
      BY ONLY <2>1, <3>3, <3>4, <3>5
    <3>7. ASSUME NEW i \in 1..Len(F[k]) PROVE F[j][i] = F[k][i]
      <4>1. i \in 1..Len(F[j - 1])
        BY ONLY <2>1, <3>3, <3>4, i \in 1..Len(F[k])
      <4>2. QED
        BY ONLY <3>3, <3>5, <4>1, i \in 1..Len(F[k])
    <3>8. QED
      BY ONLY <3>6, <3>7 DEF j
  <2>4. Nat \subseteq M
    <3> HIDE DEF M
    <3>1. QED
      BY ONLY <2>2, <2>3, Counting
  <2>5. n - k \in Nat /\ k + (n - k) = n /\ n <= n
    BY ONLY <1>1, k \in 0..n
  <2>6. n - k \in M
    BY ONLY <2>4, <2>5
  <2>7. QED
    BY ONLY <2>5, <2>6
<1>8. ASSUME NEW k \in 1..n
      PROVE  /\ Start(ops, k) = Start(ops, k - 1) + Sized(ops[k])
             /\ \A i \in 1..Sized(ops[k]) :
                  BatchPieces(ops)[Start(ops, k - 1) - 1 + i] = P(k)[i]
  <2>1. k - 1 \in 0..n /\ k \in 0..n
    BY <1>6
  <2>2. Start(ops, k) = 1 + Len(F[k]) /\ Start(ops, k - 1) = 1 + Len(F[k - 1])
    BY ONLY <1>5, <2>1
  <2>3. /\ Len(F[k - 1]) \in Nat /\ Len(F[k]) = Len(F[k - 1]) + Sized(ops[k])
        /\ Sized(ops[k]) \in Nat \ {0}
    BY ONLY <1>3, <1>4, <1>6, <2>1, k \in 1..n
  <2>4. ASSUME NEW i \in 1..Sized(ops[k])
        PROVE  BatchPieces(ops)[Start(ops, k - 1) - 1 + i] = P(k)[i]
    <3>1. F[k][Len(F[k - 1]) + i] = P(k)[i]
      BY ONLY <1>3, <1>6, k \in 1..n, i \in 1..Sized(ops[k])
    <3>2. Len(F[k - 1]) + i \in 1..Len(F[k])
      BY ONLY <2>3, i \in 1..Sized(ops[k])
    <3>3. F[n][Len(F[k - 1]) + i] = F[k][Len(F[k - 1]) + i]
      BY ONLY <1>7, <2>1, <3>2
    <3>4. Start(ops, k - 1) - 1 + i = Len(F[k - 1]) + i
      BY ONLY <2>2, <2>3, i \in 1..Sized(ops[k])
    <3>5. BatchPieces(ops) = F[n]
      BY ONLY <1>2
    <3>6. QED
      BY ONLY <3>1, <3>3, <3>4, <3>5
  <2>5. QED
    BY ONLY <2>2, <2>3, <2>4
<1>9. 0 \in 0..n /\ n \in 0..n
  BY <1>1
<1>10. IsSeq(BatchPieces(ops)) /\ Len(BatchPieces(ops)) \in Nat
  BY ONLY <1>2, <1>4, <1>9, SeqIs
<1>11. Start(ops, 0) = 1
  <2>1. Len(F[0]) = 0
    BY ONLY <1>2
  <2>2. QED
    BY ONLY <1>5, <1>9, <2>1
<1>12. Start(ops, n) = 1 + Len(BatchPieces(ops))
  BY ONLY <1>2, <1>5, <1>9
<1>13. \A k \in 0..n : Start(ops, k) \in Nat \ {0}
  BY ONLY <1>4, <1>5
<1>14. QED
  BY ONLY <1>1, <1>8, <1>10, <1>11, <1>12, <1>13 DEF n, P

LEMMA PiecesOf ==
  ASSUME NEW c, AskOk(c), ask[c].method \in Uploads
  PROVE  /\ Len(Pieces(c)) \in Nat
         /\ ask[c].method \in {"update", "blank"} =>
              /\ Len(Pieces(c)) = 3 /\ Pieces(c)[1] = <<"op", "sparql">>
              /\ Pieces(c)[2] = <<"text", ask[c].text>> /\ Pieces(c)[3] = <<"params", "none">>
         /\ ask[c].method = "deserialize" => Len(Pieces(c)) = ask[c].n
         /\ ask[c].method = "array" =>
              /\ Len(Pieces(c)) = Start(ask[c].ops, Len(ask[c].ops))
              /\ Pieces(c)[1] = <<"count", Len(ask[c].ops)>>
              /\ \A r \in 1..Len(Pieces(c)) :
                   r # 1 => Pieces(c)[r] = BatchPieces(ask[c].ops)[r - 1]
<1>1. CASE ask[c].method \in {"update", "blank"}
  <2>1. Pieces(c) = << <<"op", "sparql">>, <<"text", ask[c].text>>, <<"params", "none">> >>
    BY <1>1 DEF Pieces
  <2>2. QED
    BY ONLY <1>1, <2>1
<1>2. CASE ask[c].method = "deserialize"
  <2> DEFINE n == ask[c].n
             p == [i \in 1..n |-> <<"rdf", ask[c].text, i>>]
  <2>1. Pieces(c) = p
    BY <1>2 DEF Pieces
  <2>2. n \in Nat
    BY DEF AskOk
  <2> HIDE DEF n
  <2>3. Len(p) = n
    <3> DEFINE T == {p[i] : i \in 1..n}
    <3>1. \A i \in 1..n : p[i] \in T
      OBVIOUS
    <3> HIDE DEF T
    <3>2. p \in Seq(T)
      BY ONLY <2>2, <3>1
    <3>3. QED
      BY ONLY <2>2, <3>2
  <2>4. QED
    BY ONLY <1>2, <2>1, <2>2, <2>3 DEF n
<1>3. CASE ask[c].method = "array"
  <2> DEFINE ops == ask[c].ops
             first == << <<"count", Len(ops)>> >>
             b == BatchPieces(ops)
             T == {<<"count", Len(ops)>>} \cup {b[k] : k \in DOMAIN b}
  <2>1. OpsOk(ops)
    BY DEF AskOk
  <2>2. Pieces(c) = first \o b
    BY <1>3 DEF Pieces
  <2> HIDE DEF ops
  <2>3. IsSeq(b) /\ Len(b) \in Nat /\ Start(ops, Len(ops)) = 1 + Len(b)
    BY ONLY <2>1, StartOf
  <2>4. first \in Seq(T) /\ Len(first) = 1 /\ first[1] = <<"count", Len(ops)>>
    OBVIOUS
  <2>5. b \in Seq(T)
    <3> HIDE DEF b
    <3>1. QED
      BY <2>3 DEF IsSeq
  <2> HIDE DEF first, b, T
  <2>6. /\ Len(first \o b) = 1 + Len(b)
        /\ \A i \in 1..1 + Len(b) : (first \o b)[i] = IF i <= 1 THEN first[i] ELSE b[i - 1]
    BY ONLY <2>4, <2>5, ConcatProperties
  <2>7. (first \o b)[1] = first[1] /\ \A i \in 1..1 + Len(b) : i # 1 => (first \o b)[i] = b[i - 1]
    BY ONLY <2>3, <2>6
  <2>8. QED
    BY ONLY <1>3, <2>2, <2>3, <2>4, <2>6, <2>7 DEF ops, b
<1>4. QED
  BY <1>1, <1>2, <1>3 DEF Uploads

(* Every token that is written is the one its reader expects there.           *)
LEMMA PieceWanted ==
  ASSUME NEW c, AskOk(c), Upload(c), ask[c].method = sent[c].method, MeantOk(c), ValuesOk(c),
         call[c].pos \in 1..Len(Pieces(c))
  PROVE  Wanted(c, call[c].pos, Piece(c))
<1> DEFINE r == call[c].pos
           ops == ask[c].ops
<1>1. OpsOk(ops) /\ ask[c].method \in Uploads
  BY DEF AskOk, Upload
<1>2. CASE OfText(c)
  <2>1. ~OfBatch(c)
    BY <1>2 DEF OfText, OfBatch
  <2>2. r = 2 => Piece(c) = <<"text", ask[c].text>>
    <3>1. Pieces(c)[2] = <<"text", ask[c].text>>
      BY <1>1, <1>2, PiecesOf DEF OfText
    <3>2. QED
      BY ONLY <3>1 DEF Piece
  <2>3. QED
    BY ONLY <2>1, <2>2 DEF Wanted
<1>3. CASE OfBatch(c)
  <2>1. ~OfText(c) /\ ask[c].method = "array"
    BY <1>3 DEF OfText, OfBatch
  <2>2. /\ Len(Pieces(c)) = Start(ops, Len(ops))
        /\ Pieces(c)[1] = <<"count", Len(ops)>>
        /\ \A i \in 1..Len(Pieces(c)) : i # 1 => Pieces(c)[i] = BatchPieces(ops)[i - 1]
    BY <1>1, <2>1, PiecesOf
  <2> HIDE DEF r, ops
  <2>3. r = 1 => Piece(c)[2] = Len(ops)
    BY ONLY <2>2 DEF Piece, r
  <2>4. ASSUME NEW k \in DOMAIN ops
        PROVE  Part(ops[k], meant[c][k].args, r - Start(ops, k - 1), Piece(c))
    <3> DEFINE op == ops[k]
               i == r - Start(ops, k - 1)
    <3>1. /\ k \in 1..Len(ops) /\ k - 1 \in 0..Len(ops) /\ Start(ops, k - 1) \in Nat \ {0}
          /\ \A j \in 1..Sized(op) : BatchPieces(ops)[Start(ops, k - 1) - 1 + j] = OpPieces(op)[j]
      <4>1. k \in 1..Len(ops) /\ k - 1 \in 0..Len(ops)
        BY <1>1, StartOf
      <4>2. QED
        BY ONLY <1>1, <4>1, StartOf
    <3>2. op.kind = "sparql" \/ (op.kind = "rdf" /\ op.n \in Nat \ {0})
      BY <1>1 DEF OpsOk
    <3>3. Sized(op) \in Nat \ {0}
      BY <3>2, PiecesOfOp
    <3>4. ASSUME i \in 1..Sized(op) PROVE Pieces(c)[r] = OpPieces(op)[i]
      <4>1. r \in 1..Len(Pieces(c))
        BY DEF r
      <4>2. r # 1 /\ r - 1 = Start(ops, k - 1) - 1 + i
        <5> DEFINE st == Start(ops, k - 1)
                   sz == Sized(op)
        <5>1. st \in Nat \ {0} /\ sz \in Nat \ {0} /\ r - st \in 1..sz /\ r \in Int
          BY ONLY <3>1, <3>3, <3>4, <4>1
        <5> HIDE DEF st, sz, r
        <5>2. r # 1 /\ r - 1 = st - 1 + (r - st)
          BY ONLY <5>1
        <5>3. QED
          BY ONLY <5>2 DEF st
      <4>3. QED
        BY ONLY <2>2, <3>1, <3>4, <4>1, <4>2
    <3>5. CASE op.kind = "sparql"
      <4>1. OpPieces(op) = << <<"op", "sparql">>, <<"text", op.text>>, <<"params", op.stmt>> >>
        BY ONLY <3>5 DEF OpPieces
      <4>2. Sized(op) = 3
        BY ONLY <3>5 DEF Sized
      <4>3. i = 1 => Pieces(c)[r] = <<"op", "sparql">>
        BY ONLY <3>4, <4>1, <4>2
      <4>4. i = 2 => Pieces(c)[r] = <<"text", op.text>>
        BY ONLY <3>4, <4>1, <4>2
      <4>5. i = 3 => Pieces(c)[r] = <<"params", op.stmt>>
        BY ONLY <3>4, <4>1, <4>2
      <4>6. Values(op.stmt) = meant[c][k].args
        BY <1>3, <3>5 DEF ValuesOk, ops
      <4>7. i = 1 => Piece(c) = <<"op", "sparql">>
        BY ONLY <4>3 DEF Piece, r
      <4>8. i = 2 => Piece(c) = <<"text", op.text>>
        BY ONLY <4>4 DEF Piece, r
      <4>9. i = 3 => Piece(c) = <<"params", Values(op.stmt)>>
        BY ONLY <4>5 DEF Piece, Values, r
      <4>10. QED
        BY ONLY <3>5, <4>6, <4>7, <4>8, <4>9 DEF Part
    <3>6. CASE op.kind = "rdf"
      <4> DEFINE n == op.n
                 h == << <<"op", "rdf">>, <<"graph", "default">> >>
                 q == [j \in 1..n |-> <<"data", op.text, n>>]
      <4>1. n \in Nat \ {0} /\ Sized(op) = 2 + n
        BY ONLY <3>2, <3>6 DEF Sized
      <4>2. OpPieces(op) = h \o q
        BY ONLY <3>6 DEF OpPieces
      <4> HIDE DEF n
      <4>3. \A j \in 1..(2 + n) : (h \o q)[j] = IF j <= 2 THEN h[j] ELSE q[j - 2]
        <5> DEFINE T == {<<"op", "rdf">>, <<"graph", "default">>, <<"data", op.text, n>>}
        <5>1. h \in Seq(T) /\ Len(h) = 2
          OBVIOUS
        <5>2. q \in Seq(T) /\ Len(q) = n
          BY <4>1
        <5> HIDE DEF T, h, q
        <5>3. \A j \in 1..Len(h) + Len(q) : (h \o q)[j] = IF j <= Len(h) THEN h[j] ELSE q[j - Len(h)]
          BY ONLY <5>1, <5>2, ConcatProperties
        <5>4. QED
          BY ONLY <5>1, <5>2, <5>3
      <4>4. (h \o q)[1] = <<"op", "rdf">>
        <5>1. 1 \in 1..(2 + n) /\ 1 <= 2
          BY ONLY <4>1
        <5>2. (h \o q)[1] = h[1]
          BY ONLY <4>3, <5>1
        <5>3. h[1] = <<"op", "rdf">>
          OBVIOUS
        <5>4. QED
          BY ONLY <5>2, <5>3
      <4>5. ASSUME NEW j \in 3..(2 + n) PROVE (h \o q)[j] = <<"data", op.text, n>>
        <5>1. j \in 1..(2 + n) /\ ~(j <= 2) /\ j - 2 \in 1..n
          BY ONLY <4>1, j \in 3..(2 + n)
        <5>2. (h \o q)[j] = q[j - 2]
          BY ONLY <4>3, <5>1
        <5>3. q[j - 2] = <<"data", op.text, n>>
          BY ONLY <5>1
        <5>4. QED
          BY ONLY <5>2, <5>3
      <4>6. i = 1 => Pieces(c)[r] = <<"op", "rdf">>
        BY ONLY <3>4, <4>1, <4>2, <4>4
      <4>7. i \in 3..(2 + n) => Pieces(c)[r] = <<"data", op.text, n>>
        <5>1. i \in 3..(2 + n) => i \in 1..Sized(op)
          BY ONLY <4>1
        <5>2. QED
          BY ONLY <3>4, <4>2, <4>5, <5>1
      <4>8. i = 1 => Piece(c) = <<"op", "rdf">>
        BY ONLY <4>6 DEF Piece, r
      <4>9. i \in 3..(2 + n) => Piece(c) = <<"data", op.text, n>>
        BY ONLY <4>7 DEF Piece, r
      <4>10. QED
        BY ONLY <3>6, <4>1, <4>8, <4>9 DEF Part, n
    <3>7. QED
      BY <3>2, <3>5, <3>6
  <2>5. QED
    BY ONLY <2>1, <2>3, <2>4 DEF Wanted, r, ops
<1>4. CASE OfData(c)
  BY <1>4 DEF OfData, OfText, OfBatch, Wanted
<1>5. QED
  BY <1>2, <1>3, <1>4 DEF Upload, Uploads, OfText, OfBatch, OfData

(* ---- What a step is not about                                              *)

(* What a step leaves of a call whose update it is not about.                 *)
Spares(d) ==
  /\ sent'[d] = sent[d] /\ ask'[d] = ask[d] /\ meant'[d] = meant[d]
  /\ Upload(d) =>
       /\ pipe'[d] = pipe[d] /\ reply'[d] = reply[d]
       /\ req'[d].phase = req[d].phase /\ req'[d].host = req[d].host /\ req'[d].text = req[d].text
       /\ call'[d].phase = call[d].phase /\ call'[d].write = call[d].write
       /\ call'[d].pos = call[d].pos /\ call'[d].dbus = call[d].dbus
       /\ call'[d].result = call[d].result
       /\ call'[d].cancelled => call[d].cancelled \/ disturbed' # {}
       /\ arguments' = arguments \/ (call[d].write = "busy" => ValuesOk(d)')
  /\ call'[d].phase = "idle" =>
       /\ call[d].phase = "idle" /\ call'[d].pos = call[d].pos /\ call'[d].dbus = call[d].dbus
       /\ d \in Asked /\ call'[d].cancelled => call[d].cancelled \/ disturbed' # {}
  /\ req'[d].host \in {"none", req[d].host, sent[d].path}

StoreSpares(d) ==
  /\ outcome'[d] = outcome[d]
  /\ (Waits(d)' <=> Waits(d)) /\ (Runs(d)' <=> Runs(d)) /\ (Runs(d) => running' = running)
  /\ Entries(d)' = Entries(d) /\ \A k \in Entries(d) : log'[k] = log[k]

Settled == disturbed \subseteq disturbed' /\ policy'["service"] = policy["service"]

LEMMA SparedCall ==
  ASSUME NEW d \in Calls, CommitInv(d), RequestOf(d)', Spares(d), StoreSpares(d), Settled
  PROVE  CommitInv(d)'
<1>1. /\ sent'[d] = sent[d] /\ ask'[d] = ask[d] /\ meant'[d] = meant[d]
      /\ (Upload(d)' <=> Upload(d)) /\ (OfText(d)' <=> OfText(d)) /\ (OfBatch(d)' <=> OfBatch(d))
      /\ (OfData(d)' <=> OfData(d)) /\ (Sent(d)' <=> Sent(d))
  BY DEF Spares, Upload, OfText, OfBatch, OfData, Sent
<1>2. Text(d)' = Text(d)
  BY <1>1 DEF Text, Rewritten, Settled
<1>3. AskOk(d)' /\ UnsentOk(d)' /\ HostOk(d)'
  <2>1. d \in Asked' <=> d \in Asked
    BY <1>1 DEF Asked
  <2>2. QED
    BY <1>1, <2>1 DEF CommitInv, AskOk, UnsentOk, HostOk, Spares, Settled
<1>4. TaskOk(d)'
  <2>1. CASE Upload(d)
    BY <1>1, <2>1 DEF CommitInv, TaskOk, Active, Spares, StoreSpares
  <2>2. CASE ~Upload(d)
    <3>1. outcome[d] = "none" /\ ~Waits(d) /\ ~Runs(d)
      BY <2>2 DEF CommitInv, TaskOk, Active
    <3>2. req'[d].phase \notin UploadPhases
      BY <1>1, <2>2 DEF RequestOf, Upload
    <3>3. QED
      BY <1>1, <2>2, <3>1, <3>2 DEF TaskOk, StoreSpares, UploadPhases
  <2>3. QED
    BY <2>1, <2>2
<1>5. Shortened(d)' = Shortened(d)
  BY <1>1 DEF Shortened
<1>6. LogOk(d)'
  <2>1. \A ops : Partly(d, ops) => Partly(d, ops)'
    BY <1>1, <1>5 DEF Partly, Settled
  <2>2. QED
    BY <1>1, <2>1 DEF CommitInv, LogOk, StoreSpares
<1>7. ReplyOk(d)'
  BY <1>1 DEF CommitInv, ReplyOk, Spares, StoreSpares
<1>8. ASSUME Upload(d) PROVE MeantOk(d)' /\ TokensFit(d)' /\ RunOk(d)' /\ ReadOk(d)'
  <2>1. MeantOk(d) /\ TokensFit(d) /\ RunOk(d) /\ ReadOk(d)
    BY <1>8 DEF CommitInv, UploadOk
  <2>2. pipe'[d] = pipe[d] /\ call'[d].pos = call[d].pos /\ Read(d)' = Read(d)
    BY <1>8 DEF Spares, Read
  <2>3. MeantOk(d)'
    BY <1>1, <1>2, <2>1 DEF MeantOk
  <2>4. Pieces(d)' = Pieces(d)
    BY <1>1 DEF Pieces
  <2>5. \A r, token : Wanted(d, r, token)' <=> Wanted(d, r, token)
    BY <1>1 DEF Wanted
  <2>6. TokensFit(d)'
    BY <2>1, <2>2, <2>4, <2>5 DEF TokensFit
  <2>7. RunOk(d)'
    <3>1. ASSUME Runs(d) PROVE Reads(d, running) => Reads(d, running)'
      <4>1. running' = running
        BY <3>1 DEF StoreSpares
      <4>2. QED
        BY <1>1, <2>2, <4>1 DEF Reads
    <3>2. QED
      BY <1>1, <2>1, <2>2, <3>1 DEF RunOk, StoreSpares
  <2>8. ReadOk(d)'
    BY <1>1, <1>2, <1>8, <2>1, <2>2 DEF ReadOk, Active, Spares, StoreSpares
  <2>9. QED
    BY <2>3, <2>6, <2>7, <2>8
<1>9. ASSUME Upload(d) PROVE WriterOk(d)' /\ ClientOk(d)'
  <2>1. WriterOk(d) /\ ClientOk(d)
    BY <1>9 DEF CommitInv, UploadOk
  <2>2. /\ pipe'[d] = pipe[d] /\ reply'[d] = reply[d] /\ outcome'[d] = outcome[d]
        /\ call'[d].phase = call[d].phase /\ call'[d].write = call[d].write
        /\ call'[d].dbus = call[d].dbus /\ call'[d].result = call[d].result
        /\ (call'[d].cancelled => call[d].cancelled \/ disturbed' # {})
        /\ (disturbed # {} => disturbed' # {})
    BY <1>9 DEF Spares, StoreSpares, Settled
  <2>3. Pieces(d)' = Pieces(d) /\ (Ended(d)' <=> Ended(d))
    BY <1>1, <1>9 DEF Pieces, Ended, Spares
  <2>4. call[d].write = "busy" => ValuesOk(d)'
    <3>1. arguments' = arguments /\ ValuesOk(d) => ValuesOk(d)'
      BY <1>1 DEF ValuesOk, Values
    <3>2. QED
      BY <1>9, <2>1, <3>1 DEF WriterOk, Spares
  <2>5. WriterOk(d)'
    BY ONLY <1>1, <2>1, <2>2, <2>3, <2>4 DEF WriterOk, Active
  <2>6. ClientOk(d)'
    BY ONLY <2>1, <2>2 DEF ClientOk
  <2>7. QED
    BY <2>5, <2>6
<1>10. QED
  BY <1>1, <1>3, <1>4, <1>6, <1>7, <1>8, <1>9 DEF CommitInv, UploadOk

(* What holds of a call that carries an update.                               *)
LEMMA UploadFacts ==
  ASSUME IInv, NEW d \in Calls, Upload(d)
  PROVE  /\ d \in Asked /\ Sent(d) /\ ask[d].method = sent[d].method
         /\ ~Download(d) /\ ~IsHttp(d) /\ ask[d].method \in Uploads
         /\ (OfText(d) \/ OfBatch(d) \/ OfData(d))
<1>1. Sent(d) /\ SaysOf(d) /\ ~Download(d)
  BY DEF IInv, CallInv, Upload, Sent, Uploads, Download, Downloads
<1>2. d \in Asked
  <2>1. SUFFICES ASSUME NEW o \in Calls, Relays(o, d) PROVE FALSE
    BY <1>1 DEF SaysOf
  <2>2. sent[d].method = sent[o].method /\ Download(o)
    BY <2>1 DEF Relays
  <2>3. QED
    BY <1>1, <2>2 DEF Download
<1>3. QED
  BY <1>1, <1>2 DEF SaysOf, Upload, Uploads, IsHttp, OfText, OfBatch, OfData

(* Connections, bindings and sessions stay; faults only happen.               *)
Quiet ==
  /\ UNCHANGED <<policy, rebinds, meant>> /\ Opened' = Opened /\ disturbed \subseteq disturbed'

LEMMA QuietKeeps ==
  ASSUME CInv, Quiet, \A d \in Calls : ask'[d] = ask[d]
  PROVE  Settled /\ RebindsOk' /\ ReadonlySessions'
<1>1. Asked' = Asked
  BY DEF Asked
<1>2. RebindsOk'
  BY <1>1 DEF CInv, RebindsOk, Quiet, Uses, Asked
<1>3. QED
  BY <1>2 DEF CInv, Settled, ReadonlySessions, Quiet

LEMMA QueueKept ==
  ASSUME IInv, CInv, Settled, queue' = queue, outcome' = outcome,
         \A d \in Calls : sent'[d] = sent[d] /\ ask'[d] = ask[d]
  PROVE  Queue'
<1>1. \A k \in DOMAIN queue : queue[k].call \in Calls
  BY DEF IInv, Tasks
<1>2. \A d \in Calls : (OfText(d)' <=> OfText(d)) /\ Text(d)' = Text(d)
  BY DEF OfText, Text, Rewritten, Settled
<1>3. QED
  BY <1>1, <1>2 DEF CInv, Queue

LEMMA StoreKept ==
  ASSUME UNCHANGED storeVars, NEW d
  PROVE  StoreSpares(d)
BY DEF StoreSpares, storeVars, Waits, Runs, Entries

(* A step that leaves all updates and the store alone.                        *)
LEMMA SparedStep ==
  ASSUME IInv, IInv', CInv, Quiet, UNCHANGED storeVars, \A d \in Calls : Spares(d)
  PROVE  CInv'
<1>1. Settled /\ RebindsOk' /\ ReadonlySessions'
  BY QuietKeeps DEF Spares
<1>2. Queue'
  BY <1>1, QueueKept DEF Spares, storeVars
<1>3. ASSUME NEW d \in Calls PROVE CommitInv(d)'
  <2>1. CommitInv(d) /\ RequestOf(d)' /\ Spares(d) /\ StoreSpares(d)
    BY StoreKept DEF IInv, CallInv, CInv
  <2>2. QED
    BY <1>1, <2>1, SparedCall
<1>4. QED
  BY <1>1, <1>2, <1>3 DEF CInv

(* A step that is about one call.                                             *)
OnlyFor(c) ==
  /\ UNCHANGED <<sent, ask, meant, arguments>>
  /\ \A d \in Calls \ {c} :
       pipe'[d] = pipe[d] /\ reply'[d] = reply[d] /\ req'[d] = req[d] /\ call'[d] = call[d]

LEMMA OthersSpared ==
  ASSUME CInv, Quiet, NEW c, OnlyFor(c), NEW d \in Calls, d # c
  PROVE  Spares(d)
<1>1. pipe'[d] = pipe[d] /\ reply'[d] = reply[d] /\ req'[d] = req[d] /\ call'[d] = call[d]
  BY DEF OnlyFor
<1>2. QED
  BY <1>1 DEF Spares, OnlyFor

(* One that is not an update.                                                 *)
LEMMA OtherStep ==
  ASSUME IInv, IInv', CInv, Quiet, UNCHANGED storeVars, NEW c \in Calls, ~Upload(c), OnlyFor(c),
         call'[c].phase # "idle" \/ call'[c] = call[c],
         req'[c].host \in {"none", req[c].host, sent[c].path}
  PROVE  CInv'
<1>1. Spares(c)
  BY DEF Spares, OnlyFor
<1>2. \A d \in Calls : Spares(d)
  BY <1>1, OthersSpared
<1>3. QED
  BY <1>2, SparedStep

(* One that is.                                                               *)
LEMMA OwnStep ==
  ASSUME IInv, IInv', CInv, Quiet, NEW c \in Calls, OnlyFor(c),
         \A d \in Calls \ {c} : StoreSpares(d), Queue', CommitInv(c)'
  PROVE  CInv'
<1>1. Settled /\ RebindsOk' /\ ReadonlySessions'
  BY QuietKeeps DEF OnlyFor
<1>2. ASSUME NEW d \in Calls, d # c PROVE CommitInv(d)'
  <2>1. CommitInv(d) /\ RequestOf(d)' /\ Spares(d) /\ StoreSpares(d)
    BY <1>2, OthersSpared DEF IInv, CallInv, CInv
  <2>2. QED
    BY <1>1, <2>1, SparedCall
<1>3. QED
  BY <1>1, <1>2 DEF CInv

(* ---- Steps that leave all updates as they are                              *)

LEMMA CallFields ==
  ASSUME Shape, NEW d \in Calls, NEW b \in BOOLEAN, call'[d] = [call[d] EXCEPT !.cancelled = b]
  PROVE  /\ call'[d].phase = call[d].phase /\ call'[d].write = call[d].write
         /\ call'[d].pos = call[d].pos /\ call'[d].dbus = call[d].dbus
         /\ call'[d].result = call[d].result
<1>1. IsCall(call[d])
  BY Shapes
<1>2. QED
  BY <1>1 DEF IsCall

(* Nothing happens but that calls and requests are cancelled.                 *)
LEMMA QuietStep ==
  ASSUME IInv, IInv', CInv, Quiet, UNCHANGED storeVars, OnlyCancels \/ (call' = call /\ req' = req),
         UNCHANGED <<sent, ask, meant, pipe, reply, arguments>>,
         \A d \in Asked : call'[d].cancelled => call[d].cancelled \/ disturbed' # {}
  PROVE  CInv'
<1>1. ASSUME NEW d \in Calls PROVE Spares(d)
  <2>1. CASE call' = call /\ req' = req
    BY <2>1 DEF Spares
  <2>2. CASE OnlyCancels
    <3>1. Shape /\ \E b \in BOOLEAN : call'[d] = [call[d] EXCEPT !.cancelled = b]
      BY <2>2 DEF OnlyCancels, IInv
    <3>2. /\ call'[d].phase = call[d].phase /\ call'[d].write = call[d].write
          /\ call'[d].pos = call[d].pos /\ call'[d].dbus = call[d].dbus
          /\ call'[d].result = call[d].result
      BY <3>1, CallFields
    <3>3. req'[d].phase = req[d].phase /\ req'[d].host = req[d].host /\ req'[d].text = req[d].text
      BY <2>2, <3>1, CancelMarks
    <3>4. Upload(d) => d \in Asked
      BY UploadFacts
    <3>5. QED
      BY <3>2, <3>3, <3>4 DEF Spares
  <2>3. QED
    BY <2>1, <2>2
<1>2. QED
  BY <1>1, SparedStep

LEMMA CommitsStutter ==
  ASSUME IInv, IInv', CInv, UNCHANGED vars
  PROVE  CInv'
<1>1. /\ UNCHANGED <<policy, rebinds, disturbed, sessions>> /\ call' = call /\ req' = req
      /\ UNCHANGED storeVars /\ UNCHANGED <<sent, ask, meant, pipe, reply, arguments>>
  BY DEF vars, busVars, endpointVars, requestVars, clientVars, portalVars, remoteVars
<1>2. QED
  BY <1>1, QuietStep DEF Quiet, Opened

LEMMA CommitsPingPeer ==
  ASSUME IInv, IInv', CInv, NEW cl \in Clients, PingPeer(cl)
  PROVE  CInv'
<1>1. /\ UNCHANGED <<policy, rebinds, disturbed, sessions>> /\ call' = call /\ req' = req
      /\ UNCHANGED storeVars /\ UNCHANGED <<sent, ask, meant, pipe, reply, arguments>>
  BY DEF PingPeer, busVars, endpointVars, requestVars, clientVars, portalVars
<1>2. QED
  BY <1>1, QuietStep DEF Quiet, Opened

LEMMA CommitsNamesRead ==
  ASSUME IInv, IInv', CInv, NEW c \in Calls, NamesRead(c)
  PROVE  CInv'
<1>1. /\ UNCHANGED <<policy, rebinds, disturbed, sessions>> /\ call' = call /\ req' = req
      /\ UNCHANGED storeVars /\ UNCHANGED <<sent, ask, meant, pipe, reply, arguments>>
  BY DEF NamesRead, busVars, endpointVars, requestVars, clientVars, portalVars
<1>2. QED
  BY <1>1, QuietStep DEF Quiet, Opened

LEMMA CommitsCloseConnection ==
  ASSUME IInv, IInv', CInv, NEW cl \in Clients, CloseConnection(cl)
  PROVE  CInv'
<1>1. /\ UNCHANGED <<policy, rebinds, sessions>> /\ call' = call /\ req' = req
      /\ UNCHANGED storeVars /\ UNCHANGED <<sent, ask, meant, pipe, reply, arguments>>
      /\ disturbed \subseteq disturbed'
  BY DEF CloseConnection, busVars, endpointVars, requestVars, clientVars, portalVars
<1>2. QED
  BY <1>1, QuietStep DEF Quiet, Opened

LEMMA CommitsCloseSession ==
  ASSUME IInv, IInv', CInv, NEW cl \in Clients, CloseSession(cl)
  PROVE  CInv'
<1>1. /\ UNCHANGED storeVars /\ UNCHANGED <<sent, ask, meant, pipe, reply, arguments>>
      /\ UNCHANGED <<policy, rebinds, disturbed>>
  BY DEF CloseSession, ClearSession, busVars, endpointVars, clientVars, remoteVars
<1>2. disturbed # {}
  BY DEF IInv, Links, CloseSession, LinkOk
<1>3. /\ OnlyCancels \/ (call' = call /\ req' = req)
      /\ Opened' = Opened
  <2>1. CASE link[cl].path \in Opened /\ sessions[link[cl].path] = cl
    BY <1>1, <1>2, <2>1, SessionCleared DEF CloseSession, ObjectsGo, Opened, Fcn
  <2>2. CASE ~(link[cl].path \in Opened /\ sessions[link[cl].path] = cl)
    BY <2>2 DEF CloseSession, portalVars, requestVars, clientVars, Opened
  <2>3. QED
    BY <2>1, <2>2
<1>4. QED
  BY <1>1, <1>2, <1>3, QuietStep DEF Quiet

LEMMA CommitsPeerVanished ==
  ASSUME IInv, IInv', CInv, NEW s \in Hosts, PeerVanished(s)
  PROVE  CInv'
<1>1. /\ UNCHANGED storeVars /\ UNCHANGED <<sent, ask, meant, pipe, reply, arguments>>
      /\ UNCHANGED <<policy, rebinds, disturbed>>
  BY DEF PeerVanished, ClearSession, busVars, endpointVars, remoteVars
<1>2. s \in Opened /\ ClearSession(s) /\ disturbed # {}
  BY DEF PeerVanished
<1>3. OnlyCancels /\ Opened' = Opened
  BY <1>1, <1>2, SessionCleared DEF ObjectsGo, Opened, Fcn
<1>4. QED
  BY <1>1, <1>2, <1>3, QuietStep DEF Quiet

LEMMA CommitsEndpointFinalized ==
  ASSUME IInv, IInv', CInv, EndpointFinalized
  PROVE  CInv'
<1>1. /\ UNCHANGED storeVars /\ UNCHANGED <<sent, ask, meant, pipe, reply, arguments>>
      /\ UNCHANGED <<policy, rebinds, call, sessions>> /\ disturbed \subseteq disturbed'
      /\ Finalized("service")
  BY DEF EndpointFinalized, Happens, busVars, endpointVars, clientVars, portalVars
<1>2. OnlyCancels
  BY <1>1, FinalizedMarks, MarksOnly DEF IInv, Shape, CallShape
<1>3. QED
  BY <1>1, <1>2, QuietStep DEF Quiet, Opened

LEMMA CommitsWebServer ==
  ASSUME IInv, IInv', CInv, NEW c \in Calls, WebServerStep(c)
  PROVE  CInv'
<1>1. /\ UNCHANGED <<policy, rebinds, disturbed, sessions>> /\ call' = call /\ req' = req
      /\ UNCHANGED storeVars /\ UNCHANGED <<sent, ask, meant, pipe, reply, arguments>>
  BY DEF WebServerStep, busVars, endpointVars, requestVars, clientVars, portalVars, remoteVars
<1>2. QED
  BY <1>1, QuietStep DEF Quiet, Opened

LEMMA CommitsWatched ==
  ASSUME IInv, IInv', CInv, NEW c \in Calls, Watched(c)
  PROVE  CInv'
<1>1. /\ UNCHANGED storeVars /\ UNCHANGED <<sent, ask, meant, pipe, reply, arguments>>
      /\ UNCHANGED <<policy, rebinds, disturbed, sessions>>
      /\ req' = [req EXCEPT ![c].cancelled = TRUE]
      /\ IF InSession(c) THEN CancelInner({c}) ELSE call' = call
  BY DEF Watched, FdWatch, busVars, endpointVars, portalVars, remoteVars
<1>2. /\ Shape /\ Links /\ LinkShape /\ SaysOf(c) /\ Fcn(req, Calls)
      /\ \A d \in Calls : IsCall(call[d]) /\ IsRequest(req[d])
  BY Shapes DEF IInv, Shape, CallInv
<1>3. Fcn(req', Calls) /\ \A d \in Calls : \E b \in BOOLEAN : req'[d] = [req[d] EXCEPT !.cancelled = b]
  <2>1. /\ Fcn(req', Calls) /\ req'[c] = [req[c] EXCEPT !.cancelled = TRUE]
        /\ \A d \in Calls \ {c} : req'[d] = req[d]
    BY ONLY <1>1, <1>2, c \in Calls DEF Fcn
  <2>2. ASSUME NEW d \in Calls, d # c
        PROVE  req[d] = [req[d] EXCEPT !.cancelled = req[d].cancelled] /\ req[d].cancelled \in BOOLEAN
    BY <1>2, <2>2 DEF IsRequest
  <2>3. QED
    BY <2>1, <2>2
<1>4. OnlyCancels
  <2>1. Fcn(call, Calls)
    BY <1>2, Shapes
  <2>2. QED
    BY <1>1, <1>2, <1>3, <2>1, InnerMarks, MarksOnly
<1>5. ASSUME NEW d \in Calls, d \in Asked, call'[d].cancelled PROVE call[d].cancelled
  <2>1. CASE InSession(c)
    <3>1. Inner[c] \notin Asked
      BY <1>2, <2>1, OpenedPaths, InnerOf
    <3>2. call'[d] = [call[d] EXCEPT !.cancelled = @ \/ (\E r \in {c} : Inner[r] = d)]
      BY <1>1, <2>1 DEF CancelInner
    <3>3. ~(\E r \in {c} : Inner[r] = d)
      BY <1>5, <3>1
    <3>4. QED
      BY <1>2, <1>5, <3>2, <3>3 DEF IsCall
  <2>2. CASE ~InSession(c)
    BY <1>1, <1>5, <2>2
  <2>3. QED
    BY <2>1, <2>2
<1>6. QED
  BY <1>1, <1>4, <1>5, QuietStep DEF Quiet, Opened, Asked

LEMMA CommitsCancel ==
  ASSUME IInv, IInv', CInv, NEW c \in Calls, Cancel(c)
  PROVE  CInv'
<1>1. /\ UNCHANGED storeVars /\ UNCHANGED <<sent, ask, meant, pipe, reply, arguments>>
      /\ UNCHANGED <<policy, rebinds, sessions, req>>
      /\ disturbed' = disturbed \cup {"cancel"} /\ call' = [call EXCEPT ![c].cancelled = TRUE]
  BY DEF Cancel, CancelCall, busVars, endpointVars, requestVars, portalVars
<1>2. /\ Shape /\ Fcn(call, Calls) /\ Fcn(req, Calls)
      /\ \A d \in Calls : IsCall(call[d]) /\ IsRequest(req[d])
  BY Shapes DEF IInv
<1>3. Fcn(call', Calls) /\ \A d \in Calls : \E b \in BOOLEAN : call'[d] = [call[d] EXCEPT !.cancelled = b]
  <2>1. /\ Fcn(call', Calls) /\ call'[c] = [call[c] EXCEPT !.cancelled = TRUE]
        /\ \A d \in Calls \ {c} : call'[d] = call[d]
    BY ONLY <1>1, <1>2, c \in Calls DEF Fcn
  <2>2. ASSUME NEW d \in Calls, d # c
        PROVE  call[d] = [call[d] EXCEPT !.cancelled = call[d].cancelled] /\ call[d].cancelled \in BOOLEAN
    BY <1>2, <2>2 DEF IsCall
  <2>3. QED
    BY <2>1, <2>2
<1>4. OnlyCancels
  BY <1>1, <1>2, <1>3, MarksOnly
<1>5. QED
  BY <1>1, <1>4, QuietStep DEF Quiet, Opened

LEMMA CommitsOpenSession ==
  ASSUME IInv, IInv', CInv, NEW cl \in Clients, OpenSession(cl)
  PROVE  CInv'
<1>1. /\ UNCHANGED storeVars /\ UNCHANGED <<sent, ask, meant, pipe, reply, arguments>>
      /\ UNCHANGED <<rebinds, disturbed>> /\ call' = call /\ req' = req
  BY DEF OpenSession, CreateSession, busVars, clientVars, portalVars
<1>2. CASE ~CanCreateSession("service")
  <2>1. UNCHANGED <<policy, sessions>>
    BY <1>2 DEF OpenSession, portalVars
  <2>2. QED
    BY <1>1, <2>1, QuietStep DEF Quiet, Opened
<1>3. CASE CanCreateSession("service")
  <2>1. /\ Opened' = Opened \cup {NextSession}
        /\ policy' = [policy EXCEPT ![NextSession] =
                        [OpenPolicy EXCEPT !.readonly = TRUE, !.graphs = granted.graphs]]
    BY <1>3 DEF OpenSession, CreateSession, Opened
  <2>2. NextSession # "service" /\ NextSession \in Hosts /\ NextSession \notin Opened
    <3>1. LinkShape /\ Cardinality(Opened) < Len(SessionPaths)
      BY <1>3 DEF CanCreateSession, IInv, Shape
    <3>2. QED
      BY <2>1, <3>1, NextPath
  <2>3. /\ policy'["service"] = policy["service"] /\ policy'[NextSession].readonly
        /\ \A h \in Opened : policy'[h] = policy[h]
    <3>1. Fcn(policy, Hosts) /\ "service" \in Hosts /\ Opened \subseteq Hosts
      BY OpenedPaths, SitesAssumption DEF IInv, Shape, StoreShape
    <3>2. policy' = [policy EXCEPT ![NextSession] = policy'[NextSession]]
          /\ policy'[NextSession] = [OpenPolicy EXCEPT !.readonly = TRUE, !.graphs = granted.graphs]
      BY <2>1, <2>2, <3>1 DEF Fcn
    <3>3. policy'[NextSession].readonly
      BY <3>2 DEF OpenPolicy
    <3>4. QED
      BY <2>2, <3>1, <3>2, <3>3 DEF Fcn
  <2>4. Settled /\ ReadonlySessions'
    BY <1>1, <2>1, <2>3 DEF Settled, ReadonlySessions, CInv
  <2>5. Queue'
    BY <1>1, <2>4, QueueKept DEF storeVars
  <2>6. RebindsOk'
    <3>1. Asked' = Asked
      BY <1>1 DEF Asked
    <3>2. QED
      BY <1>1, <3>1 DEF CInv, RebindsOk, Uses
  <2>7. ASSUME NEW d \in Calls PROVE CommitInv(d)'
    <3>1. Spares(d) /\ StoreSpares(d) /\ CommitInv(d) /\ RequestOf(d)'
      BY <1>1, StoreKept DEF Spares, CInv, IInv, CallInv
    <3>2. QED
      BY <2>4, <3>1, SparedCall
  <2>8. QED
    BY <2>4, <2>5, <2>6, <2>7 DEF CInv
<1>4. QED
  BY <1>2, <1>3

(* ---- Steps of calls that ask for rows                                      *)

PipeOf(c) ==
  \/ (\E t : Written(c, t)) \/ Consumed(c) \/ WriterClosed(c) \/ ReaderClosed(c)
  \/ UNCHANGED pipe

LEMMA OtherPipes ==
  ASSUME Shape, NEW c \in Calls, PipeOf(c)
  PROVE  \A d \in Calls \ {c} : pipe'[d] = pipe[d]
BY PipeMoves DEF PipeOf

LEMMA NoUpload ==
  ASSUME IInv, NEW c \in Calls,
         \/ call[c].cursor # "none" \/ ask[c].method \notin Uploads
         \/ req[c].phase \in RowPhases \cup {"executing", "ending"}
  PROVE  ~Upload(c)
<1>1. SaysOf(c) /\ RequestOf(c)
  BY DEF IInv, CallInv
<1>2. SUFFICES ASSUME Upload(c) PROVE FALSE
  OBVIOUS
<1>3. ~Download(c) /\ ~IsHttp(c) /\ ask[c].method \in Uploads
  BY <1>2, UploadFacts
<1>4. QED
  BY <1>1, <1>3 DEF SaysOf, RequestOf

(* What such a step does to its call and its request.                         *)
LEMMA RowStep ==
  ASSUME IInv, IInv', CInv, NEW c \in Calls, ~Upload(c), PipeOf(c),
         UNCHANGED <<sent, ask, meant, arguments, policy, rebinds, disturbed, sessions>>,
         UNCHANGED storeVars,
         \A d \in Calls \ {c} :
           reply'[d] = reply[d] /\ req'[d] = req[d] /\ call'[d] = call[d],
         call'[c].phase # "idle" \/ call'[c] = call[c],
         req'[c].host \in {"none", req[c].host, sent[c].path}
  PROVE  CInv'
<1>1. OnlyFor(c)
  BY OtherPipes DEF OnlyFor, IInv
<1>2. Quiet
  BY DEF Quiet, Opened
<1>3. QED
  BY <1>1, <1>2, OtherStep

LEMMA CommitsCursor ==
  ASSUME IInv, IInv', CInv, NEW c \in Calls, CursorNext(c) \/ StreamRead(c) \/ CloseCursor(c),
         ClientFrame
  PROVE  CInv'
<1>1. Shape /\ Fcn(call, Calls) /\ IsCall(call[c])
  BY Shapes DEF IInv
<1>2. /\ UNCHANGED <<sent, ask, meant, arguments, policy, rebinds, disturbed, sessions, reply, req>>
      /\ UNCHANGED storeVars
  BY DEF CursorNext, StreamRead, CloseCursor, ClientFrame, endpointVars, requestVars, portalVars,
     remoteVars
<1>3. ~Upload(c)
  BY NoUpload DEF CursorNext, StreamRead, CloseCursor
<1>4. PICK r : /\ call' = [call EXCEPT ![c] = r] /\ r.phase = call[c].phase /\ r.pos = call[c].pos
               /\ r.dbus = call[c].dbus
  <2>1. \/ \E s : call' = [call EXCEPT ![c].cursor = s]
        \/ \E row : CursorRow(c, row)
    BY DEF CursorNext, StreamRead, CloseCursor
  <2>2. CASE \E s : call' = [call EXCEPT ![c].cursor = s]
    <3>1. PICK s : call' = [call EXCEPT ![c].cursor = s]
      BY <2>2
    <3>2. [call[c] EXCEPT !.cursor = s].phase = call[c].phase
          /\ [call[c] EXCEPT !.cursor = s].pos = call[c].pos
          /\ [call[c] EXCEPT !.cursor = s].dbus = call[c].dbus
      BY ONLY <1>1 DEF IsCall
    <3>3. call' = [call EXCEPT ![c] = [call[c] EXCEPT !.cursor = s]]
      BY <3>1
    <3>4. QED
      BY <3>2, <3>3
  <2>3. CASE \E row : CursorRow(c, row)
    <3>1. PICK row : CursorRow(c, row)
      BY <2>3
    <3> DEFINE r == [call[c] EXCEPT !.cursor = "open", !.rows = Append(@, row)]
    <3>2. r.phase = call[c].phase /\ r.pos = call[c].pos /\ r.dbus = call[c].dbus
      BY ONLY <1>1 DEF IsCall
    <3>3. call' = [call EXCEPT ![c] = r]
      BY <3>1 DEF CursorRow
    <3>4. QED
      BY <3>2, <3>3
  <2>4. QED
    BY <2>1, <2>2, <2>3
<1>5. call'[c] = r /\ \A d \in Calls \ {c} : call'[d] = call[d]
  BY ONLY <1>1, <1>4, c \in Calls DEF Fcn
<1>6. PipeOf(c)
  BY DEF PipeOf, CursorNext, StreamRead, CloseCursor
<1>7. call[c].phase # "idle"
  BY DEF CursorNext, StreamRead, CloseCursor, IInv, CallInv, SaysOf
<1>8. QED
  BY <1>2, <1>3, <1>4, <1>5, <1>6, <1>7, RowStep

LEMMA CommitsAnswered ==
  ASSUME IInv, IInv', CInv, NEW c \in Calls, ReceiveReply(c), ReceiveCursor(c) \/ ReceiveStream(c),
         ClientFrame
  PROVE  CInv'
<1>1. Shape /\ Fcn(call, Calls) /\ IsCall(call[c])
  BY Shapes DEF IInv
<1>2. /\ UNCHANGED <<sent, ask, meant, arguments, policy, rebinds, disturbed, sessions, reply, req>>
      /\ UNCHANGED storeVars
  BY DEF ReceiveReply, ClientFrame, endpointVars, requestVars, portalVars, remoteVars
<1>3. ~Upload(c)
  BY NoUpload DEF ReceiveCursor, ReceiveStream, AnswerArrives, Uploads
<1>4. call' = [call EXCEPT ![c].dbus = Answer(c), ![c].phase = "done",
                 ![c].result = Answer(c),
                 ![c].cursor = IF Failed(Answer(c)) THEN "none" ELSE "open"]
  BY DEF ReceiveCursor, ReceiveStream
<1>5. call'[c].phase = "done" /\ \A d \in Calls \ {c} : call'[d] = call[d]
  BY ONLY <1>1, <1>4, c \in Calls DEF IsCall, Fcn
<1>6. PipeOf(c)
  BY DEF PipeOf, ReceiveCursor, ReceiveStream
<1>7. QED
  BY <1>2, <1>3, <1>5, <1>6, RowStep

LEMMA CommitsBrowser ==
  ASSUME IInv, IInv', CInv, NEW c \in Calls, SendMessageCb(c) \/ HttpCursorNext(c) \/ HttpCursorClose(c),
         UNCHANGED <<endpointVars, storeVars, requestVars, portalVars, remoteVars>>
  PROVE  CInv'
<1>1. Shape /\ Fcn(call, Calls) /\ IsCall(call[c])
  BY Shapes DEF IInv
<1>2. /\ UNCHANGED <<sent, ask, meant, arguments, policy, rebinds, disturbed, sessions, reply, req>>
      /\ UNCHANGED storeVars /\ pipe' = pipe
  BY DEF SendMessageCb, HttpCursorNext, HttpCursorClose, busVars, endpointVars, requestVars,
     portalVars, remoteVars
<1>3. ~Upload(c)
  BY NoUpload DEF SendMessageCb, HttpCursorNext, HttpCursorClose, IsHttp, Uploads
<1>4. /\ \A d \in Calls \ {c} : call'[d] = call[d]
      /\ \/ call'[c].phase = "done"
         \/ call'[c].phase = call[c].phase /\ call'[c].pos = call[c].pos
            /\ call'[c].dbus = call[c].dbus
  <2>1. CASE SendMessageCb(c)
    <3>1. PICK o : call' = [call EXCEPT ![c].phase = "done", ![c].result = o,
                     ![c].cursor = IF o = "ok" THEN "open" ELSE "none"]
      BY <2>1 DEF SendMessageCb
    <3>2. QED
      BY ONLY <1>1, <3>1, c \in Calls DEF IsCall, Fcn
  <2>2. CASE HttpCursorNext(c)
    <3>1. \/ \E row : call' = [call EXCEPT ![c].cursor = "open", ![c].rows = Append(@, row)]
          \/ call' = [call EXCEPT ![c].cursor = "end"]
          \/ call' = [call EXCEPT ![c].cursor = "closed", ![c].result = "no reply"]
      BY <2>2 DEF HttpCursorNext, CursorRow
    <3>2. ASSUME NEW row, call' = [call EXCEPT ![c].cursor = "open", ![c].rows = Append(@, row)]
          PROVE  /\ \A d \in Calls \ {c} : call'[d] = call[d]
                 /\ call'[c].phase = call[c].phase /\ call'[c].pos = call[c].pos
                 /\ call'[c].dbus = call[c].dbus
      BY ONLY <1>1, <3>2, c \in Calls DEF IsCall, Fcn
    <3>3. ASSUME \/ call' = [call EXCEPT ![c].cursor = "end"]
                 \/ call' = [call EXCEPT ![c].cursor = "closed", ![c].result = "no reply"]
          PROVE  /\ \A d \in Calls \ {c} : call'[d] = call[d]
                 /\ call'[c].phase = call[c].phase /\ call'[c].pos = call[c].pos
                 /\ call'[c].dbus = call[c].dbus
      BY ONLY <1>1, <3>3, c \in Calls DEF IsCall, Fcn
    <3>4. QED
      BY <3>1, <3>2, <3>3
  <2>3. CASE HttpCursorClose(c)
    <3>1. call' = [call EXCEPT ![c].cursor = "closed"]
      BY <2>3 DEF HttpCursorClose
    <3>2. QED
      BY ONLY <1>1, <3>1, c \in Calls DEF IsCall, Fcn
  <2>4. QED
    BY <2>1, <2>2, <2>3
<1>5. PipeOf(c)
  BY <1>2 DEF PipeOf
<1>6. SendMessageCb(c) \/ call[c].phase # "idle"
  BY DEF HttpCursorNext, HttpCursorClose, IInv, CallInv, SaysOf
<1>7. call'[c].phase # "idle"
  BY <1>4, <1>6, Zenon DEF SendMessageCb
<1>8. QED
  BY <1>2, <1>3, <1>4, <1>5, <1>7, RowStep

LEMMA CommitsStmtExecuted ==
  ASSUME IInv, IInv', CInv, NEW c \in Calls, NEW error, StmtExecuted(c, error), ServiceFrame
  PROVE  CInv'
<1>1. Shape /\ Fcn(req, Calls) /\ IsRequest(req[c])
  BY Shapes DEF IInv
<1>2. /\ UNCHANGED <<sent, ask, meant, arguments, policy, rebinds, disturbed, sessions, call>>
      /\ UNCHANGED storeVars
  BY DEF StmtExecuted, StmtExecuteCb, StmtSerializeCb, StmtEnded, ServiceFrame, clientVars,
     endpointVars, portalVars, remoteVars
<1>3. ~Upload(c)
  BY NoUpload DEF StmtExecuted, StmtExecuteCb, StmtSerializeCb, StmtEnded, At
<1>4. (\E answer : Answered(c, answer)) /\ (\E phase : Moved(c, phase)) /\ PipeOf(c)
  BY DEF StmtExecuted, StmtExecuteCb, StmtSerializeCb, StmtEnded, StmtFailed, PipeOf
<1>5. \A d \in Calls \ {c} : reply'[d] = reply[d]
  BY <1>1, <1>4, ReplyMoves
<1>6. req'[c].host = req[c].host /\ \A d \in Calls \ {c} : req'[d] = req[d]
  <2>1. PICK phase : req' = [req EXCEPT ![c].phase = phase]
    BY <1>4 DEF Moved
  <2>2. QED
    BY ONLY <1>1, <2>1, c \in Calls DEF IsRequest, Fcn
<1>7. QED
  BY <1>2, <1>3, <1>4, <1>5, <1>6, RowStep

LEMMA CommitsRows ==
  ASSUME IInv, IInv', CInv, NEW c \in Calls, NEW next,
         PutHeader(c, next) \/ SpliceRdf(c, next) \/ PutValues(c) \/ FreeRequest(c), ServiceFrame
  PROVE  CInv'
<1>1. Shape /\ Fcn(req, Calls) /\ IsRequest(req[c])
  BY Shapes DEF IInv
<1>2. /\ UNCHANGED <<sent, ask, meant, arguments, policy, rebinds, disturbed, sessions, call, reply>>
      /\ UNCHANGED storeVars
  BY DEF PutHeader, SpliceRdf, PutValues, FreeRequest, ServiceFrame, clientVars,
     endpointVars, portalVars, remoteVars
<1>3. ~Upload(c)
  BY NoUpload DEF PutHeader, SpliceRdf, PutValues, FreeRequest, At, RowPhases
<1>4. PipeOf(c)
  BY DEF PutHeader, SpliceRdf, PutValues, FreeRequest, PipeOf
<1>5. req'[c].host = req[c].host /\ \A d \in Calls \ {c} : req'[d] = req[d]
  <2>1. \/ \E phase : req' = [req EXCEPT ![c].phase = phase]
        \/ \E row : req' = [req EXCEPT ![c].phase = "values", ![c].row = {row}]
        \/ \E s : req' = [req EXCEPT ![c].phase = "serving", ![c].row = {},
                            ![c].written = @ + 1, ![c].snap = s]
        \/ \E s : req' = [req EXCEPT ![c].written = @ + 1, ![c].snap = s]
    BY DEF PutHeader, SpliceRdf, PutValues, FreeRequest, Moved
  <2> DEFINE Done == req'[c].host = req[c].host /\ \A d \in Calls \ {c} : req'[d] = req[d]
  <2>2. ASSUME NEW phase, req' = [req EXCEPT ![c].phase = phase] PROVE Done
    BY ONLY <1>1, <2>2, c \in Calls DEF IsRequest, Fcn
  <2>3. ASSUME NEW row, req' = [req EXCEPT ![c].phase = "values", ![c].row = {row}] PROVE Done
    BY ONLY <1>1, <2>3, c \in Calls DEF IsRequest, Fcn
  <2>4. ASSUME NEW s, req' = [req EXCEPT ![c].phase = "serving", ![c].row = {},
                                         ![c].written = @ + 1, ![c].snap = s] PROVE Done
    BY ONLY <1>1, <2>4, c \in Calls DEF IsRequest, Fcn
  <2>5. ASSUME NEW s, req' = [req EXCEPT ![c].written = @ + 1, ![c].snap = s] PROVE Done
    BY ONLY <1>1, <2>5, c \in Calls DEF IsRequest, Fcn
  <2>6. QED
    BY <2>1, <2>2, <2>3, <2>4, <2>5
<1>6. QED
  BY <1>2, <1>3, <1>4, <1>5, RowStep

(* ---- Steps of the clients of updates                                       *)

(* The client and its thread leave to the service what it has read.           *)
LEMMA ClientUpload ==
  ASSUME IInv, IInv', CInv, NEW c \in Calls, Upload(c), PipeOf(c),
         UNCHANGED <<sent, ask, meant, arguments, policy, rebinds, disturbed, sessions, reply, req>>,
         UNCHANGED storeVars, \A d \in Calls \ {c} : call'[d] = call[d],
         Read(c)' = Read(c), TokensFit(c)', WriterOk(c)', ClientOk(c)', call'[c].phase # "idle"
  PROVE  CInv'
<1>1. OnlyFor(c)
  BY OtherPipes DEF OnlyFor, IInv
<1>2. Quiet
  BY DEF Quiet, Opened
<1>3. Queue'
  BY <1>2, QuietKeeps, QueueKept DEF storeVars
<1>4. /\ (Upload(c)' <=> Upload(c)) /\ (OfText(c)' <=> OfText(c)) /\ (OfBatch(c)' <=> OfBatch(c))
      /\ (OfData(c)' <=> OfData(c)) /\ (Sent(c)' <=> Sent(c)) /\ Text(c)' = Text(c)
      /\ (Active(c)' <=> Active(c)) /\ (Waits(c)' <=> Waits(c)) /\ (Runs(c)' <=> Runs(c))
      /\ Entries(c)' = Entries(c) /\ Shortened(c)' = Shortened(c)
  BY DEF Upload, OfText, OfBatch, OfData, Sent, Text, Rewritten, Active, Waits, Runs, Entries,
     Shortened, storeVars
<1>5. CommitInv(c)
  BY DEF CInv
<1>6. AskOk(c)' /\ UnsentOk(c)' /\ HostOk(c)'
  BY <1>4, <1>5 DEF CommitInv, AskOk, UnsentOk, HostOk
<1>7. TaskOk(c)' /\ LogOk(c)' /\ ReplyOk(c)'
  BY <1>4, <1>5 DEF CommitInv, TaskOk, LogOk, ReplyOk, Partly, storeVars
<1>8. MeantOk(c)'
  BY <1>4, <1>5 DEF CommitInv, UploadOk, MeantOk
<1>9. RunOk(c)'
  <2>1. Reads(c, running) => Reads(c, running)'
    BY DEF Reads, storeVars
  <2>2. QED
    BY <1>4, <1>5, <2>1 DEF CommitInv, UploadOk, RunOk, storeVars
<1>10. ReadOk(c)'
  BY <1>4, <1>5 DEF CommitInv, UploadOk, ReadOk
<1>11. CommitInv(c)'
  BY <1>6, <1>7, <1>8, <1>9, <1>10 DEF CommitInv, UploadOk
<1>12. QED
  BY <1>1, <1>2, <1>3, <1>11, StoreKept, OwnStep

LEMMA PipeFacts ==
  ASSUME IInv, CInv, NEW c \in Calls, Upload(c)
  PROVE  /\ IsPipe(pipe[c]) /\ IsCall(call[c]) /\ IsRequest(req[c])
         /\ Fcn(pipe, Calls) /\ Fcn(call, Calls) /\ Fcn(req, Calls)
         /\ call[c].pos \in Nat \ {0} /\ Len(pipe[c].data) \in Nat /\ Read(c) \in Nat
         /\ IsSeq(pipe[c].data) /\ DOMAIN pipe[c].data = 1..Len(pipe[c].data)
         /\ Len(Pieces(c)) \in Nat
         /\ MeantOk(c) /\ TokensFit(c) /\ RunOk(c) /\ ReadOk(c) /\ WriterOk(c) /\ ClientOk(c)
         /\ TaskOk(c) /\ LogOk(c) /\ ReplyOk(c) /\ AskOk(c) /\ HostOk(c) /\ UnsentOk(c)
<1>1. CommitInv(c) /\ UploadOk(c)
  BY DEF CInv, CommitInv
<1>2. IsPipe(pipe[c]) /\ IsCall(call[c]) /\ IsRequest(req[c])
      /\ Fcn(pipe, Calls) /\ Fcn(call, Calls) /\ Fcn(req, Calls)
  BY Shapes DEF IInv
<1>3. Len(Pieces(c)) \in Nat
  BY <1>1, UploadFacts, PiecesOf DEF CommitInv
<1>4. /\ call[c].pos \in Nat \ {0} /\ Len(pipe[c].data) \in Nat
      /\ IsSeq(pipe[c].data) /\ DOMAIN pipe[c].data = 1..Len(pipe[c].data)
  BY <1>1, SeqFacts DEF UploadOk, TokensFit
<1>5. Read(c) \in Nat
  BY <1>1, <1>4 DEF UploadOk, TokensFit, Read
<1>6. QED
  BY <1>1, <1>2, <1>3, <1>4, <1>5 DEF UploadOk, CommitInv

LEMMA CommitsWritePiece ==
  ASSUME IInv, IInv', CInv, NEW c \in Calls, WritePiece(c), ClientFrame
  PROVE  CInv'
<1>1. Upload(c)
  BY DEF IInv, CallInv, SaysOf, WritePiece, Upload
<1>2. /\ IsPipe(pipe[c]) /\ IsCall(call[c]) /\ Fcn(pipe, Calls) /\ Fcn(call, Calls)
      /\ call[c].pos \in Nat \ {0} /\ Len(pipe[c].data) \in Nat /\ Read(c) \in Nat
      /\ IsSeq(pipe[c].data) /\ DOMAIN pipe[c].data = 1..Len(pipe[c].data)
      /\ Len(Pieces(c)) \in Nat /\ Shape
  BY <1>1, PipeFacts DEF IInv
<1>3. MeantOk(c) /\ TokensFit(c) /\ WriterOk(c) /\ ClientOk(c) /\ AskOk(c)
  BY <1>1, PipeFacts
<1>4. /\ UNCHANGED <<sent, ask, meant, arguments, policy, rebinds, disturbed, sessions, reply, req>>
      /\ UNCHANGED storeVars
  BY DEF WritePiece, ClientFrame, endpointVars, requestVars, portalVars, remoteVars
<1>5. /\ (Upload(c)' <=> Upload(c)) /\ (Active(c)' <=> Active(c)) /\ Pieces(c)' = Pieces(c)
      /\ (ValuesOk(c)' <=> ValuesOk(c))
      /\ \A r, token : Wanted(c, r, token)' <=> Wanted(c, r, token)
  BY <1>4 DEF Upload, Active, Pieces, ValuesOk, Values, Wanted, OfBatch, OfText, storeVars
<1>6. call[c].write = "busy" /\ call[c].phase = "running" /\ pipe[c].writer /\ ValuesOk(c)
  BY <1>3 DEF WritePiece, WriterOk
<1>10. call[c].pos <= Len(Pieces(c)) => ~Ended(c)
  BY <1>2 DEF Ended
<1>7. CASE \E how \in {"cancelled", "ok", "broken pipe"} :
             /\ WriterEnds(c, how)
             /\ how = "cancelled" => call[c].cancelled
             /\ how = "ok" => call[c].pos > Len(Pieces(c))
             /\ how = "broken pipe" => ~pipe[c].reader /\ call[c].pos <= Len(Pieces(c))
  <2>1. PICK how \in {"cancelled", "ok", "broken pipe"} :
             /\ WriterEnds(c, how)
             /\ how = "cancelled" => call[c].cancelled
             /\ how = "ok" => call[c].pos > Len(Pieces(c))
             /\ how = "broken pipe" => ~pipe[c].reader /\ call[c].pos <= Len(Pieces(c))
    BY <1>7
  <2>2. /\ call'[c].write = how /\ call'[c].phase = call[c].phase /\ call'[c].pos = call[c].pos
        /\ call'[c].dbus = call[c].dbus /\ call'[c].result = call[c].result
        /\ call'[c].cancelled = call[c].cancelled
        /\ \A d \in Calls \ {c} : call'[d] = call[d]
    BY ONLY <1>2, <2>1, c \in Calls DEF WriterEnds, IsCall, Fcn
  <2>3. pipe'[c].data = pipe[c].data /\ ~pipe'[c].writer /\ pipe'[c].reader = pipe[c].reader
    BY ONLY <1>2, <2>1, c \in Calls DEF WriterEnds, WriterClosed, IsPipe, Fcn
  <2>4. Read(c)' = Read(c) /\ TokensFit(c)' /\ (Ended(c)' <=> Ended(c))
    <3>1. Read(c)' = Read(c)
      BY ONLY <2>2, <2>3 DEF Read
    <3>2. QED
      BY ONLY <1>3, <1>5, <2>2, <2>3, <3>1 DEF TokensFit, Ended
  <2>5. WriterOk(c)'
    <3>1. outcome' = outcome
      BY <1>4 DEF storeVars
    <3>2. how = "broken pipe" => ~pipe[c].reader /\ ~Ended(c)
      <4>1. SUFFICES ASSUME how = "broken pipe" PROVE ~pipe[c].reader /\ ~Ended(c)
        OBVIOUS
      <4>2. ~pipe[c].reader /\ call[c].pos <= Len(Pieces(c))
        BY <2>1, <4>1
      <4>3. QED
        BY <1>10, <4>2
    <3>3. how = "ok" => Ended(c)
      BY <2>1 DEF Ended
    <3>4. how = "cancelled" => disturbed # {}
      BY <1>3, <2>1 DEF WriterOk
    <3>5. QED
      BY ONLY <1>3, <1>4, <1>5, <1>6, <2>1, <2>2, <2>3, <2>4, <3>1, <3>2, <3>3, <3>4 DEF WriterOk
  <2>6. ClientOk(c)'
    BY ONLY <1>3, <1>4, <2>1, <2>2 DEF ClientOk
  <2>7. PipeOf(c)
    BY <2>1 DEF WriterEnds, PipeOf
  <2>8. QED
    BY <1>1, <1>4, <1>6, <2>2, <2>4, <2>5, <2>6, <2>7, ClientUpload
<1>8. CASE /\ call[c].pos <= Len(Pieces(c)) /\ Written(c, Piece(c))
           /\ call' = [call EXCEPT ![c].pos = @ + 1]
  <2>1. /\ call'[c].write = call[c].write /\ call'[c].phase = call[c].phase
        /\ call'[c].pos = call[c].pos + 1
        /\ call'[c].dbus = call[c].dbus /\ call'[c].result = call[c].result
        /\ call'[c].cancelled = call[c].cancelled
        /\ \A d \in Calls \ {c} : call'[d] = call[d]
    BY ONLY <1>2, <1>8, c \in Calls DEF IsCall, Fcn
  <2>2. pipe'[c].data = Append(pipe[c].data, Piece(c))
        /\ pipe'[c].writer = pipe[c].writer /\ pipe'[c].reader = pipe[c].reader
    <3>1. pipe'[c] = [pipe[c] EXCEPT !.data = Append(@, Piece(c))]
      BY <1>2, <1>8, PipeMoves
    <3>2. QED
      BY ONLY <1>2, <3>1 DEF IsPipe
  <2>3. /\ IsSeq(pipe'[c].data) /\ Len(pipe'[c].data) = Len(pipe[c].data) + 1
        /\ DOMAIN pipe'[c].data = 1..Len(pipe'[c].data)
        /\ pipe'[c].data[Len(pipe[c].data) + 1] = Piece(c)
        /\ \A k \in 1..Len(pipe[c].data) : pipe'[c].data[k] = pipe[c].data[k]
    BY <1>2, <2>2, AppendSeq, SeqFacts
  <2>4. Read(c)' = Read(c)
    <3> DEFINE p == call[c].pos
               n == Len(pipe[c].data)
    <3>1. p \in Nat /\ n \in Nat /\ p' = p + 1 /\ n' = n + 1
      BY ONLY <1>2, <2>1, <2>3
    <3>2. Read(c)' = p' - 1 - n' /\ Read(c) = p - 1 - n
      BY DEF Read
    <3> HIDE DEF p, n
    <3>3. QED
      BY ONLY <3>1, <3>2
  <2>5. Wanted(c, call[c].pos, Piece(c))
    <3>1. call[c].pos \in 1..Len(Pieces(c))
      BY <1>2, <1>8
    <3>2. ask[c].method = sent[c].method
      BY <1>1, UploadFacts
    <3>3. QED
      BY <1>1, <1>3, <1>6, <3>1, <3>2, PieceWanted
  <2>6. TokensFit(c)'
    <3>1. call'[c].pos \in Nat \ {0} /\ call'[c].pos <= Len(Pieces(c)) + 1 /\ Read(c) >= 0
      BY <1>2, <1>8, <2>1
    <3>2. ASSUME NEW j \in 1..(Len(pipe[c].data) + 1)
          PROVE  Wanted(c, Read(c) + j, pipe'[c].data[j])
      <4>1. CASE j \in 1..Len(pipe[c].data)
        BY <1>2, <1>3, <2>3, <4>1 DEF TokensFit
      <4>2. CASE j = Len(pipe[c].data) + 1
        <5>1. Read(c) + j = call[c].pos
          <6> DEFINE p == call[c].pos
                     n == Len(pipe[c].data)
          <6>1. p \in Nat /\ n \in Nat
            BY ONLY <1>2, <2>1, <2>3
          <6>2. Read(c) = p - 1 - n /\ j = n + 1
            BY ONLY <4>2 DEF Read
          <6> HIDE DEF p, n
          <6>3. Read(c) + j = p
            BY ONLY <6>1, <6>2
          <6>4. QED
            BY ONLY <6>3 DEF p
        <5>2. QED
          BY <2>3, <2>5, <4>2, <5>1
      <4>3. QED
        BY <1>2, <4>1, <4>2
    <3>3. QED
      BY ONLY <1>5, <2>3, <2>4, <3>1, <3>2 DEF TokensFit
  <2>7. WriterOk(c)'
    <3>1. outcome' = outcome
      BY <1>4 DEF storeVars
    <3>2. ~Ended(c)
      BY <1>2, <1>8 DEF Ended
    <3>3. QED
      BY ONLY <1>3, <1>4, <1>5, <1>6, <2>1, <2>2, <3>1, <3>2 DEF WriterOk
  <2>8. ClientOk(c)'
    BY ONLY <1>3, <1>4, <2>1 DEF ClientOk
  <2>9. PipeOf(c)
    BY <1>8 DEF PipeOf
  <2>10. QED
    BY <1>1, <1>4, <1>6, <2>1, <2>4, <2>6, <2>7, <2>8, <2>9, ClientUpload
<1>9. QED
  BY <1>7, <1>8 DEF WritePiece, Broken

LEMMA CommitsUpdated ==
  ASSUME IInv, IInv', CInv, NEW c \in Calls,
         (ReceiveReply(c) /\ (ReceiveUpdated(c) \/ ReceiveDeserialized(c))) \/ CheckFinish(c),
         ClientFrame
  PROVE  CInv'
<1>1. /\ UNCHANGED <<sent, ask, meant, arguments, policy, rebinds, disturbed, sessions, reply, req>>
      /\ UNCHANGED storeVars /\ pipe' = pipe
  BY DEF ReceiveReply, ReceiveUpdated, ReceiveDeserialized, CheckFinish, CheckFinishUpdate,
     CheckFinishDeserialize, CheckFinishOf, busVars, ClientFrame, endpointVars, requestVars,
     portalVars, remoteVars
<1>2. call[c].phase = "running" /\ ask[c].method \in Uploads
  BY DEF ReceiveUpdated, ReceiveDeserialized, AnswerArrives, CheckFinish, CheckFinishUpdate,
     CheckFinishDeserialize, CheckFinishOf, Uploads
<1>3. Shape /\ Fcn(call, Calls) /\ IsCall(call[c]) /\ PipeOf(c)
  BY <1>1, Shapes DEF IInv, PipeOf
<1>4. \/ call' = [call EXCEPT ![c].dbus = Answer(c)]
      \/ /\ call[c].dbus # "none" /\ call[c].write # "busy"
         /\ call' = [call EXCEPT ![c].phase = "done",
                ![c].result = IF call[c].cancelled THEN "cancelled"
                              ELSE IF Failed(call[c].dbus) THEN call[c].dbus
                              ELSE call[c].write]
  BY DEF ReceiveUpdated, ReceiveDeserialized, CheckFinish, CheckFinishUpdate,
     CheckFinishDeserialize, CheckFinishOf
<1>5. /\ \A d \in Calls \ {c} : call'[d] = call[d]
      /\ call'[c].write = call[c].write /\ call'[c].pos = call[c].pos
      /\ call'[c].cancelled = call[c].cancelled
      /\ \/ /\ call'[c].phase = "running" /\ call'[c].dbus = Answer(c)
            /\ call'[c].result = call[c].result
         \/ /\ call'[c].phase = "done" /\ call'[c].dbus = call[c].dbus
            /\ call[c].dbus # "none" /\ call[c].write # "busy"
            /\ call'[c].result = IF call[c].cancelled THEN "cancelled"
                                 ELSE IF Failed(call[c].dbus) THEN call[c].dbus ELSE call[c].write
  <2>1. CASE call' = [call EXCEPT ![c].dbus = Answer(c)]
    <3>1. PICK a : a = Answer(c)
      OBVIOUS
    <3>2. call' = [call EXCEPT ![c].dbus = a]
      BY <2>1, <3>1
    <3>3. /\ \A d \in Calls \ {c} : call'[d] = call[d]
          /\ call'[c].write = call[c].write /\ call'[c].pos = call[c].pos
          /\ call'[c].cancelled = call[c].cancelled
          /\ call'[c].phase = call[c].phase /\ call'[c].dbus = a
          /\ call'[c].result = call[c].result
      BY ONLY <1>3, <3>2, c \in Calls DEF IsCall, Fcn
    <3>4. QED
      BY <1>2, <3>1, <3>3
  <2>2. CASE /\ call[c].dbus # "none" /\ call[c].write # "busy"
             /\ call' = [call EXCEPT ![c].phase = "done",
                ![c].result = IF call[c].cancelled THEN "cancelled"
                              ELSE IF Failed(call[c].dbus) THEN call[c].dbus
                              ELSE call[c].write]
    <3>1. PICK a : a = IF call[c].cancelled THEN "cancelled"
                       ELSE IF Failed(call[c].dbus) THEN call[c].dbus ELSE call[c].write
      OBVIOUS
    <3>2. call' = [call EXCEPT ![c].phase = "done", ![c].result = a]
      BY <2>2, <3>1
    <3>3. /\ \A d \in Calls \ {c} : call'[d] = call[d]
          /\ call'[c].write = call[c].write /\ call'[c].pos = call[c].pos
          /\ call'[c].cancelled = call[c].cancelled
          /\ call'[c].phase = "done" /\ call'[c].dbus = call[c].dbus /\ call'[c].result = a
      BY ONLY <1>3, <3>2, c \in Calls DEF IsCall, Fcn
    <3>4. QED
      BY <2>2, <3>1, <3>3
  <2>3. QED
    BY <1>4, <2>1, <2>2
<1>6. CASE ~Upload(c)
  BY <1>1, <1>3, <1>5, <1>6, RowStep
<1>7. CASE Upload(c)
  <2>1. TokensFit(c) /\ WriterOk(c) /\ ClientOk(c) /\ ReplyOk(c)
    BY <1>7, PipeFacts
  <2>2. Read(c)' = Read(c) /\ (Ended(c)' <=> Ended(c)) /\ TokensFit(c)'
    BY <1>1, <1>5, <2>1 DEF Read, Ended, Pieces, TokensFit, Wanted, OfText, OfBatch
  <2>3. WriterOk(c)'
    BY <1>1, <1>2, <1>5, <2>1, <2>2 DEF WriterOk, ValuesOk, Values, OfBatch, Active, Upload, storeVars
  <2>4. ClientOk(c)'
    <3>1. CASE call'[c].phase = "running" /\ call'[c].dbus = Answer(c)
      BY <1>1, <1>2, <1>5, <2>1, <3>1 DEF ClientOk, Answer
    <3>2. CASE /\ call'[c].phase = "done" /\ call'[c].dbus = call[c].dbus
               /\ call[c].dbus # "none" /\ call[c].write # "busy"
               /\ call'[c].result = IF call[c].cancelled THEN "cancelled"
                                 ELSE IF Failed(call[c].dbus) THEN call[c].dbus ELSE call[c].write
      <4>1. call[c].dbus \in {"cancelled", reply[c]} /\ call[c].write \in {"ok", "cancelled", "broken pipe"}
        BY <1>2, <2>1, <3>2 DEF ClientOk
      <4>2. reply[c] = "ok" => call[c].write # "broken pipe"
        BY <1>7, <2>1 DEF ReplyOk, WriterOk
      <4>3. call'[c].result = "cancelled" \/ (call'[c].result = reply[c] /\ reply[c] # "none")
        BY ONLY <3>2, <4>1, <4>2 DEF Failed
      <4>4. QED
        BY <1>1, <2>1, <3>2, <4>3 DEF ClientOk
    <3>3. QED
      BY <1>5, <3>1, <3>2
  <2>5. QED
    BY <1>1, <1>2, <1>3, <1>5, <1>7, <2>2, <2>3, <2>4, ClientUpload
<1>8. QED
  BY <1>6, <1>7

(* ---- Steps of the service for an update                                    *)

LEMMA SaidStays ==
  ASSUME UNCHANGED <<sent, ask, meant, policy>>, NEW c
  PROVE  /\ (Upload(c)' <=> Upload(c)) /\ (OfText(c)' <=> OfText(c)) /\ (OfBatch(c)' <=> OfBatch(c))
         /\ (OfData(c)' <=> OfData(c)) /\ (Sent(c)' <=> Sent(c)) /\ Text(c)' = Text(c)
         /\ Pieces(c)' = Pieces(c) /\ Shortened(c)' = Shortened(c)
         /\ (MeantOk(c)' <=> MeantOk(c)) /\ (AskOk(c)' <=> AskOk(c))
         /\ \A r, token : Wanted(c, r, token)' <=> Wanted(c, r, token)
<1>1. /\ (Upload(c)' <=> Upload(c)) /\ (OfText(c)' <=> OfText(c)) /\ (OfBatch(c)' <=> OfBatch(c))
      /\ (OfData(c)' <=> OfData(c)) /\ (Sent(c)' <=> Sent(c)) /\ Text(c)' = Text(c)
  BY DEF Upload, OfText, OfBatch, OfData, Sent, Text, Rewritten
<1>2. QED
  BY <1>1 DEF Pieces, Shortened, MeantOk, AskOk, Wanted

LEMMA ValuesStay ==
  ASSUME UNCHANGED <<sent, ask, meant, arguments>>, NEW c
  PROVE  ValuesOk(c)' <=> ValuesOk(c)
BY DEF ValuesOk, Values, OfBatch

(* The client is not part of these.                                           *)
Served ==
  UNCHANGED <<sent, ask, meant, arguments, policy, rebinds, disturbed, sessions, call>>

LEMMA ServedUpload ==
  ASSUME IInv, IInv', CInv, NEW c \in Calls, Upload(c), Served,
         \A d \in Calls \ {c} : pipe'[d] = pipe[d] /\ reply'[d] = reply[d] /\ req'[d] = req[d],
         \A d \in Calls \ {c} : StoreSpares(d),
         Queue', req'[c].host \in {"none", req[c].host, sent[c].path},
         reply'[c] = reply[c] \/ reply[c] = "none",
         TaskOk(c)', LogOk(c)', ReplyOk(c)', TokensFit(c)', RunOk(c)', ReadOk(c)', WriterOk(c)'
  PROVE  CInv'
<1>1. OnlyFor(c) /\ Quiet
  BY DEF OnlyFor, Quiet, Opened, Served
<1>2. CommitInv(c) /\ UploadOk(c)
  BY DEF CInv, CommitInv
<1>3. (Sent(c)' <=> Sent(c)) /\ MeantOk(c)' /\ AskOk(c)'
  BY <1>2, SaidStays DEF Served, CommitInv, UploadOk
<1>4. UnsentOk(c)' /\ HostOk(c)'
  BY <1>2, <1>3 DEF CommitInv, UnsentOk, HostOk, Served, Asked
<1>5. ClientOk(c)'
  BY <1>2 DEF UploadOk, ClientOk, Served
<1>6. CommitInv(c)'
  BY <1>3, <1>4, <1>5 DEF CommitInv, UploadOk
<1>7. QED
  BY <1>1, <1>6, OwnStep

(* What the client sees while its request is served.                          *)
LEMMA WriterStays ==
  ASSUME IInv, CInv, NEW c \in Calls, Upload(c), Served,
         pipe'[c].writer = pipe[c].writer, pipe'[c].reader => pipe[c].reader,
         Active(c)' => pipe'[c].reader,
         outcome'[c] = "ok" => outcome[c] = "ok" \/
           (call[c].write # "broken pipe" /\ (call[c].write = "busy" => Ended(c)))
  PROVE  WriterOk(c)'
<1>1. WriterOk(c)
  BY PipeFacts
<1>2. (OfBatch(c)' <=> OfBatch(c)) /\ Pieces(c)' = Pieces(c)
  BY SaidStays DEF Served
<1>3. Ended(c)' <=> Ended(c)
  BY <1>2 DEF Ended, Served
<1>4. ValuesOk(c)' <=> ValuesOk(c)
  BY ValuesStay DEF Served
<1>5. QED
  BY <1>1, <1>3, <1>4 DEF WriterOk, Served

(* A token is taken from the pipe.                                            *)
LEMMA TokenRead ==
  ASSUME IInv, CInv, NEW c \in Calls, Upload(c), Served, pipe[c].data # <<>>,
         pipe'[c].data = Tail(pipe[c].data)
  PROVE  /\ TokensFit(c)' /\ Read(c)' = Read(c) + 1
         /\ Wanted(c, Read(c) + 1, Head(pipe[c].data)) /\ Read(c) < Len(Pieces(c))
<1> DEFINE p == call[c].pos
           n == Len(pipe[c].data)
           m == Len(Pieces(c))
<1>1. /\ p \in Nat \ {0} /\ n \in Nat /\ Read(c) \in Nat /\ m \in Nat
      /\ IsSeq(pipe[c].data) /\ DOMAIN pipe[c].data = 1..n /\ TokensFit(c)
  BY PipeFacts
<1>2. /\ IsSeq(pipe'[c].data) /\ n # 0 /\ Len(pipe'[c].data) = n - 1
      /\ DOMAIN pipe'[c].data = 1..(n - 1)
      /\ \A j \in 1..(n - 1) : pipe'[c].data[j] = pipe[c].data[j + 1]
      /\ Head(pipe[c].data) = pipe[c].data[1]
  <2>1. IsSeq(pipe'[c].data)
    BY <1>1, TailSeq
  <2>2. /\ n \in Nat \ {0} /\ Len(pipe'[c].data) = n - 1
        /\ \A j \in 1..Len(pipe'[c].data) : pipe'[c].data[j] = pipe[c].data[j + 1]
        /\ Head(pipe[c].data) = pipe[c].data[1]
    BY <1>1, TailSeq
  <2>3. DOMAIN pipe'[c].data = 1..Len(pipe'[c].data)
    BY <2>1, SeqFacts
  <2>4. QED
    BY ONLY <2>1, <2>2, <2>3
<1>3. /\ p <= m + 1 /\ \A j \in 1..n : Wanted(c, Read(c) + j, pipe[c].data[j])
  BY <1>1 DEF TokensFit
<1>4. Read(c)' = Read(c) + 1 /\ Read(c) < m
  <2>1. p' = p /\ n' = n - 1
    BY <1>2 DEF Served
  <2>2. Read(c)' = p' - 1 - n' /\ Read(c) = p - 1 - n
    BY DEF Read
  <2> HIDE DEF p, n, m
  <2>3. QED
    BY ONLY <1>1, <1>2, <1>3, <2>1, <2>2
<1>5. Wanted(c, Read(c) + 1, Head(pipe[c].data))
  <2>1. 1 \in 1..n
    BY ONLY <1>1, <1>2
  <2>2. QED
    BY ONLY <1>2, <1>3, <2>1
<1>6. ASSUME NEW j \in 1..(n - 1)
      PROVE  Wanted(c, (Read(c) + 1) + j, pipe'[c].data[j])
  <2>1. j + 1 \in 1..n /\ Read(c) + (j + 1) = (Read(c) + 1) + j
    <3> HIDE DEF n
    <3>1. QED
      BY ONLY <1>1, j \in 1..(n - 1)
  <2>2. Wanted(c, Read(c) + (j + 1), pipe[c].data[j + 1])
    BY ONLY <1>3, <2>1
  <2>3. QED
    BY ONLY <1>2, <2>1, <2>2, j \in 1..(n - 1)
<1>7. Pieces(c)' = Pieces(c) /\ \A r, token : Wanted(c, r, token)' <=> Wanted(c, r, token)
  BY SaidStays DEF Served
<1>8. Read(c)' >= 0
  BY ONLY <1>1, <1>4
<1>9. TokensFit(c)'
  BY ONLY <1>1, <1>2, <1>3, <1>4, <1>6, <1>7, <1>8, Served DEF TokensFit, Served
<1>10. QED
  BY ONLY <1>4, <1>5, <1>9

(* Nothing is taken.                                                          *)
LEMMA TokensStay ==
  ASSUME IInv, CInv, NEW c \in Calls, Upload(c), Served, pipe'[c].data = pipe[c].data
  PROVE  TokensFit(c)' /\ Read(c)' = Read(c)
<1>1. TokensFit(c)
  BY PipeFacts
<1>2. Pieces(c)' = Pieces(c) /\ \A r, token : Wanted(c, r, token)' <=> Wanted(c, r, token)
  BY SaidStays DEF Served
<1>3. Read(c)' = Read(c)
  BY DEF Read, Served
<1>4. QED
  BY <1>1, <1>2, <1>3 DEF TokensFit, Served

LEMMA QueueFacts ==
  ASSUME IInv, CInv
  PROVE  /\ Queue /\ Tasks /\ IsSeq(queue) /\ IsSeq(log) /\ IsTask(running)
         /\ Len(queue) \in Nat /\ DOMAIN queue = 1..Len(queue)
         /\ Len(log) \in Nat /\ DOMAIN log = 1..Len(log)
BY SeqFacts DEF IInv, CInv, Shape, StoreShape

(* A task is put at the end of the queue.                                     *)
LEMMA TaskQueued ==
  ASSUME IInv, CInv, NEW c \in Calls, Served, ~Waits(c), NEW text,
         Queued([call |-> c, kind |-> sent[c].method, text |-> text]),
         OfText(c) => text = Text(c), UNCHANGED <<running, log, outcome>>
  PROVE  Queue' /\ Waits(c)' /\ \A d \in Calls \ {c} : StoreSpares(d)
<1> DEFINE task == [call |-> c, kind |-> sent[c].method, text |-> text]
           n == Len(queue)
<1>1. Queue /\ IsSeq(queue) /\ n \in Nat /\ DOMAIN queue = 1..n /\ Tasks
  BY QueueFacts
<1>2. /\ n + 1 \in 1..(n + 1) /\ DOMAIN queue' = 1..(n + 1)
      /\ queue'[n + 1] = task /\ \A k \in 1..n : queue'[k] = queue[k]
  <2>1. queue' = Append(queue, task)
    BY DEF Queued
  <2> HIDE DEF task
  <2>2. IsSeq(queue') /\ Len(queue') = n + 1 /\ queue'[n + 1] = task
        /\ \A k \in 1..n : queue'[k] = queue[k]
    BY <1>1, <2>1, AppendSeq
  <2>3. DOMAIN queue' = 1..Len(queue')
    BY <2>2, SeqFacts
  <2>4. QED
    BY ONLY <1>1, <2>2, <2>3
<1>3. task.call = c /\ task.kind = sent[c].method /\ task.text = text
  OBVIOUS
<1> HIDE DEF task, n
<1>4. \A k \in 1..(n + 1) : k = n + 1 \/ (k \in 1..n /\ k # n + 1)
  BY ONLY <1>1
<1>5. \A d : OfText(d)' = OfText(d) /\ Text(d)' = Text(d)
  BY SaidStays DEF Served, OfText
<1>6. Queue'
  <2>1. \A j, k \in 1..(n + 1) : queue'[j].call = queue'[k].call => j = k
    BY <1>1, <1>2, <1>3, <1>4 DEF Queue, Waits
  <2>2. ASSUME NEW k \in 1..(n + 1)
        PROVE  /\ queue'[k].kind = sent[queue'[k].call].method
               /\ OfText(queue'[k].call) => queue'[k].text = Text(queue'[k].call)
    BY <1>1, <1>2, <1>3, <1>4 DEF Queue
  <2>3. Fcn(outcome', Calls)
    BY <1>1 DEF Queue
  <2>4. QED
    BY <1>2, <1>5, <2>1, <2>2, <2>3 DEF Queue, Served
<1>7. Waits(c)'
  BY <1>2, <1>3 DEF Waits
<1>8. ASSUME NEW d \in Calls, d # c PROVE StoreSpares(d)
  <2>1. Waits(d)' <=> Waits(d)
    BY <1>1, <1>2, <1>3, <1>4, <1>8 DEF Waits
  <2>2. QED
    BY <2>1 DEF StoreSpares, Runs, Entries
<1>9. QED
  BY <1>6, <1>7, <1>8

(* The first task leaves the queue.                                           *)
LEMMA TaskTaken ==
  ASSUME IInv, CInv, Served, queue # <<>>, queue' = Tail(queue), Fcn(outcome', Calls),
         NEW c, c = Head(queue).call
  PROVE  /\ c \in Calls /\ Upload(c) /\ Waits(c) /\ Queue' /\ ~Waits(c)'
         /\ Head(queue).kind = sent[c].method /\ (OfText(c) => Head(queue).text = Text(c))
         /\ \A d \in Calls \ {c} : Waits(d)' <=> Waits(d)
<1> DEFINE n == Len(queue)
<1>1. Queue /\ IsSeq(queue) /\ n \in Nat /\ DOMAIN queue = 1..n /\ Tasks
  BY QueueFacts
<1>2. /\ n \in Nat \ {0} /\ Head(queue) = queue[1] /\ DOMAIN queue' = 1..(n - 1)
      /\ \A k \in 1..(n - 1) : queue'[k] = queue[k + 1]
  <2>1. /\ IsSeq(queue') /\ n \in Nat \ {0} /\ Len(queue') = n - 1 /\ Head(queue) = queue[1]
        /\ \A k \in 1..Len(queue') : queue'[k] = queue[k + 1]
    BY <1>1, TailSeq
  <2>2. DOMAIN queue' = 1..Len(queue')
    BY <2>1, SeqFacts
  <2>3. QED
    BY ONLY <2>1, <2>2
<1> HIDE DEF n
<1>3. 1 \in 1..n /\ \A k \in 1..(n - 1) : k + 1 \in 1..n /\ k + 1 # 1
  BY ONLY <1>2
<1>4. \A k \in 1..n : k = 1 \/ (k - 1 \in 1..(n - 1) /\ (k - 1) + 1 = k)
  BY ONLY <1>2
<1>5. \A d : OfText(d)' = OfText(d) /\ Text(d)' = Text(d)
  BY SaidStays DEF Served, OfText
<1>6. Queue'
  <2>1. \A j, k \in 1..(n - 1) : queue'[j].call = queue'[k].call => j + 1 = k + 1
    BY <1>1, <1>2, <1>3 DEF Queue
  <2>2. \A j, k \in 1..(n - 1) : j + 1 = k + 1 => j = k
    BY ONLY <1>2
  <2>3. ASSUME NEW k \in 1..(n - 1)
        PROVE  /\ queue'[k].kind = sent[queue'[k].call].method
               /\ OfText(queue'[k].call) => queue'[k].text = Text(queue'[k].call)
    BY <1>1, <1>2, <1>3 DEF Queue
  <2>4. QED
    BY <1>2, <1>5, <2>1, <2>2, <2>3 DEF Queue, Served
<1>7. c \in Calls /\ Upload(c) /\ Waits(c)
  BY <1>1, <1>3 DEF Tasks, Upload, Waits
<1>8. ~Waits(c)'
  BY <1>1, <1>2, <1>3 DEF Queue, Waits
<1>9. ASSUME NEW d \in Calls \ {c} PROVE Waits(d)' <=> Waits(d)
  <2>1. ASSUME NEW k \in 1..n, queue[k].call = d PROVE k - 1 \in 1..(n - 1) /\ queue'[k - 1].call = d
    BY <1>2, <1>4, <2>1
  <2>2. ASSUME NEW k \in 1..(n - 1), queue'[k].call = d PROVE k + 1 \in 1..n /\ queue[k + 1].call = d
    BY <1>2, <1>3, <2>2
  <2>3. QED
    BY <1>1, <1>2, <2>1, <2>2 DEF Waits
<1>10. QED
  BY <1>1, <1>2, <1>3, <1>6, <1>7, <1>8, <1>9 DEF Queue

(* A request is committed.                                                    *)
LEMMA EntryAdded ==
  ASSUME IInv, CInv, NEW c \in Calls, NEW ops, Committed(c, ops), outcome[c] = "none"
  PROVE  /\ Len(log) + 1 \in DOMAIN log' /\ Entries(c)' = {Len(log) + 1}
         /\ log'[Len(log) + 1].ops = ops
         /\ \A d \in Calls \ {c} :
              Entries(d)' = Entries(d) /\ \A k \in Entries(d) : log'[k] = log[k]
<1> DEFINE n == Len(log)
           e == [call |-> c, ops |-> ops]
<1>1. IsSeq(log) /\ n \in Nat /\ DOMAIN log = 1..n
  BY QueueFacts
<1>2. /\ n + 1 \in 1..(n + 1) /\ DOMAIN log' = 1..(n + 1)
      /\ log'[n + 1] = e /\ \A k \in 1..n : log'[k] = log[k]
  <2>1. log' = Append(log, e)
    BY DEF Committed
  <2> HIDE DEF e
  <2>2. IsSeq(log') /\ Len(log') = n + 1 /\ log'[n + 1] = e /\ \A k \in 1..n : log'[k] = log[k]
    BY <1>1, <2>1, AppendSeq
  <2>3. DOMAIN log' = 1..Len(log')
    BY <2>2, SeqFacts
  <2>4. QED
    BY ONLY <1>1, <2>2, <2>3
<1>3. e.call = c /\ e.ops = ops
  OBVIOUS
<1>4. Entries(c) = {}
  BY DEF CInv, CommitInv, LogOk
<1> HIDE DEF n, e
<1>5. \A k \in 1..(n + 1) : k = n + 1 \/ (k \in 1..n /\ k # n + 1)
  BY ONLY <1>1
<1>6. Entries(c)' = {n + 1}
  BY <1>1, <1>2, <1>3, <1>4, <1>5 DEF Entries
<1>7. ASSUME NEW d \in Calls, d # c
      PROVE  Entries(d)' = Entries(d) /\ \A k \in Entries(d) : log'[k] = log[k]
  BY <1>1, <1>2, <1>3, <1>5, <1>7 DEF Entries
<1>8. QED
  BY <1>2, <1>3, <1>6, <1>7 DEF n

(* The request of an update is answered, and its end of the pipe closed.      *)
LEMMA AnswersUpload ==
  ASSUME IInv, IInv', CInv, NEW c \in Calls, Upload(c), reply[c] = "none", ~Waits(c), ~Runs(c),
         Served, UNCHANGED storeVars, NEW answer, answer # "none",
         answer = "ok" => outcome[c] = "ok",
         answer \notin Unknown \cup {"ok"} => outcome[c] # "ok",
         Answered(c, answer), ReaderClosed(c),
         \A d \in Calls \ {c} : req'[d] = req[d],
         req'[c].phase \in {"none", "freed"}, req'[c].host = req[c].host
  PROVE  CInv'
<1>1. /\ IsPipe(pipe[c]) /\ TokensFit(c) /\ TaskOk(c) /\ LogOk(c) /\ Shape
  BY PipeFacts DEF IInv
<1>2. reply'[c] = answer /\ \A d \in Calls \ {c} : reply'[d] = reply[d]
  BY <1>1, ReplyMoves
<1>3. /\ pipe'[c] = [pipe[c] EXCEPT !.reader = FALSE]
      /\ \A d \in Calls \ {c} : pipe'[d] = pipe[d]
  BY <1>1, PipeMoves
<1>4. /\ pipe'[c].data = pipe[c].data /\ pipe'[c].writer = pipe[c].writer /\ ~pipe'[c].reader
  BY ONLY <1>1, <1>3 DEF IsPipe
<1>5. /\ (Upload(c)' <=> Upload(c)) /\ (OfText(c)' <=> OfText(c)) /\ (OfData(c)' <=> OfData(c))
      /\ Shortened(c)' = Shortened(c)
  BY SaidStays DEF Served
<1>6. (Waits(c)' <=> Waits(c)) /\ (Runs(c)' <=> Runs(c)) /\ Entries(c)' = Entries(c)
  BY DEF Waits, Runs, Entries, storeVars
<1>7. TokensFit(c)'
  BY <1>4, TokensStay
<1>8. ~Active(c)'
  BY <1>2 DEF Active
<1>9. TaskOk(c)'
  BY <1>1, <1>2, <1>5, <1>6 DEF TaskOk, UploadPhases, storeVars
<1>10. LogOk(c)'
  BY <1>1, <1>5, <1>6 DEF LogOk, Partly, Served, storeVars
<1>11. ReplyOk(c)'
  BY <1>2 DEF ReplyOk, storeVars
<1>12. RunOk(c)' /\ ReadOk(c)'
  BY <1>6, <1>8 DEF RunOk, ReadOk
<1>13. WriterOk(c)'
  BY <1>4, <1>8, WriterStays DEF storeVars
<1>14. Queue'
  BY QuietKeeps, QueueKept DEF Served, Settled, storeVars
<1>15. QED
  BY <1>2, <1>3, <1>7, <1>9, <1>10, <1>11, <1>12, <1>13, <1>14, StoreKept, ServedUpload

LEMMA CommitsReadUpdate ==
  ASSUME IInv, IInv', CInv, NEW c \in Calls, ReadUpdate(c), ServiceFrame
  PROVE  CInv'
<1>1. /\ RequestOf(c) /\ Shape /\ TaskOk(c) /\ req[c].phase \in {"op", "text", "params"}
  BY DEF IInv, CallInv, CInv, CommitInv, ReadUpdate
<1>2. /\ Upload(c) /\ OfText(c) /\ reply[c] = "none" /\ req[c].host = "service"
  BY <1>1 DEF RequestOf, TaskOk, UploadPhases, Upload
<1>3. ~Waits(c) /\ ~Runs(c) /\ outcome[c] = "none" /\ Active(c)
  BY <1>1, <1>2 DEF TaskOk, Active
<1>4. /\ IsPipe(pipe[c]) /\ IsRequest(req[c]) /\ TokensFit(c) /\ LogOk(c) /\ ReplyOk(c)
      /\ ReadOk(c) /\ WriterOk(c) /\ Read(c) \in Nat
  BY <1>2, PipeFacts
<1>5. Served /\ UNCHANGED storeVars /\ reply' = reply
  BY DEF ReadUpdate, ServiceFrame, Served, endpointVars, clientVars, portalVars, remoteVars
<1>6. /\ req[c].phase = "op" => Read(c) = 0
      /\ req[c].phase = "text" => Read(c) = 1
      /\ req[c].phase = "params" => Read(c) = 2 /\ req[c].text = Text(c)
  BY <1>2, <1>3, <1>4 DEF ReadOk
<1>7. PICK r :
        /\ req' = [req EXCEPT ![c] = r] /\ r.host = req[c].host /\ IsRequest(r)
        /\ \/ /\ pipe[c].data # <<>> /\ Consumed(c)
              /\ \/ req[c].phase = "op" /\ r.phase = "text"
                 \/ /\ req[c].phase = "text" /\ r.phase = "params"
                    /\ r.text = Rewritten("service", Plain(Head(pipe[c].data)[2]))
                 \/ req[c].phase = "params" /\ r.phase = "read" /\ r.text = req[c].text
           \/ r.phase = "unread" /\ pipe' = pipe
  <2>0. \/ EndOfStream(c) /\ Moved(c, "unread") /\ UNCHANGED pipe
        \/ pipe[c].data # <<>> /\ Consumed(c) /\ ~(EndOfStream(c) /\ Moved(c, "unread"))
    BY ONLY ReadUpdate(c) DEF ReadUpdate, EndOfStream
  <2>1. CASE EndOfStream(c) /\ Moved(c, "unread") /\ UNCHANGED pipe
    <3>1. PICK r : r = [req[c] EXCEPT !.phase = "unread"]
      OBVIOUS
    <3>2. r.host = req[c].host /\ IsRequest(r) /\ r.phase = "unread"
      BY ONLY <1>4, <3>1 DEF IsRequest
    <3>3. req' = [req EXCEPT ![c] = r]
      BY <2>1, <3>1 DEF Moved
    <3>4. QED
      BY <2>1, <3>2, <3>3
  <2>2. CASE pipe[c].data # <<>> /\ Consumed(c) /\ ~(EndOfStream(c) /\ Moved(c, "unread"))
    <3>1. CASE req[c].phase = "op"
      <4>1. PICK r : r = [req[c] EXCEPT !.phase = "text"]
        OBVIOUS
      <4>2. r.host = req[c].host /\ IsRequest(r) /\ r.phase = "text"
        BY ONLY <1>4, <4>1 DEF IsRequest
      <4>3. req' = [req EXCEPT ![c] = r]
        BY <2>2, <3>1, <4>1 DEF ReadUpdate
      <4>4. QED
        BY <2>2, <3>1, <4>2, <4>3
    <3>2. CASE req[c].phase = "text"
      <4>0. PICK text : text = Rewritten("service", Plain(Head(pipe[c].data)[2]))
        OBVIOUS
      <4>1. PICK r : r = [req[c] EXCEPT !.phase = "params", !.text = text]
        OBVIOUS
      <4>2. r.host = req[c].host /\ IsRequest(r) /\ r.phase = "params" /\ r.text = text
        BY ONLY <1>4, <4>1 DEF IsRequest
      <4>3. req' = [req EXCEPT ![c] = r]
        BY <1>2, <2>2, <3>2, <4>0, <4>1 DEF ReadUpdate
      <4>4. QED
        BY <2>2, <3>2, <4>0, <4>2, <4>3
    <3>3. CASE req[c].phase = "params"
      <4>1. PICK r : r = [req[c] EXCEPT !.phase = "read"]
        OBVIOUS
      <4>2. r.host = req[c].host /\ IsRequest(r) /\ r.phase = "read" /\ r.text = req[c].text
        BY ONLY <1>4, <4>1 DEF IsRequest
      <4>3. req' = [req EXCEPT ![c] = r]
        BY <2>2, <3>3, <4>1 DEF ReadUpdate
      <4>4. QED
        BY <2>2, <3>3, <4>2, <4>3
    <3>4. QED
      BY <1>1, <3>1, <3>2, <3>3
  <2>3. QED
    BY ONLY <2>0, <2>1, <2>2
<1>8. req'[c] = r /\ \A d \in Calls \ {c} : req'[d] = req[d]
  BY <1>1, <1>7, ReqMoves
<1>9. /\ \A d \in Calls \ {c} : pipe'[d] = pipe[d]
      /\ pipe'[c].writer = pipe[c].writer /\ pipe'[c].reader = pipe[c].reader
      /\ r.phase # "unread" => pipe[c].data # <<>> /\ pipe'[c].data = Tail(pipe[c].data)
      /\ r.phase = "unread" => pipe'[c].data = pipe[c].data
  <2>1. CASE Consumed(c) /\ r.phase # "unread" /\ pipe[c].data # <<>>
    <3>1. /\ pipe'[c] = [pipe[c] EXCEPT !.data = Tail(@)]
          /\ \A d \in Calls \ {c} : pipe'[d] = pipe[d]
      BY <1>1, <2>1, PipeMoves
    <3>2. QED
      BY ONLY <1>4, <2>1, <3>1 DEF IsPipe
  <2>2. CASE pipe' = pipe /\ r.phase = "unread"
    BY <2>2
  <2>3. QED
    BY <1>7, <2>1, <2>2
<1>10. /\ TokensFit(c)'
       /\ r.phase # "unread" => Read(c)' = Read(c) + 1 /\ Wanted(c, Read(c) + 1, Head(pipe[c].data))
  BY <1>2, <1>5, <1>9, TokenRead, TokensStay
<1>11. /\ (Upload(c)' <=> Upload(c)) /\ (OfText(c)' <=> OfText(c)) /\ (OfData(c)' <=> OfData(c))
       /\ Shortened(c)' = Shortened(c) /\ Text(c)' = Text(c)
  BY <1>5, SaidStays DEF Served
<1>12. (Waits(c)' <=> Waits(c)) /\ (Runs(c)' <=> Runs(c)) /\ Entries(c)' = Entries(c)
       /\ (Active(c)' <=> Active(c))
  BY <1>5, <1>11 DEF Waits, Runs, Entries, storeVars, Active
<1>13. r.phase \in {"text", "params", "read", "unread"}
  BY <1>7
<1>14. TaskOk(c)'
  BY <1>2, <1>3, <1>5, <1>7, <1>8, <1>11, <1>12, <1>13 DEF TaskOk, UploadPhases, storeVars
<1>15. LogOk(c)' /\ ReplyOk(c)'
  BY <1>4, <1>5, <1>11, <1>12 DEF LogOk, ReplyOk, Partly, Served, storeVars
<1>16. RunOk(c)'
  BY <1>3, <1>12 DEF RunOk
<1>17. ReadOk(c)'
  <2>1. r.phase = "params" => r.text = Text(c)
    <3>1. r.phase = "params" => Read(c) + 1 = 2
      BY <1>6, <1>7
    <3>2. QED
      BY <1>2, <1>7, <1>10, <3>1 DEF Wanted, Text
  <2>2. /\ r.phase = "text" => Read(c)' = 1
        /\ r.phase = "params" => Read(c)' = 2
        /\ r.phase = "read" => Read(c)' = 3 /\ r.text = Text(c)
    BY <1>6, <1>7, <1>10
  <2>3. QED
    BY <1>2, <1>3, <1>8, <1>11, <1>12, <1>13, <2>1, <2>2 DEF ReadOk
<1>18. WriterOk(c)'
  BY <1>2, <1>4, <1>5, <1>9, <1>12, WriterStays DEF WriterOk, storeVars
<1>19. Queue'
  BY <1>5, QuietKeeps, QueueKept DEF Served, Settled, storeVars
<1>20. QED
  BY <1>2, <1>5, <1>7, <1>8, <1>9, <1>10, <1>14, <1>15, <1>16, <1>17, <1>18, <1>19, StoreKept,
     ServedUpload

LEMMA CommitsReadEnded ==
  ASSUME IInv, IInv', CInv, NEW c \in Calls, NEW method, ReadEnded(c, method), ServiceFrame
  PROVE  CInv'
<1>1. /\ RequestOf(c) /\ Shape /\ TaskOk(c) /\ req[c].phase \in {"read", "unread"}
  BY DEF IInv, CallInv, CInv, CommitInv, ReadEnded
<1>2. /\ Upload(c) /\ OfText(c) /\ reply[c] = "none" /\ req[c].host = "service"
  BY <1>1 DEF RequestOf, TaskOk, UploadPhases, Upload
<1>3. ~Waits(c) /\ ~Runs(c) /\ outcome[c] = "none" /\ Active(c)
  BY <1>1, <1>2 DEF TaskOk, Active
<1>4. /\ IsRequest(req[c]) /\ TokensFit(c) /\ LogOk(c) /\ ReplyOk(c)
      /\ ReadOk(c) /\ WriterOk(c)
  BY <1>2, PipeFacts
<1>5. Served /\ UNCHANGED <<running, log, outcome>>
  BY DEF ReadEnded, ServiceFrame, Served, endpointVars, clientVars, portalVars, remoteVars
<1>6. PICK failure \in {"cancelled", "stream ended"} :
        failure = IF At(c, "read") THEN "cancelled" ELSE "stream ended"
  OBVIOUS
<1>7. failure \notin {"ok", "none"}
  OBVIOUS
<1>8. CASE /\ Answered(c, failure) /\ ReaderClosed(c) /\ Moved(c, "freed") /\ UNCHANGED queue
  <2>1. PICK r : r = [req[c] EXCEPT !.phase = "freed"]
    OBVIOUS
  <2>2. r.phase = "freed" /\ r.host = req[c].host /\ IsRequest(r)
    BY ONLY <1>4, <2>1 DEF IsRequest
  <2>3. req' = [req EXCEPT ![c] = r]
    BY <1>8, <2>1 DEF Moved
  <2>4. req'[c] = r /\ \A d \in Calls \ {c} : req'[d] = req[d]
    BY <1>1, <2>2, <2>3, ReqMoves
  <2>5. UNCHANGED storeVars
    BY <1>5, <1>8 DEF storeVars
  <2>6. Answered(c, failure) /\ ReaderClosed(c) /\ failure # "none"
        /\ (failure = "ok" => outcome[c] = "ok") /\ outcome[c] # "ok"
    BY <1>3, <1>7, <1>8
  <2>7. QED
    BY ONLY <1>2, <1>3, <1>5, <2>2, <2>4, <2>5, <2>6, IInv, IInv', CInv, c \in Calls, AnswersUpload
<1>9. CASE /\ At(c, "read") /\ Queued([call |-> c, kind |-> method, text |-> req[c].text])
           /\ Moved(c, "updating") /\ UNCHANGED <<reply, pipe>>
  <2>1. PICK r : r = [req[c] EXCEPT !.phase = "updating"]
    OBVIOUS
  <2>2. r.phase = "updating" /\ r.host = req[c].host /\ IsRequest(r)
    BY ONLY <1>4, <2>1 DEF IsRequest
  <2>3. req' = [req EXCEPT ![c] = r]
    BY <1>9, <2>1 DEF Moved
  <2>4. req'[c] = r /\ \A d \in Calls \ {c} : req'[d] = req[d]
    BY <1>1, <2>2, <2>3, ReqMoves
  <2>5. Read(c) = 3 /\ req[c].text = Text(c)
    BY <1>2, <1>4, <1>9 DEF ReadOk, At
  <2>6. Queue' /\ Waits(c)' /\ \A d \in Calls \ {c} : StoreSpares(d)
    <3>1. method = sent[c].method
      BY DEF ReadEnded
    <3>2. Queued([call |-> c, kind |-> sent[c].method, text |-> req[c].text])
      BY <1>9, <3>1
    <3>3. QED
      BY ONLY <1>3, <1>5, <2>5, <3>2, IInv, CInv, c \in Calls, TaskQueued
  <2>7. /\ (Upload(c)' <=> Upload(c)) /\ (OfText(c)' <=> OfText(c)) /\ (OfData(c)' <=> OfData(c))
        /\ Shortened(c)' = Shortened(c)
    BY <1>5, SaidStays DEF Served
  <2>8. (Runs(c)' <=> Runs(c)) /\ Entries(c)' = Entries(c) /\ (Active(c)' <=> Active(c))
    BY <1>5, <1>9, <2>7 DEF Runs, Entries, Active
  <2>9. TokensFit(c)' /\ Read(c)' = Read(c)
    BY <1>2, <1>5, <1>9, TokensStay
  <2>10. TaskOk(c)'
    BY <1>2, <1>3, <1>5, <1>9, <2>2, <2>4, <2>7, <2>8 DEF TaskOk, UploadPhases
  <2>11. LogOk(c)' /\ ReplyOk(c)'
    BY <1>4, <1>5, <1>9, <2>7, <2>8 DEF LogOk, ReplyOk, Partly, Served
  <2>12. RunOk(c)' /\ ReadOk(c)'
    BY <1>2, <1>3, <2>2, <2>4, <2>5, <2>7, <2>8, <2>9 DEF RunOk, ReadOk
  <2>13. WriterOk(c)'
    BY <1>2, <1>4, <1>5, <1>9, <2>8, WriterStays DEF WriterOk
  <2>14. QED
    BY ONLY <1>2, <1>5, <1>9, <2>2, <2>4, <2>6, <2>9, <2>10, <2>11, <2>12, <2>13, IInv, IInv', CInv,
       c \in Calls, ServedUpload
<1>10. QED
  <2>1. \/ /\ Answered(c, failure) /\ ReaderClosed(c) /\ Moved(c, "freed") /\ UNCHANGED queue
        \/ /\ At(c, "read") /\ Queued([call |-> c, kind |-> method, text |-> req[c].text])
           /\ Moved(c, "updating") /\ UNCHANGED <<reply, pipe>>
    BY ONLY ReadEnded(c, method), <1>6 DEF ReadEnded
  <2>2. QED
    BY ONLY <1>8, <1>9, <2>1

LEMMA CommitsTaskEnded ==
  ASSUME IInv, IInv', CInv, NEW c \in Calls, NEW method, TaskEnded(c, method), ServiceFrame
  PROVE  CInv'
<1>1. /\ RequestOf(c) /\ Shape /\ TaskOk(c) /\ req[c].phase \in {"updating", "stream"}
      /\ outcome[c] # "none"
  BY DEF IInv, CallInv, CInv, CommitInv, TaskEnded
<1>2. Upload(c) /\ reply[c] = "none" /\ ~Active(c)
  BY <1>1 DEF RequestOf, TaskOk, UploadPhases, Upload, Active
<1>3. ~Waits(c) /\ ~Runs(c) /\ IsRequest(req[c])
  BY <1>1, <1>2, Shapes DEF TaskOk
<1>4. Served /\ UNCHANGED storeVars
  BY DEF TaskEnded, ServiceFrame, Served, endpointVars, clientVars, portalVars, remoteVars
<1>5. PICK answer : answer = IF req[c].host \in objects THEN outcome[c] ELSE "cancelled"
  OBVIOUS
<1>6. Answered(c, answer) /\ ReaderClosed(c) /\ Moved(c, "freed")
  BY <1>5 DEF TaskEnded
<1>7. /\ answer # "none" /\ (answer = "ok" => outcome[c] = "ok")
      /\ (answer \notin Unknown \cup {"ok"} => outcome[c] # "ok")
  <2>1. answer = outcome[c] \/ answer = "cancelled"
    BY <1>5
  <2>2. "cancelled" \in Unknown
    BY DEF Unknown
  <2>3. QED
    BY ONLY <1>1, <2>1, <2>2
<1>8. PICK r : r = [req[c] EXCEPT !.phase = "freed"]
  OBVIOUS
<1>9. r.phase = "freed" /\ r.host = req[c].host /\ IsRequest(r)
  BY ONLY <1>3, <1>8 DEF IsRequest
<1>10. req' = [req EXCEPT ![c] = r]
  BY <1>6, <1>8 DEF Moved
<1>11. req'[c] = r /\ \A d \in Calls \ {c} : req'[d] = req[d]
  BY <1>1, <1>9, <1>10, ReqMoves
<1>12. QED
  BY ONLY <1>2, <1>3, <1>4, <1>6, <1>7, <1>9, <1>11, IInv, IInv', CInv, c \in Calls, AnswersUpload

(* ---- Steps of the update thread                                            *)

(* How a task ends.                                                           *)
Finishes(c, ops) ==
  Committed(c, ops) \/ (\E error : error \notin {"none", "ok"} /\ Aborted(c, error))

LEMMA OutcomeMoves ==
  ASSUME CInv, NEW c \in Calls, NEW ops, Finishes(c, ops)
  PROVE  /\ Fcn(outcome', Calls) /\ outcome'[c] # "none" /\ (Committed(c, ops) => outcome'[c] = "ok")
         /\ outcome'[c] = "ok" => Committed(c, ops)
         /\ \A d \in Calls \ {c} : outcome'[d] = outcome[d]
<1>1. Fcn(outcome, Calls)
  BY DEF CInv, Queue
<1>2. ASSUME NEW e, outcome' = [outcome EXCEPT ![c] = e]
      PROVE  Fcn(outcome', Calls) /\ outcome'[c] = e /\ \A d \in Calls \ {c} : outcome'[d] = outcome[d]
  BY ONLY <1>1, <1>2, c \in Calls DEF Fcn
<1>3. CASE Committed(c, ops)
  <2>1. outcome' = [outcome EXCEPT ![c] = "ok"]
    BY <1>3 DEF Committed
  <2>2. Fcn(outcome', Calls) /\ outcome'[c] = "ok" /\ \A d \in Calls \ {c} : outcome'[d] = outcome[d]
    BY <1>2, <2>1
  <2>3. QED
    BY ONLY <1>3, <2>2
<1>4. ASSUME NEW error, error \notin {"none", "ok"}, Aborted(c, error)
      PROVE  Fcn(outcome', Calls) /\ outcome'[c] = error /\ \A d \in Calls \ {c} : outcome'[d] = outcome[d]
  BY <1>2, <1>4 DEF Aborted
<1>5. QED
  <2>1. ASSUME ~Committed(c, ops)
        PROVE  /\ Fcn(outcome', Calls) /\ outcome'[c] \notin {"none", "ok"}
               /\ \A d \in Calls \ {c} : outcome'[d] = outcome[d]
    BY <1>4, <2>1 DEF Finishes
  <2>2. QED
    BY <1>2, <1>3, <2>1 DEF Committed

(* The thread is done with a task: it committed it or it gave it up.          *)
LEMMA TaskFinishes ==
  ASSUME IInv, IInv', CInv, NEW c \in Calls, Active(c), req[c].phase \in {"updating", "stream"},
         UNCHANGED <<req, reply>>, Served, Queue', ~Waits(c)', ~Runs(c)',
         \A d \in Calls \ {c} :
           /\ pipe'[d] = pipe[d] /\ (Waits(d)' <=> Waits(d))
           /\ (Runs(d)' <=> Runs(d)) /\ (Runs(d) => running' = running),
         TokensFit(c)', pipe'[c].writer = pipe[c].writer, pipe'[c].reader => pipe[c].reader,
         NEW ops, Finishes(c, ops),
         Committed(c, ops) =>
           (ops = meant[c] \/ Partly(c, ops)) /\ (call[c].write = "busy" => Ended(c))
  PROVE  CInv'
<1>1. Upload(c) /\ outcome[c] = "none" /\ reply[c] = "none"
  BY DEF Active
<1>2. /\ LogOk(c) /\ TaskOk(c) /\ WriterOk(c)
  BY <1>1, PipeFacts
<1>3. /\ (Upload(c)' <=> Upload(c)) /\ (OfText(c)' <=> OfText(c)) /\ (OfData(c)' <=> OfData(c))
      /\ Shortened(c)' = Shortened(c) /\ meant' = meant /\ disturbed' = disturbed
  BY SaidStays DEF Served
<1>4. /\ outcome'[c] # "none" /\ (Committed(c, ops) => outcome'[c] = "ok")
      /\ outcome'[c] = "ok" => Committed(c, ops)
      /\ \A d \in Calls \ {c} : outcome'[d] = outcome[d]
  BY OutcomeMoves
<1>5. ~Active(c)'
  BY <1>4 DEF Active
<1>6. ASSUME NEW d \in Calls, d # c PROVE StoreSpares(d)
  <2>1. Entries(d)' = Entries(d) /\ \A k \in Entries(d) : log'[k] = log[k]
    <3>1. CASE Committed(c, ops)
      BY <1>1, <1>6, <3>1, EntryAdded
    <3>2. CASE log' = log
      BY <3>2 DEF Entries
    <3>3. QED
      BY <3>1, <3>2 DEF Finishes, Aborted
  <2>2. QED
    BY <1>4, <1>6, <2>1 DEF StoreSpares
<1>7. TaskOk(c)'
  BY <1>1, <1>2, <1>3 DEF TaskOk
<1>8. LogOk(c)'
  <2>1. CASE Committed(c, ops)
    <3>1. Entries(c)' = {Len(log) + 1} /\ log'[Len(log) + 1].ops = ops
      BY <1>1, <2>1, EntryAdded
    <3>2. Partly(c, ops) => Partly(c, ops)'
      BY <1>3 DEF Partly
    <3>3. QED
      BY <1>3, <1>4, <2>1, <3>1, <3>2 DEF LogOk
  <2>2. CASE log' = log /\ ~Committed(c, ops)
    <3>1. Entries(c)' = {}
      BY <1>1, <1>2, <2>2 DEF LogOk, Entries
    <3>2. QED
      BY <1>4, <2>2, <3>1 DEF LogOk
  <2>3. QED
    BY <2>1, <2>2 DEF Finishes, Aborted
<1>9. ReplyOk(c)'
  BY <1>1 DEF ReplyOk, Unknown
<1>10. RunOk(c)' /\ ReadOk(c)'
  BY <1>1, <1>2, <1>3, <1>5 DEF RunOk, ReadOk, TaskOk
<1>11. WriterOk(c)'
  <2>1. Committed(c, ops) => call[c].write # "broken pipe"
    BY <1>2 DEF WriterOk
  <2>2. QED
    BY <1>1, <1>4, <1>5, <2>1, WriterStays
<1>12. QED
  BY <1>1, <1>6, <1>7, <1>8, <1>9, <1>10, <1>11, ServedUpload

(* An update is one request and one transaction.                              *)
LEMMA CommitsRunUpdate ==
  ASSUME IInv, IInv', CInv, RunUpdate, UNCHANGED <<requestVars, clientVars, portalVars, http, remoteVars>>
  PROVE  CInv'
<1> DEFINE task == Head(queue)
<1>1. PICK c : c = Head(queue).call
  OBVIOUS
<1>2. PICK text : text = Head(queue).text
  OBVIOUS
<1>3. Served /\ UNCHANGED <<req, reply, pipe, running>>
  BY DEF RunUpdate, Served, busVars, endpointVars, clientVars, requestVars, portalVars, remoteVars
<1>4. running = NoTask /\ queue # <<>> /\ queue' = Tail(queue) /\ Head(queue).kind \in {"update", "blank"}
  BY DEF RunUpdate
<1> DEFINE ops == <<[text |-> text, args |-> {}]>>
<1>5. Finishes(c, ops)
  <2>1. PICK error : error = "parse error"
    OBVIOUS
  <2>2. error \notin {"none", "ok"}
    BY <2>1
  <2>3. Committed(c, ops) \/ Aborted(c, error)
    BY <1>1, <1>2, <2>1 DEF RunUpdate
  <2>4. QED
    BY ONLY <2>2, <2>3 DEF Finishes
<1> HIDE DEF ops
<1>6. Head(queue).call \in Calls
  BY <1>4, QueueFacts DEF Tasks
<1>7. Fcn(outcome', Calls)
  BY <1>1, <1>5, <1>6, OutcomeMoves
<1>8. /\ c \in Calls /\ Upload(c) /\ Waits(c) /\ Queue' /\ ~Waits(c)'
      /\ Head(queue).kind = sent[c].method /\ (OfText(c) => Head(queue).text = Text(c))
      /\ \A d \in Calls \ {c} : Waits(d)' <=> Waits(d)
  BY <1>1, <1>3, <1>4, <1>7, TaskTaken
<1>9. OfText(c) /\ Active(c) /\ req[c].phase = "updating" /\ text = Text(c) /\ Read(c) = 3
  <2>1. OfText(c) /\ TaskOk(c) /\ ReadOk(c)
    BY <1>4, <1>8, PipeFacts DEF OfText
  <2>2. QED
    BY <1>2, <1>8, <2>1 DEF TaskOk, ReadOk
<1>10. ops = meant[c]
  BY <1>8, <1>9, PipeFacts DEF MeantOk, ops
<1>11. Ended(c)
  <2>1. /\ call[c].pos \in Nat \ {0} /\ Len(pipe[c].data) \in Nat
        /\ Len(Pieces(c)) = 3
    BY <1>8, <1>9, PipeFacts, UploadFacts, PiecesOf DEF OfText
  <2>2. QED
    BY <1>9, <2>1 DEF Read, Ended
<1>12. TokensFit(c)'
  BY <1>3, <1>8, TokensStay
<1>13. \A d : (Runs(d)' <=> Runs(d)) /\ ~Runs(d)
  BY <1>3, <1>4 DEF Runs
<1>14. QED
  BY <1>3, <1>5, <1>8, <1>9, <1>10, <1>11, <1>12, <1>13, TaskFinishes

(* The update thread begins to read a batch or a document.                    *)
LEMMA CommitsBeginStream ==
  ASSUME IInv, IInv', CInv, BeginStream, UNCHANGED <<requestVars, clientVars, portalVars, http, remoteVars>>
  PROVE  CInv'
<1>1. PICK c : c = Head(queue).call
  OBVIOUS
<1>2. Served /\ UNCHANGED <<req, reply, pipe, log, outcome>>
  BY DEF BeginStream, Served, busVars, endpointVars, clientVars, requestVars, portalVars, remoteVars
<1>3. /\ running = NoTask /\ queue # <<>> /\ queue' = Tail(queue)
      /\ Head(queue).kind \in {"array", "deserialize"}
  BY DEF BeginStream
<1>4. PICK t : /\ running' = t /\ t.call = c /\ t.ops = <<>> /\ t.op = <<>> /\ t # NoTask
               /\ t.expect = IF Head(queue).kind = "array" THEN "count" ELSE "rdf"
  <2>1. PICK e : e = IF Head(queue).kind = "array" THEN "count" ELSE "rdf"
    OBVIOUS
  <2>2. PICK t : t = [NoTask EXCEPT !.call = c, !.expect = e]
    OBVIOUS
  <2>3. t.call = c /\ t.ops = <<>> /\ t.op = <<>> /\ t.expect = e
    BY ONLY <2>2 DEF NoTask
  <2>4. t # NoTask
    BY ONLY <2>1, <2>3 DEF NoTask
  <2>5. running' = t
    BY <1>1, <2>1, <2>2 DEF BeginStream
  <2>6. QED
    BY <2>1, <2>3, <2>4, <2>5
<1>5. Fcn(outcome', Calls)
  BY <1>2, QueueFacts DEF Queue
<1>6. /\ c \in Calls /\ Upload(c) /\ Waits(c) /\ Queue' /\ ~Waits(c)'
      /\ Head(queue).kind = sent[c].method
      /\ \A d \in Calls \ {c} : Waits(d)' <=> Waits(d)
  BY <1>1, <1>2, <1>3, <1>5, TaskTaken
<1>7. ~OfText(c) /\ Active(c) /\ req[c].phase = "stream" /\ Read(c) = 0
  <2>1. ~OfText(c) /\ TaskOk(c) /\ ReadOk(c)
    BY <1>3, <1>6, PipeFacts DEF OfText
  <2>2. QED
    BY <1>6, <2>1 DEF TaskOk, ReadOk
<1>8. /\ (Upload(c)' <=> Upload(c)) /\ (OfText(c)' <=> OfText(c)) /\ (OfData(c)' <=> OfData(c))
      /\ (OfBatch(c)' <=> OfBatch(c)) /\ Shortened(c)' = Shortened(c)
      /\ (Active(c)' <=> Active(c)) /\ Entries(c)' = Entries(c)
  BY <1>2, SaidStays DEF Served, Active, Entries
<1>9. TokensFit(c)' /\ Read(c)' = Read(c)
  BY <1>2, <1>6, TokensStay
<1>10. Runs(c)' /\ \A d \in Calls \ {c} : ~Runs(d)' /\ ~Runs(d)
  BY <1>3, <1>4 DEF Runs
<1>11. \A d \in Calls \ {c} : StoreSpares(d)
  BY <1>2, <1>6, <1>10 DEF StoreSpares, Entries
<1>12. TaskOk(c)'
  <2>1. TaskOk(c)
    BY <1>6, PipeFacts
  <2>2. QED
    BY ONLY <1>2, <1>6, <1>7, <1>8, <1>10, <2>1 DEF TaskOk
<1>13. LogOk(c)' /\ ReplyOk(c)'
  <2>1. LogOk(c) /\ ReplyOk(c)
    BY <1>6, PipeFacts
  <2>2. QED
    BY <1>2, <1>8, <2>1 DEF LogOk, ReplyOk, Partly, Served
<1>14. RunOk(c)'
  <2>1. OfData(c) => t.expect = "rdf" /\ IsSeq(t.op) /\ Len(t.op) = 0
    BY <1>3, <1>4, <1>6, NothingSeq DEF OfData
  <2>2. OfBatch(c) => Reads(c, t)'
    BY <1>3, <1>4, <1>6, <1>7, <1>9, NothingSeq DEF OfBatch, Reads, ReadsAs
  <2>3. QED
    BY <1>4, <1>7, <1>8, <1>9, <2>1, <2>2 DEF RunOk
<1>15. ReadOk(c)'
  <2>1. ReadOk(c)
    BY <1>6, PipeFacts
  <2>2. QED
    BY <1>2, <1>6, <1>7, <1>8, <1>9, <2>1 DEF ReadOk
<1>16. WriterOk(c)'
  BY <1>2, <1>6, <1>8, PipeFacts, WriterStays DEF WriterOk
<1>17. QED
  BY <1>2, <1>6, <1>9, <1>11, <1>12, <1>13, <1>14, <1>15, <1>16, ServedUpload

(* The next token of a batch is read.                                         *)
LEMMA NextToken ==
  ASSUME NEW ops, OpsOk(ops), Len(ops) > 0, NEW wanted,
         \A k \in DOMAIN ops :
           /\ wanted[k] = [text |-> Plain(ops[k].text), args |-> wanted[k].args]
           /\ ops[k].kind = "rdf" => wanted[k].args = Loaded(ops[k].n),
         NEW r \in Nat, NEW t, IsTask(t), ReadsAs(ops, wanted, r, t), t.expect # "done", NEW token,
         r = 0 => token[2] = Len(ops),
         \A k \in DOMAIN ops : Part(ops[k], wanted[k].args, (r + 1) - Start(ops, k - 1), token)
  PROVE  ReadsAs(ops, wanted, r + 1, AfterToken(t, token))
<1> DEFINE n == Len(ops)
           d == Len(t.ops)
           op == ops[d + 1]
           s0 == Start(ops, d)
           s1 == Start(ops, d + 1)
           u == AfterToken(t, token)
           Right(x) == /\ IsSeq(x.ops) /\ Len(x.ops) = d /\ \A i \in 1..d : x.ops[i] = wanted[i]
<1>1. n \in Nat \ {0} /\ DOMAIN ops = 1..n
  BY StartOf
<1>2. d \in Nat /\ d <= n /\ IsSeq(t.ops) /\ \A i \in 1..d : t.ops[i] = wanted[i]
  <2>1. IsSeq(t.ops) /\ \A i \in 1..d : t.ops[i] = wanted[i]
    BY DEF ReadsAs
  <2>2. d \in Nat
    BY <2>1, SeqFacts
  <2>3. d = 0 \/ d = n \/ d < n
    BY DEF ReadsAs
  <2>4. QED
    BY <1>1, <2>1, <2>2, <2>3
<1>3. /\ t.expect \in {"count", "op", "text", "params", "graph", "data"}
      /\ t.expect = "count" => d = 0 /\ r = 0
      /\ t.expect # "count" => d < n /\ t.left = n - d
      /\ t.expect = "op" => r - s0 = 0
      /\ t.expect = "text" => r - s0 = 1 /\ op.kind = "sparql"
      /\ t.expect = "params" => r - s0 = 2 /\ op.kind = "sparql" /\ t.op[1] = op.text
      /\ t.expect = "graph" => r - s0 = 1 /\ op.kind = "rdf"
      /\ t.expect = "data" =>
           op.kind = "rdf" /\ IsSeq(t.op) /\ r - s0 = 2 + Len(t.op) /\ Len(t.op) < op.n
  BY DEF ReadsAs
<1>4. d + 1 \in 1..n /\ (d + 1) - 1 = d /\ s0 \in Nat \ {0} /\ s1 \in Nat \ {0}
      /\ s1 = s0 + Sized(op)
  <2>1. d < n
    BY <1>1, <1>2, <1>3
  <2>2. d \in 0..n /\ d + 1 \in 0..n /\ d + 1 \in 1..n /\ (d + 1) - 1 = d
    BY ONLY <1>1, <1>2, <2>1
  <2> HIDE DEF n, d
  <2>3. QED
    BY <2>2, StartOf DEF n
<1>5. /\ wanted[d + 1] = [text |-> Plain(op.text), args |-> wanted[d + 1].args]
      /\ op.kind = "rdf" => wanted[d + 1].args = Loaded(op.n)
      /\ op.kind = "sparql" \/ (op.kind = "rdf" /\ op.n \in Nat \ {0})
      /\ Part(op, wanted[d + 1].args, (r + 1) - s0, token)
  BY <1>1, <1>4 DEF OpsOk
<1>6. ASSUME NEW x, IsSeq(x.ops), Len(x.ops) = d, \A i \in 1..d : x.ops[i] = wanted[i],
             x.expect \in {"op", "text", "params", "graph", "data"}, d < n, x.left = n - d,
             x.expect = "op" => (r + 1) - s0 = 0,
             x.expect = "text" => (r + 1) - s0 = 1 /\ op.kind = "sparql",
             x.expect = "params" => (r + 1) - s0 = 2 /\ op.kind = "sparql" /\ x.op[1] = op.text,
             x.expect = "graph" => (r + 1) - s0 = 1 /\ op.kind = "rdf",
             x.expect = "data" =>
               op.kind = "rdf" /\ IsSeq(x.op) /\ (r + 1) - s0 = 2 + Len(x.op) /\ Len(x.op) < op.n
      PROVE  ReadsAs(ops, wanted, r + 1, x)
  BY <1>6 DEF ReadsAs
<1>7. ASSUME NEW e, e = wanted[d + 1], (r + 1) - s0 = Sized(op), d < n, t.left = n - d
      PROVE  ReadsAs(ops, wanted, r + 1, OpDone(t, e))
  <2>1. PICK x : x = OpDone(t, e)
    OBVIOUS
  <2>2. x.ops = Append(t.ops, e) /\ x.left = t.left - 1
        /\ x.expect = IF t.left = 1 THEN "done" ELSE "op"
    BY ONLY <2>1, IsTask(t) DEF OpDone, IsTask
  <2>3. /\ IsSeq(x.ops) /\ Len(x.ops) = d + 1 /\ x.ops[d + 1] = e
        /\ \A i \in 1..d : x.ops[i] = t.ops[i]
    BY <1>2, <2>2, AppendSeq
  <2>4. \A i \in 1..(d + 1) : x.ops[i] = wanted[i]
    <3> HIDE DEF d
    <3>1. \A i \in 1..(d + 1) : i = d + 1 \/ i \in 1..d
      BY ONLY <1>2
    <3>2. QED
      BY ONLY <1>2, <1>7, <2>3, <3>1
  <2>5. (r + 1) - s1 = 0
    BY ONLY <1>4, <1>5, <1>7, r \in Nat DEF Sized
  <2>0. /\ t.left = 1 => d + 1 = n
        /\ t.left # 1 => d + 1 < n /\ t.left - 1 = n - (d + 1)
    <3>1. t.left = n - d /\ d < n /\ n \in Nat /\ d \in Nat
      BY ONLY <1>1, <1>2, <1>7
    <3> HIDE DEF d, n
    <3>2. QED
      BY ONLY <3>1
  <2>6. x.expect = "done" => d + 1 = n
    BY ONLY <2>0, <2>2
  <2>7. x.expect # "done" => x.expect = "op" /\ d + 1 < n /\ x.left = n - (d + 1)
    BY ONLY <2>0, <2>2
  <2>8. x.expect \in {"done", "op"}
    BY ONLY <2>2
  <2>9. ReadsAs(ops, wanted, r + 1, x)
    BY ONLY <2>3, <2>4, <2>5, <2>6, <2>7, <2>8 DEF ReadsAs
  <2>10. QED
    BY <2>1, <2>9
<1>8. CASE t.expect = "count"
  <2>1. PICK x : x = [t EXCEPT !.left = token[2], !.expect = "op"]
    OBVIOUS
  <2>2. x.ops = t.ops /\ x.left = token[2] /\ x.expect = "op"
    BY ONLY <2>1, IsTask(t) DEF IsTask
  <2>3. d = 0 /\ r = 0 /\ token[2] = n /\ s0 = 1
    BY <1>3, <1>8, StartOf
  <2>4. d < n /\ x.left = n - d /\ (r + 1) - s0 = 0
    BY ONLY <1>1, <2>2, <2>3
  <2>5. ReadsAs(ops, wanted, r + 1, x)
    BY <1>2, <1>6, <2>2, <2>4
  <2>6. u = x
    BY <1>8, <2>1 DEF AfterToken
  <2>7. QED
    BY <2>5, <2>6
<1>9. CASE t.expect = "op"
  <2>0. PICK e : e = IF token[2] = "sparql" THEN "text" ELSE "graph"
    OBVIOUS
  <2>1. PICK x : x = [t EXCEPT !.expect = e]
    OBVIOUS
  <2>2. x.ops = t.ops /\ x.left = t.left /\ x.expect = e
    BY ONLY <2>1, IsTask(t) DEF IsTask
  <2>3. (r + 1) - s0 = 1 /\ d < n /\ t.left = n - d
    BY ONLY <1>3, <1>4, <1>9, r \in Nat
  <2>4. (e = "text" /\ op.kind = "sparql") \/ (e = "graph" /\ op.kind = "rdf")
    BY ONLY <1>5, <2>0, <2>3 DEF Part
  <2>5. ReadsAs(ops, wanted, r + 1, x)
    BY <1>2, <1>6, <2>2, <2>3, <2>4
  <2>6. u = x
    BY <1>9, <2>0, <2>1 DEF AfterToken
  <2>7. QED
    BY <2>5, <2>6
<1>10. CASE t.expect = "text"
  <2>1. PICK x : x = [t EXCEPT !.op = <<token[2]>>, !.expect = "params"]
    OBVIOUS
  <2>2. x.ops = t.ops /\ x.left = t.left /\ x.expect = "params" /\ x.op = <<token[2]>>
    BY ONLY <2>1, IsTask(t) DEF IsTask
  <2>3. (r + 1) - s0 = 2 /\ d < n /\ t.left = n - d /\ op.kind = "sparql"
    BY ONLY <1>3, <1>4, <1>10, r \in Nat
  <2>4. x.op[1] = op.text
    BY ONLY <1>5, <2>2, <2>3 DEF Part
  <2>5. ReadsAs(ops, wanted, r + 1, x)
    BY <1>2, <1>6, <2>2, <2>3, <2>4
  <2>6. u = x
    BY <1>10, <2>1 DEF AfterToken
  <2>7. QED
    BY <2>5, <2>6
<1>11. CASE t.expect = "params"
  <2>1. PICK e : e = [text |-> Plain(t.op[1]), args |-> token[2]]
    OBVIOUS
  <2>2. (r + 1) - s0 = 3 /\ d < n /\ t.left = n - d /\ op.kind = "sparql" /\ t.op[1] = op.text
    BY ONLY <1>3, <1>4, <1>11, r \in Nat
  <2>3. token[2] = wanted[d + 1].args /\ Sized(op) = 3
    BY ONLY <1>5, <2>2 DEF Part, Sized
  <2>4. e = wanted[d + 1]
    BY ONLY <1>5, <2>1, <2>2, <2>3
  <2>5. ReadsAs(ops, wanted, r + 1, OpDone(t, e))
    BY <1>7, <2>2, <2>3, <2>4
  <2>6. u = OpDone(t, e)
    BY <1>11, <2>1 DEF AfterToken
  <2>7. QED
    BY <2>5, <2>6
<1>12. CASE t.expect = "graph"
  <2>1. PICK x : x = [t EXCEPT !.op = <<>>, !.expect = "data"]
    OBVIOUS
  <2>2. x.ops = t.ops /\ x.left = t.left /\ x.expect = "data" /\ x.op = <<>>
    BY ONLY <2>1, IsTask(t) DEF IsTask
  <2>3. (r + 1) - s0 = 2 /\ d < n /\ t.left = n - d /\ op.kind = "rdf"
    BY ONLY <1>3, <1>4, <1>12, r \in Nat
  <2>4. IsSeq(x.op) /\ Len(x.op) = 0 /\ (r + 1) - s0 = 2 + Len(x.op) /\ Len(x.op) < op.n
    BY <1>5, <2>2, <2>3, NothingSeq
  <2>5. ReadsAs(ops, wanted, r + 1, x)
    BY <1>2, <1>6, <2>2, <2>3, <2>4
  <2>6. u = x
    BY <1>12, <2>1 DEF AfterToken
  <2>7. QED
    BY <2>5, <2>6
<1>13. CASE t.expect = "data"
  <2>1. Len(t.op) \in Nat
    BY <1>3, <1>13, SeqFacts
  <2>2. /\ d < n /\ t.left = n - d /\ op.kind = "rdf" /\ op.n \in Nat \ {0} /\ Sized(op) = 2 + op.n
        /\ Len(t.op) < op.n /\ (r + 1) - s0 = 2 + (Len(t.op) + 1)
        /\ (r + 1) - s0 \in 3..Sized(op)
    <3>1. /\ d < n /\ t.left = n - d /\ op.kind = "rdf" /\ op.n \in Nat \ {0}
          /\ Len(t.op) < op.n /\ r - s0 = 2 + Len(t.op)
      BY ONLY <1>3, <1>5, <1>13
    <3>2. Sized(op) = 2 + op.n
      BY ONLY <3>1 DEF Sized
    <3>3. s0 \in Nat
      BY ONLY <1>4
    <3> DEFINE l == Len(t.op)
               m == op.n
    <3>4. l \in Nat /\ m \in Nat \ {0} /\ l < m /\ r - s0 = 2 + l
      BY ONLY <2>1, <3>1
    <3> HIDE DEF l, m, s0
    <3>5. (r + 1) - s0 = 2 + (l + 1) /\ (r + 1) - s0 \in 3..(2 + m)
      BY ONLY <3>3, <3>4, r \in Nat
    <3>6. QED
      BY ONLY <3>1, <3>2, <3>5 DEF l, m
  <2>3. token[2] = op.text /\ token[3] = op.n
    BY ONLY <1>5, <2>2 DEF Part
  <2>4. CASE Len(t.op) + 1 = token[3]
    <3>1. PICK e : e = [text |-> Plain(token[2]), args |-> {<<"loaded", Len(t.op) + 1>>}]
      OBVIOUS
    <3>2. e = wanted[d + 1]
      BY ONLY <1>5, <2>2, <2>3, <2>4, <3>1 DEF Loaded
    <3>3. (r + 1) - s0 = Sized(op)
      BY ONLY <2>2, <2>3, <2>4
    <3>4. ReadsAs(ops, wanted, r + 1, OpDone(t, e))
      BY <1>7, <2>2, <3>2, <3>3
    <3>5. u = OpDone(t, e)
      BY <1>13, <2>4, <3>1 DEF AfterToken
    <3>6. QED
      BY <3>4, <3>5
  <2>5. CASE Len(t.op) + 1 # token[3]
    <3>1. PICK x : x = [t EXCEPT !.op = Append(@, token)]
      OBVIOUS
    <3>2. x.ops = t.ops /\ x.left = t.left /\ x.expect = "data" /\ x.op = Append(t.op, token)
      BY ONLY <1>13, <3>1, IsTask(t) DEF IsTask
    <3>3. IsSeq(x.op) /\ Len(x.op) = Len(t.op) + 1
      BY <1>3, <1>13, <3>2, AppendSeq
    <3>4. (r + 1) - s0 = 2 + Len(x.op) /\ Len(x.op) < op.n
      <4> DEFINE l == Len(t.op)
                 m == op.n
      <4>1. l \in Nat /\ m \in Nat \ {0} /\ l < m /\ l + 1 # m
        BY ONLY <2>1, <2>2, <2>3, <2>5
      <4>2. (r + 1) - s0 = 2 + (l + 1)
        BY ONLY <2>2
      <4> HIDE DEF l, m, s0
      <4>3. l + 1 < m
        BY ONLY <4>1
      <4>4. QED
        BY ONLY <3>3, <4>2, <4>3 DEF l, m
    <3>5. ReadsAs(ops, wanted, r + 1, x)
      BY <1>2, <1>6, <2>2, <3>2, <3>3, <3>4
    <3>6. u = x
      BY <1>13, <2>5, <3>1 DEF AfterToken
    <3>7. QED
      BY <3>5, <3>6
  <2>6. QED
    BY <2>4, <2>5
<1>14. QED
  BY <1>3, <1>8, <1>9, <1>10, <1>11, <1>12, <1>13

LEMMA TokenCall ==
  ASSUME NEW t, IsTask(t), t.expect \in {"count", "op", "text", "params", "graph", "data", "rdf"},
         NEW token
  PROVE  AfterToken(t, token).call = t.call
<1>1. ASSUME NEW e PROVE OpDone(t, e).call = t.call
  BY ONLY IsTask(t) DEF OpDone, IsTask
<1>2. CASE t.expect = "count"
  BY ONLY IsTask(t), <1>2 DEF AfterToken, IsTask
<1>3. CASE t.expect = "op"
  BY ONLY IsTask(t), <1>3 DEF AfterToken, IsTask
<1>4. CASE t.expect = "text"
  BY ONLY IsTask(t), <1>4 DEF AfterToken, IsTask
<1>5. CASE t.expect = "params"
  BY ONLY <1>1, <1>5 DEF AfterToken
<1>6. CASE t.expect = "graph"
  BY ONLY IsTask(t), <1>6 DEF AfterToken, IsTask
<1>7. CASE t.expect = "data"
  <2>1. [t EXCEPT !.op = Append(@, token)].call = t.call
    BY ONLY IsTask(t) DEF IsTask
  <2>2. QED
    BY ONLY <1>1, <1>7, <2>1 DEF AfterToken
<1>8. CASE t.expect = "rdf"
  BY ONLY IsTask(t), <1>8 DEF AfterToken, IsTask
<1>9. QED
  BY <1>2, <1>3, <1>4, <1>5, <1>6, <1>7, <1>8

(* What holds of the call of the task that runs.                              *)
LEMMA RunningFacts ==
  ASSUME IInv, CInv, running # NoTask, NEW c, c = running.call
  PROVE  /\ c \in Calls /\ Upload(c) /\ Runs(c) /\ Active(c) /\ ~Waits(c) /\ ~OfText(c)
         /\ (OfBatch(c) \/ OfData(c)) /\ req[c].phase = "stream" /\ IsTask(running) /\ RunOk(c)
         /\ \A d \in Calls \ {c} : ~Runs(d)
<1>1. c \in Calls /\ Upload(c) /\ IsTask(running)
  BY QueueFacts DEF Tasks, Upload
<1>2. Runs(c) /\ \A d \in Calls \ {c} : ~Runs(d)
  BY DEF Runs
<1>3. TaskOk(c) /\ RunOk(c)
  BY <1>1, PipeFacts
<1>4. QED
  BY <1>1, <1>2, <1>3, UploadFacts DEF TaskOk

(* The running task is over: it was committed, or it failed.                  *)
LEMMA StreamFinishes ==
  ASSUME IInv, IInv', CInv, running # NoTask, NEW c, c = running.call,
         Served, UNCHANGED <<req, reply, queue>>, running' = NoTask,
         \A d \in Calls \ {c} : pipe'[d] = pipe[d],
         TokensFit(c)', pipe'[c].writer = pipe[c].writer, pipe'[c].reader => pipe[c].reader,
         NEW ops, Finishes(c, ops),
         Committed(c, ops) =>
           (ops = meant[c] \/ Partly(c, ops)) /\ (call[c].write = "busy" => Ended(c))
  PROVE  CInv'
<1>1. /\ c \in Calls /\ Active(c) /\ ~Waits(c) /\ req[c].phase = "stream"
      /\ \A d \in Calls \ {c} : ~Runs(d)
  BY RunningFacts
<1>2. (\A d : Waits(d)' <=> Waits(d)) /\ (\A d : ~Runs(d)')
  BY DEF Waits, Runs
<1>3. Fcn(outcome', Calls)
  BY <1>1, OutcomeMoves
<1>4. Queue'
  <2>1. \A k \in DOMAIN queue : queue[k].call \in Calls
    BY DEF IInv, Tasks
  <2>2. \A d \in Calls : (OfText(d)' <=> OfText(d)) /\ Text(d)' = Text(d)
    BY SaidStays DEF Served
  <2>3. QED
    BY <1>3, <2>1, <2>2 DEF CInv, Queue, Served
<1>5. QED
  BY <1>1, <1>2, <1>4, TaskFinishes

LEMMA CommitsReadToken ==
  ASSUME IInv, IInv', CInv, ReadToken, UNCHANGED <<requestVars, clientVars, portalVars, http, remoteVars>>
  PROVE  CInv'
<1>1. running # NoTask /\ running.expect # "done"
  BY DEF ReadToken
<1>2. PICK c : c = running.call
  OBVIOUS
<1>3. /\ c \in Calls /\ Upload(c) /\ Runs(c) /\ Active(c) /\ ~Waits(c) /\ ~OfText(c)
      /\ (OfBatch(c) \/ OfData(c)) /\ req[c].phase = "stream" /\ IsTask(running) /\ RunOk(c)
      /\ \A d \in Calls \ {c} : ~Runs(d)
  BY <1>1, <1>2, RunningFacts
<1>4. Served /\ UNCHANGED <<req, reply, queue>>
  BY DEF ReadToken, Served, endpointVars, clientVars, requestVars, portalVars, remoteVars
<1>5. PICK token : token = Head(pipe[c].data)
  OBVIOUS
<1>6. PICK t : t = AfterToken(running, token)
  OBVIOUS
<1>7. pipe[c].data # <<>>
  BY <1>2 DEF ReadToken
<1>8. /\ IsPipe(pipe[c]) /\ Fcn(pipe, Calls) /\ Read(c) \in Nat /\ MeantOk(c) /\ AskOk(c)
      /\ WriterOk(c) /\ TaskOk(c) /\ LogOk(c) /\ ReplyOk(c) /\ ReadOk(c)
  BY <1>3, PipeFacts
<1>9. CASE /\ Aborted(c, "parse error") /\ running' = NoTask
           /\ pipe' = [pipe EXCEPT ![c].data = Tail(@), ![c].reader = FALSE]
  <2>1. Finishes(c, <<>>)
    <3>1. PICK error : error = "parse error"
      OBVIOUS
    <3>2. error \notin {"none", "ok"} /\ Aborted(c, error)
      BY <1>9, <3>1
    <3>3. QED
      BY ONLY <3>2 DEF Finishes
  <2>2. ~Committed(c, <<>>)
    <3>1. outcome'[c] # "ok"
      <4>1. PICK error : error = "parse error"
        OBVIOUS
      <4>2. error # "ok" /\ outcome' = [outcome EXCEPT ![c] = error]
        BY <1>9, <4>1 DEF Aborted
      <4>3. Fcn(outcome, Calls)
        BY QueueFacts DEF Queue
      <4>4. QED
        BY ONLY <1>3, <4>2, <4>3 DEF Fcn
    <3>2. QED
      BY <1>3, <2>1, <3>1, OutcomeMoves
  <2>3. pipe' = [pipe EXCEPT ![c].data = Tail(@), ![c].reader = FALSE] /\ running' = NoTask
    BY <1>9
  <2>4. /\ \A d \in Calls \ {c} : pipe'[d] = pipe[d]
        /\ pipe'[c].writer = pipe[c].writer /\ ~pipe'[c].reader
        /\ pipe'[c].data = Tail(pipe[c].data)
    BY ONLY <1>3, <1>8, <2>3 DEF IsPipe, Fcn
  <2>5. TokensFit(c)'
    BY <1>3, <1>4, <1>7, <2>4, TokenRead
  <2>6. QED
    BY ONLY <1>1, <1>2, <1>4, <2>1, <2>2, <2>3, <2>4, <2>5, IInv, IInv', CInv, StreamFinishes
<1>10. CASE running' = t /\ Consumed(c) /\ UNCHANGED <<log, outcome>>
  <2>1. /\ pipe'[c] = [pipe[c] EXCEPT !.data = Tail(@)]
        /\ \A d \in Calls \ {c} : pipe'[d] = pipe[d]
    BY <1>3, <1>10, PipeMoves DEF IInv
  <2>2. /\ pipe'[c].writer = pipe[c].writer /\ pipe'[c].reader = pipe[c].reader
        /\ pipe'[c].data = Tail(pipe[c].data)
    BY ONLY <1>8, <2>1 DEF IsPipe
  <2>3. /\ TokensFit(c)' /\ Read(c)' = Read(c) + 1 /\ Wanted(c, Read(c) + 1, token)
    BY <1>3, <1>4, <1>5, <1>7, <2>2, TokenRead
  <2>4. OfBatch(c) => ReadsAs(ask[c].ops, meant[c], Read(c) + 1, t)
    <3>1. SUFFICES ASSUME OfBatch(c) PROVE ReadsAs(ask[c].ops, meant[c], Read(c) + 1, t)
      OBVIOUS
    <3> DEFINE ops == ask[c].ops
    <3>2. /\ OpsOk(ops) /\ Len(ops) > 0 /\ ReadsAs(ops, meant[c], Read(c), running)
          /\ \A k \in DOMAIN ops :
               /\ meant[c][k] = [text |-> Plain(ops[k].text), args |-> meant[c][k].args]
               /\ ops[k].kind = "rdf" => meant[c][k].args = Loaded(ops[k].n)
      BY <1>3, <1>8, <3>1 DEF AskOk, MeantOk, RunOk, Reads
    <3>3. /\ Read(c) = 0 => token[2] = Len(ops)
          /\ \A k \in DOMAIN ops :
               Part(ops[k], meant[c][k].args, (Read(c) + 1) - Start(ops, k - 1), token)
      BY <2>3, <3>1 DEF Wanted
    <3> HIDE DEF ops
    <3>4. ReadsAs(ops, meant[c], Read(c) + 1, t)
      BY <1>1, <1>3, <1>6, <1>8, <3>2, <3>3, NextToken
    <3>5. QED
      BY <3>4 DEF ops
  <2>5. OfData(c) => t.expect = "rdf" /\ IsSeq(t.op) /\ Len(t.op) = Read(c) + 1
    <3>1. SUFFICES ASSUME OfData(c) PROVE t.expect = "rdf" /\ IsSeq(t.op) /\ Len(t.op) = Read(c) + 1
      OBVIOUS
    <3>2. running.expect = "rdf" /\ IsSeq(running.op) /\ Len(running.op) = Read(c)
      BY <1>3, <3>1 DEF RunOk
    <3>3. t = [running EXCEPT !.op = Append(@, token)]
      BY <1>6, <3>2 DEF AfterToken
    <3>4. t.expect = "rdf" /\ t.op = Append(running.op, token)
      BY ONLY <1>3, <3>2, <3>3 DEF IsTask
    <3>5. QED
      BY <3>2, <3>4, AppendSeq
  <2>6. t.call = c /\ t # NoTask
    <3>1. running.expect \in {"count", "op", "text", "params", "graph", "data", "rdf"}
      BY <1>1, <1>3 DEF RunOk, Reads, ReadsAs
    <3>2. t.call = c
      BY <1>2, <1>3, <1>6, <3>1, TokenCall
    <3>3. t.expect # "none"
      BY <1>3, <2>4, <2>5 DEF ReadsAs
    <3>4. QED
      BY <3>2, <3>3 DEF NoTask
  <2>7. /\ (Upload(c)' <=> Upload(c)) /\ (OfText(c)' <=> OfText(c)) /\ (OfData(c)' <=> OfData(c))
        /\ (OfBatch(c)' <=> OfBatch(c)) /\ Shortened(c)' = Shortened(c)
        /\ (Active(c)' <=> Active(c)) /\ (\A d : Entries(d)' = Entries(d))
    BY <1>4, <1>10, SaidStays DEF Served, Active, Entries
  <2>8. Runs(c)' /\ (\A d \in Calls \ {c} : ~Runs(d)') /\ \A d : Waits(d)' <=> Waits(d)
    BY <1>4, <1>10, <2>6 DEF Runs, Waits
  <2>9. \A d \in Calls \ {c} : StoreSpares(d)
    BY <1>3, <1>10, <2>7, <2>8 DEF StoreSpares, Entries
  <2>10. TaskOk(c)'
    BY ONLY <1>3, <1>4, <1>8, <1>10, <2>7, <2>8 DEF TaskOk
  <2>11. LogOk(c)' /\ ReplyOk(c)'
    BY <1>4, <1>8, <1>10, <2>7 DEF LogOk, ReplyOk, Partly, Served
  <2>12. RunOk(c)'
    <3>1. OfBatch(c) => Reads(c, t)'
      BY <1>4, <2>3, <2>4 DEF Reads, Served
    <3>2. QED
      BY <1>10, <2>3, <2>5, <2>7, <3>1 DEF RunOk
  <2>13. ReadOk(c)'
    BY <1>3, <1>4, <2>7, <2>8 DEF ReadOk
  <2>14. WriterOk(c)'
    BY <1>3, <1>4, <1>8, <1>10, <2>2, <2>7, WriterStays DEF WriterOk
  <2>15. Queue'
    BY <1>4, <1>10, QuietKeeps, QueueKept DEF Served, Settled
  <2>16. QED
    BY <1>3, <1>4, <2>1, <2>3, <2>9, <2>10, <2>11, <2>12, <2>13, <2>14, <2>15, ServedUpload
<1>11. QED
  <2>1. \/ /\ Aborted(c, "parse error") /\ running' = NoTask
           /\ pipe' = [pipe EXCEPT ![c].data = Tail(@), ![c].reader = FALSE]
        \/ running' = t /\ Consumed(c) /\ UNCHANGED <<log, outcome>>
    BY ONLY ReadToken, <1>2, <1>5, <1>6 DEF ReadToken
  <2>2. QED
    BY ONLY <1>9, <1>10, <2>1

LEMMA CommitsReadEnd ==
  ASSUME IInv, IInv', CInv, ReadEnd, UNCHANGED <<requestVars, clientVars, portalVars, http, remoteVars>>
  PROVE  CInv'
<1>1. running # NoTask /\ running.expect # "done" /\ running' = NoTask
  BY DEF ReadEnd
<1>2. PICK c : c = running.call
  OBVIOUS
<1>3. /\ c \in Calls /\ Upload(c) /\ Active(c) /\ Runs(c) /\ ~OfText(c)
      /\ (OfBatch(c) \/ OfData(c)) /\ RunOk(c)
  BY <1>1, <1>2, RunningFacts
<1>4. Served /\ UNCHANGED <<req, reply, queue>>
  BY DEF ReadEnd, Served, endpointVars, clientVars, requestVars, portalVars, remoteVars
<1>5. pipe[c].data = <<>> /\ ~pipe[c].writer /\ ReaderClosed(c)
  BY <1>2 DEF ReadEnd, EndOfStream
<1>6. /\ IsPipe(pipe[c]) /\ Read(c) \in Nat /\ MeantOk(c) /\ AskOk(c) /\ WriterOk(c)
      /\ TokensFit(c) /\ call[c].pos \in Nat \ {0}
  BY <1>3, PipeFacts
<1>7. /\ pipe'[c] = [pipe[c] EXCEPT !.reader = FALSE]
      /\ \A d \in Calls \ {c} : pipe'[d] = pipe[d]
  BY <1>3, <1>5, PipeMoves DEF IInv
<1>8. /\ pipe'[c].writer = pipe[c].writer /\ ~pipe'[c].reader /\ pipe'[c].data = pipe[c].data
  BY ONLY <1>6, <1>7 DEF IsPipe
<1>9. TokensFit(c)'
  BY <1>3, <1>4, <1>8, TokensStay
<1>10. PICK k : k = Len(running.op)
  OBVIOUS
<1>11. PICK ops : ops = <<[text |-> Plain("rdf"), args |-> {<<"loaded", k>>}]>>
  OBVIOUS
<1>12. Finishes(c, ops)
  <2>1. PICK error : error = "stream ended"
    OBVIOUS
  <2>2. error \notin {"none", "ok"}
    BY <2>1
  <2>3. Committed(c, ops) \/ Aborted(c, error)
    BY ONLY ReadEnd, <1>2, <1>10, <1>11, <2>1 DEF ReadEnd
  <2>4. QED
    BY ONLY <2>2, <2>3 DEF Finishes
<1>13. call[c].write # "busy"
  BY <1>5, <1>6 DEF WriterOk
<1>14. Committed(c, ops) => ops = meant[c] \/ Partly(c, ops)
  <2>1. SUFFICES ASSUME Committed(c, ops) PROVE ops = meant[c] \/ Partly(c, ops)
    OBVIOUS
  <2>2. running.expect = "rdf"
    <3>1. PICK error : error = "stream ended"
      OBVIOUS
    <3>2. running.expect # "rdf" => Aborted(c, error)
      BY ONLY ReadEnd, <1>2, <3>1 DEF ReadEnd
    <3>3. error # "ok"
      BY <3>1
    <3>4. outcome'[c] = "ok"
      BY <1>3, <1>12, <2>1, OutcomeMoves
    <3>5. Aborted(c, error) => outcome'[c] = error
      <4>1. Fcn(outcome, Calls)
        BY QueueFacts DEF Queue
      <4>2. QED
        BY ONLY <1>3, <4>1 DEF Fcn, Aborted
    <3>6. QED
      BY ONLY <3>2, <3>3, <3>4, <3>5
  <2>3. OfData(c)
    BY <1>3, <2>2 DEF RunOk, Reads, ReadsAs
  <2>4. k = Read(c)
    BY <1>3, <1>10, <2>3 DEF RunOk
  <2>5. Len(Pieces(c)) = ask[c].n /\ ask[c].n \in Nat
    BY <1>3, <1>6, <2>3, UploadFacts, PiecesOf DEF OfData, AskOk
  <2>6. Read(c) = call[c].pos - 1
    <3>1. Len(pipe[c].data) = 0
      BY <1>5
    <3>2. QED
      BY ONLY <1>6, <3>1 DEF Read
  <2>7. k \in 0..ask[c].n
    BY <1>6, <2>4, <2>5, <2>6 DEF TokensFit
  <2>8. meant[c] = <<[text |-> Plain("rdf"), args |-> {<<"loaded", ask[c].n>>}]>>
    BY <1>6, <2>3 DEF MeantOk, Loaded
  <2>9. CASE disturbed = {}
    <3>1. pipe[c].reader
      BY <1>3, <1>6 DEF WriterOk
    <3>2. call[c].pos > Len(Pieces(c))
      BY <1>5, <1>6, <2>9, <3>1 DEF WriterOk, Ended
    <3>3. k = ask[c].n
      BY <1>6, <2>4, <2>5, <2>6, <2>7, <3>2
    <3>4. QED
      BY <1>11, <2>8, <3>3
  <2>10. CASE disturbed # {}
    <3> DEFINE loads == {<<"loaded", k>>}
    <3>1. PICK p : p = Plain("rdf")
      OBVIOUS
    <3>2. PICK whole : whole = {<<"loaded", ask[c].n>>}
      OBVIOUS
    <3>3. meant[c][1] = [text |-> p, args |-> whole]
      <4>1. meant[c] = <<[text |-> p, args |-> whole]>>
        BY <2>8, <3>1, <3>2
      <4>2. \A x : <<x>>[1] = x
        OBVIOUS
      <4>3. QED
        BY ONLY <4>1, <4>2
    <3> HIDE DEF loads
    <3>4. [meant[c][1] EXCEPT !.args = loads] = [text |-> p, args |-> loads]
      BY ONLY <3>3
    <3>5. ops = <<[text |-> p, args |-> loads]>>
      BY ONLY <1>11, <3>1 DEF loads
    <3>6. ops \in Shortened(c)
      <4>1. <<[meant[c][1] EXCEPT !.args = loads]>> \in Shortened(c)
        BY ONLY <2>7 DEF Shortened, loads
      <4>2. QED
        BY ONLY <3>4, <3>5, <4>1
    <3>7. QED
      BY ONLY <2>3, <2>10, <3>6 DEF Partly
  <2>11. QED
    BY <2>9, <2>10
<1>15. QED
  BY ONLY <1>1, <1>2, <1>4, <1>7, <1>8, <1>9, <1>12, <1>13, <1>14, IInv, IInv', CInv, StreamFinishes

(* A batch that was read completely is committed.                             *)
LEMMA CommitsCommitBatch ==
  ASSUME IInv, IInv', CInv, CommitBatch,
         UNCHANGED <<requestVars, clientVars, portalVars, http, remoteVars>>
  PROVE  CInv'
<1>1. running # NoTask /\ running.expect = "done" /\ running' = NoTask
  BY DEF CommitBatch
<1>2. PICK c : c = running.call
  OBVIOUS
<1>3. /\ c \in Calls /\ Upload(c) /\ Active(c) /\ Runs(c) /\ ~OfText(c)
      /\ (OfBatch(c) \/ OfData(c)) /\ RunOk(c)
  BY <1>1, <1>2, RunningFacts
<1>4. Served /\ UNCHANGED <<req, reply, queue>>
  BY DEF CommitBatch, Served, endpointVars, clientVars, requestVars, portalVars, remoteVars
<1>5. ReaderClosed(c) /\ Committed(c, running.ops)
  BY <1>2 DEF CommitBatch
<1>6. /\ IsPipe(pipe[c]) /\ Read(c) \in Nat /\ MeantOk(c) /\ AskOk(c)
      /\ TokensFit(c) /\ call[c].pos \in Nat \ {0} /\ Len(pipe[c].data) \in Nat
  BY <1>3, PipeFacts
<1>7. /\ pipe'[c] = [pipe[c] EXCEPT !.reader = FALSE]
      /\ \A d \in Calls \ {c} : pipe'[d] = pipe[d]
  BY <1>3, <1>5, PipeMoves DEF IInv
<1>8. /\ pipe'[c].writer = pipe[c].writer /\ ~pipe'[c].reader /\ pipe'[c].data = pipe[c].data
  BY ONLY <1>6, <1>7 DEF IsPipe
<1>9. TokensFit(c)'
  BY <1>3, <1>4, <1>8, TokensStay
<1>10. OfBatch(c)
  BY <1>1, <1>3 DEF RunOk
<1> DEFINE ops == ask[c].ops
<1>11. /\ IsSeq(running.ops) /\ Len(running.ops) = Len(ops)
       /\ \A i \in 1..Len(ops) : running.ops[i] = meant[c][i]
       /\ Read(c) = Start(ops, Len(ops))
  <2>1. ReadsAs(ops, meant[c], Read(c), running)
    BY <1>3, <1>10 DEF RunOk, Reads
  <2>2. Start(ops, Len(ops)) \in Nat
    <3>1. Len(ops) \in 0..Len(ops)
      BY <1>6, StartOf DEF AskOk
    <3>2. QED
      BY <1>6, <3>1, StartOf DEF AskOk
  <2>3. IsSeq(running.ops) /\ Len(running.ops) = Len(ops) /\ Read(c) - Start(ops, Len(ops)) = 0
        /\ \A i \in 1..Len(ops) : running.ops[i] = meant[c][i]
    BY <1>1, <2>1 DEF ReadsAs
  <2>4. QED
    BY ONLY <1>6, <2>2, <2>3
<1>12. running.ops = meant[c]
  <2>1. IsSeq(meant[c]) /\ Len(meant[c]) = Len(ops)
    BY <1>6, <1>10 DEF MeantOk
  <2>2. \A s : IsSeq(s) => s = [i \in 1..Len(s) |-> s[i]]
    BY DEF IsSeq
  <2>3. QED
    BY ONLY <1>11, <2>1, <2>2
<1>13. Ended(c)
  <2>1. Len(Pieces(c)) = Start(ops, Len(ops)) /\ Len(Pieces(c)) \in Nat
    BY <1>3, <1>6, <1>10, UploadFacts, PiecesOf DEF OfBatch
  <2>2. QED
    BY ONLY <1>6, <1>11, <2>1 DEF Read, Ended
<1>14. Finishes(c, running.ops)
  BY <1>5 DEF Finishes
<1>15. QED
  BY ONLY <1>1, <1>2, <1>4, <1>7, <1>8, <1>9, <1>12, <1>13, <1>14, IInv, IInv', CInv, StreamFinishes

(* ---- Steps that take a message                                             *)

(* Nothing was done yet for a call whose message waits.                       *)
LEMMA MessageWaits ==
  ASSUME IInv, CInv, NEW site \in Sites, NEW c, mail[site] # << >>, c = Head(mail[site])
  PROVE  /\ c \in Calls /\ Sent(c) /\ SiteOf(c) = site
         /\ req[c].phase = "none" /\ reply[c] = "none"
         /\ Upload(c) => Active(c) /\ ~Waits(c) /\ ~Runs(c) /\ Read(c) = 0
<1>1. 1 \in DOMAIN mail[site] /\ mail[site][1] = c /\ c \in Calls
  BY DEF IInv, Shape, MailShape
<1>2. Sent(c) /\ SiteOf(c) = site /\ req[c].phase = "none" /\ reply[c] = "none"
  BY <1>1 DEF IInv, Mails
<1>3. TaskOk(c)
  BY <1>1 DEF CInv, CommitInv
<1>4. Upload(c) => Active(c) /\ ~Waits(c) /\ ~Runs(c)
  BY ONLY <1>2, <1>3 DEF TaskOk, Active
<1>5. Upload(c) => Read(c) = 0
  BY <1>1, <1>2, <1>4 DEF CInv, CommitInv, UploadOk, ReadOk
<1>6. QED
  BY ONLY <1>1, <1>2, <1>4, <1>5

LEMMA CommitsRefused ==
  ASSUME IInv, IInv', CInv, NEW site \in Sites, NEW c \in Calls, Handles(site, c), MessageFrame,
         UNCHANGED outcome, UNCHANGED endpointVars,
         NEW error, error \notin {"none", "ok"}, Refused(c, error)
  PROVE  CInv'
<1>1. Served /\ UNCHANGED storeVars
  BY DEF Handles, MessageFrame, Refused, Served, storeVars, clientVars, remoteVars, portalVars
<1>2. /\ req[c].phase = "none" /\ reply[c] = "none"
      /\ Upload(c) => Active(c) /\ ~Waits(c) /\ ~Runs(c)
  BY MessageWaits DEF Handles
<1>3. UNCHANGED req /\ Answered(c, error) /\ ServiceEndClosed(c)
  BY DEF Refused
<1>4. CASE Upload(c)
  <2>1. ReaderClosed(c)
    BY <1>3, <1>4 DEF ServiceEndClosed, ReaderClosed, Upload
  <2>2. outcome[c] = "none" /\ (error = "ok" => outcome[c] = "ok")
    BY <1>2, <1>4 DEF Active
  <2>3. QED
    BY <1>1, <1>2, <1>3, <1>4, <2>1, <2>2, AnswersUpload
<1>5. CASE ~Upload(c)
  <2>1. WriterClosed(c)
    BY <1>3, <1>5 DEF ServiceEndClosed, WriterClosed, Upload
  <2>2. \A d \in Calls \ {c} : reply'[d] = reply[d]
    BY <1>3, ReplyMoves DEF IInv
  <2>3. PipeOf(c)
    BY <2>1 DEF PipeOf
  <2>4. QED
    BY <1>1, <1>3, <1>5, <2>2, <2>3, RowStep DEF Served
<1>6. QED
  BY <1>4, <1>5

LEMMA CommitsQueryBegun ==
  ASSUME IInv, IInv', CInv, NEW site \in Sites, NEW c \in Calls, Handles(site, c), MessageFrame,
         UNCHANGED outcome, Download(c),
         NEW r, r.host = sent[c].path, IsRequest(r), req' = [req EXCEPT ![c] = r],
         UNCHANGED <<reply, pipe, queue>>
  PROVE  CInv'
<1>1. Served /\ UNCHANGED storeVars
  BY DEF Handles, MessageFrame, Served, storeVars, clientVars, remoteVars, portalVars
<1>2. req'[c] = r /\ \A d \in Calls \ {c} : req'[d] = req[d]
  BY ReqMoves DEF IInv
<1>3. ~Upload(c) /\ PipeOf(c)
  BY DEF Upload, Uploads, Download, Downloads, PipeOf
<1>4. QED
  BY <1>1, <1>2, <1>3, RowStep DEF Served

(* An update is read by a thread of the endpoint, or by the store.            *)
LEMMA CommitsUpdateBegun ==
  ASSUME IInv, IInv', CInv, NEW site \in Sites, NEW c \in Calls, Handles(site, c), MessageFrame,
         UNCHANGED outcome, Upload(c), sent[c].path = "service", BeginUpdate("service", c)
  PROVE  CInv'
<1>1. Served /\ UNCHANGED <<running, log, outcome, reply, pipe>>
  BY DEF Handles, MessageFrame, Served, BeginUpdate, clientVars, remoteVars, portalVars
<1>2. /\ req[c].phase = "none" /\ reply[c] = "none"
      /\ Active(c) /\ ~Waits(c) /\ ~Runs(c) /\ Read(c) = 0 /\ outcome[c] = "none"
  BY MessageWaits DEF Handles, Active
<1>3. PICK phase : /\ phase = (IF OfText(c) THEN "op" ELSE "stream")
                   /\ NewUpdate("service", c, phase)
                   /\ OfText(c) => UNCHANGED queue
                   /\ ~OfText(c) => Queued([call |-> c, kind |-> sent[c].method, text |-> NoText])
  BY DEF BeginUpdate, OfText
<1>4. PICK r : r = [NoRequest EXCEPT !.phase = phase, !.host = "service"]
  OBVIOUS
<1>5. r.phase = phase /\ r.host = "service" /\ IsRequest(r)
  BY ONLY <1>4 DEF NoRequest, IsRequest
<1>6. req'[c] = r /\ \A d \in Calls \ {c} : req'[d] = req[d]
  <2>1. req' = [req EXCEPT ![c] = r]
    BY <1>3, <1>4 DEF NewUpdate
  <2>2. QED
    BY <1>5, <2>1, ReqMoves DEF IInv
<1>7. Queue' /\ (Waits(c)' <=> ~OfText(c)) /\ \A d \in Calls \ {c} : StoreSpares(d)
  <2>1. CASE OfText(c)
    <3>1. UNCHANGED storeVars /\ ~Waits(c)'
      BY <1>1, <1>2, <1>3, <2>1 DEF storeVars, Waits
    <3>2. Queue'
      BY <1>1, <3>1, QuietKeeps, QueueKept DEF Served, Settled, storeVars
    <3>3. QED
      BY <2>1, <3>1, <3>2, StoreKept
  <2>2. CASE ~OfText(c)
    BY <1>1, <1>2, <1>3, <2>2, TaskQueued
  <2>3. QED
    BY <2>1, <2>2
<1>8. /\ (Upload(c)' <=> Upload(c)) /\ (OfText(c)' <=> OfText(c)) /\ (OfData(c)' <=> OfData(c))
      /\ Shortened(c)' = Shortened(c)
  BY <1>1, SaidStays DEF Served
<1>9. (Runs(c)' <=> Runs(c)) /\ Entries(c)' = Entries(c) /\ (Active(c)' <=> Active(c))
  BY <1>1, <1>8 DEF Runs, Entries, Active
<1>10. TokensFit(c)' /\ Read(c)' = 0
  BY <1>1, <1>2, TokensStay
<1>11. /\ TaskOk(c) /\ LogOk(c) /\ ReplyOk(c) /\ WriterOk(c)
  BY PipeFacts DEF CInv, CommitInv
<1>12. TaskOk(c)'
  BY <1>1, <1>2, <1>3, <1>5, <1>6, <1>7, <1>8, <1>9 DEF TaskOk, UploadPhases
<1>13. LogOk(c)' /\ ReplyOk(c)'
  BY <1>1, <1>8, <1>9, <1>11 DEF LogOk, ReplyOk, Partly, Served
<1>14. RunOk(c)' /\ ReadOk(c)'
  BY <1>2, <1>3, <1>5, <1>6, <1>7, <1>8, <1>9, <1>10 DEF RunOk, ReadOk
<1>15. WriterOk(c)'
  BY <1>1, <1>9, <1>11, WriterStays DEF WriterOk
<1>16. QED
  BY <1>1, <1>5, <1>6, <1>7, <1>10, <1>12, <1>13, <1>14, <1>15, ServedUpload

(* A session serves no updates: it refuses them.                              *)
LEMMA CommitsMethodCall ==
  ASSUME IInv, IInv', CInv, NEW site \in Sites, NEW h \in Hosts, NEW c, NEW blocked, NEW compiled,
         h = sent[c].path, h = "service" \/ h \in Opened,
         MethodCall(site, h, c, blocked, compiled, "executing"), MessageFrame
  PROVE  CInv'
<1>1. /\ c \in Calls /\ Handles(site, c) /\ UNCHANGED outcome
      /\ \/ /\ \E error : error \notin {"none", "ok"} /\ Refused(c, error)
            /\ UNCHANGED endpointVars
         \/ /\ Download(c)
            /\ \E text :
                 /\ text = Rewritten(h, sent[c].text)
                 /\ SelectAndBind(h, text, sent[c].args)
                 /\ req' = [req EXCEPT ![c] = [NoRequest EXCEPT !.phase = "executing",
                              !.host = h, !.text = text, !.args = bindings'[h][text]]]
            /\ UNCHANGED <<reply, pipe, queue>>
         \/ sent[c].method \in Uploads /\ BeginUpdate(h, c)
  <2>1. UNCHANGED outcome
    BY DEF MethodCall
  <2>2. QED
    BY <2>1, MethodCallFrame DEF Handles
<1>2. ASSUME \E error : error \notin {"none", "ok"} /\ Refused(c, error), UNCHANGED endpointVars
      PROVE  CInv'
  BY <1>1, <1>2, CommitsRefused
<1>3. ASSUME Download(c), NEW text,
             req' = [req EXCEPT ![c] = [NoRequest EXCEPT !.phase = "executing",
                              !.host = h, !.text = text, !.args = bindings'[h][text]]],
             UNCHANGED <<reply, pipe, queue>>
      PROVE  CInv'
  <2>1. PICK args : args = bindings'[h][text]
    OBVIOUS
  <2>2. PICK r : r = [NoRequest EXCEPT !.phase = "executing", !.host = h, !.text = text, !.args = args]
    OBVIOUS
  <2>3. r.host = h /\ IsRequest(r)
    BY ONLY <2>2 DEF NoRequest, IsRequest
  <2>4. req' = [req EXCEPT ![c] = r]
    BY <1>3, <2>1, <2>2
  <2>5. QED
    BY <1>1, <1>3, <2>3, <2>4, CommitsQueryBegun
<1>4. ASSUME sent[c].method \in Uploads, BeginUpdate(h, c), ~Refused(c, Rejection(h, c, blocked))
      PROVE  CInv'
  <2>1. Rejection(h, c, blocked) = "none"
    BY <1>4, Zenon DEF MethodCall
  <2>2. ~policy[h].readonly
    BY <1>4, <2>1 DEF Rejection
  <2>3. h = "service"
    BY <2>2 DEF CInv, ReadonlySessions
  <2>4. QED
    BY <1>1, <1>4, <2>3, CommitsUpdateBegun DEF Upload
<1>5. ASSUME Refused(c, Rejection(h, c, blocked)), BeginUpdate(h, c), c \in Calls, Handles(site, c),
             sent[c].method \in Uploads
      PROVE  FALSE
  <2>1. reply[c] = "none" /\ req[c].phase = "none"
    BY <1>5, MessageWaits DEF Handles
  <2>2. req' = req
    BY <1>5 DEF Refused
  <2>3. \E phase \in {"op", "stream"} : NewUpdate(h, c, phase)
    BY <1>5 DEF BeginUpdate
  <2>4. PICK phase \in {"op", "stream"} : req' = [req EXCEPT ![c] = [NoRequest EXCEPT !.phase = phase, !.host = h]]
    BY <2>3 DEF NewUpdate
  <2>5. PICK r : r = [NoRequest EXCEPT !.phase = phase, !.host = h]
    OBVIOUS
  <2>6. r.phase = phase /\ IsRequest(r)
    BY ONLY <2>5 DEF NoRequest, IsRequest
  <2>7. req'[c] = r
    BY <1>5, <2>4, <2>5, <2>6, ReqMoves DEF IInv
  <2>8. QED
    BY <2>1, <2>2, <2>6, <2>7
<1>6. QED
  BY <1>1, <1>2, <1>3, <1>4, <1>5

LEMMA CommitsMessage ==
  ASSUME IInv, IInv', CInv, NEW c \in Calls,
         \/ ServiceMethodCall(c)
         \/ SessionMethodCall(c) /\ UNCHANGED <<http, remoteVars>>
  PROVE  CInv'
<1>1. {"service", "portal"} \subseteq Sites /\ "service" \in Hosts /\ Opened \subseteq Hosts
  BY SitesAssumption, OpenedPaths DEF IInv, Shape
<1>2. CASE ServiceMethodCall(c)
  <2>1. PICK compiled : compiled = Compiles(sent[c].text)
    OBVIOUS
  <2>2. MethodCall("service", "service", c, FALSE, compiled, "executing") /\ MessageFrame
        /\ sent[c].path = "service"
    BY <1>2, <2>1 DEF ServiceMethodCall, MessageFrame, ToService
  <2>3. QED
    BY <1>1, <2>2, CommitsMethodCall
<1>3. CASE SessionMethodCall(c) /\ UNCHANGED <<http, remoteVars>>
  <2>1. PICK h, blocked : h = sent[c].path /\ blocked = BlockCall(h, c)
    OBVIOUS
  <2>2. MethodCall("portal", h, c, blocked, TRUE, "executing") /\ MessageFrame /\ h \in Opened
    BY <1>3, <2>1 DEF SessionMethodCall, MessageFrame, InSession
  <2>3. QED
    BY <1>1, <2>1, <2>2, CommitsMethodCall
<1>4. QED
  BY <1>2, <1>3

(* ---- Steps that make a call                                                *)

LEMMA QueueSaid ==
  ASSUME IInv, CInv, Settled, queue' = queue, outcome' = outcome,
         \A d \in Calls : Upload(d) => sent'[d] = sent[d] /\ ask'[d] = ask[d]
  PROVE  Queue'
<1>1. \A k \in DOMAIN queue : queue[k].call \in Calls /\ Upload(queue[k].call)
  BY DEF IInv, Tasks, Upload
<1>2. \A d \in Calls : Upload(d) => (OfText(d)' <=> OfText(d)) /\ Text(d)' = Text(d)
  BY DEF OfText, Text, Rewritten, Settled
<1>3. QED
  BY <1>1, <1>2 DEF CInv, Queue

LEMMA UnsentCall ==
  ASSUME IInv, CInv, NEW i \in Calls, ~Sent(i)
  PROVE  /\ ~Upload(i) /\ ~Waits(i) /\ ~Runs(i) /\ outcome[i] = "none" /\ reply[i] = "none"
         /\ req[i].phase = "none" /\ req[i].host = "none" /\ Entries(i) = {}
<1>1. ~Upload(i)
  BY DEF Upload, Uploads, Sent
<1>2. SaysOf(i) /\ TaskOk(i) /\ LogOk(i) /\ HostOk(i)
  BY DEF IInv, CallInv, CInv, CommitInv
<1>3. sent[i].path = "none" /\ req[i].phase = "none" /\ reply[i] = "none"
  BY <1>2 DEF SaysOf, NoMessage
<1>4. QED
  BY <1>1, <1>2, <1>3 DEF TaskOk, LogOk, HostOk, Active

(* What the step of a call that is made leaves to the others.                 *)
Opens(i) ==
  /\ UNCHANGED storeVars /\ UNCHANGED <<req, policy, rebinds, disturbed, sessions, arguments>>
  /\ \A d \in Calls \ {i} :
       /\ sent'[d] = sent[d] /\ ask'[d] = ask[d] /\ meant'[d] = meant[d]
       /\ pipe'[d] = pipe[d] /\ reply'[d] = reply[d] /\ call'[d] = call[d]
  /\ Asked' = Asked /\ (i \in Asked => ask'[i] = ask[i])
  /\ Fcn(meant', Calls) /\ reply'[i] # "ok"

LEMMA MadeStep ==
  ASSUME IInv, IInv', CInv, NEW i \in Calls, ~Sent(i), Opens(i),
         AskOk(i)', UnsentOk(i)', UploadOk(i)'
  PROVE  CInv'
<1>1. Settled /\ ReadonlySessions'
  BY DEF CInv, ReadonlySessions, Settled, Opens, Opened
<1>2. RebindsOk'
  <2>1. \A d \in Asked : ask'[d] = ask[d]
    BY DEF Opens, Asked
  <2>2. QED
    BY <2>1 DEF CInv, RebindsOk, Uses, Opens
<1>3. /\ ~Upload(i) /\ ~Waits(i) /\ ~Runs(i) /\ outcome[i] = "none" /\ reply[i] = "none"
      /\ req[i].phase = "none" /\ req[i].host = "none" /\ Entries(i) = {}
  BY UnsentCall
<1>4. Queue'
  <2>1. \A d \in Calls : Upload(d) => sent'[d] = sent[d] /\ ask'[d] = ask[d]
    BY <1>3 DEF Opens
  <2>2. QED
    BY <1>1, <2>1, QueueSaid DEF Opens, storeVars
<1>5. ASSUME NEW d \in Calls, d # i PROVE CommitInv(d)'
  <2>1. Spares(d)
    BY <1>5 DEF Spares, Opens
  <2>2. CommitInv(d) /\ RequestOf(d)' /\ StoreSpares(d)
    BY StoreKept DEF IInv, CallInv, CInv, Opens
  <2>3. QED
    BY <1>1, <2>1, <2>2, SparedCall
<1>6. /\ req'[i] = req[i] /\ ~Waits(i)' /\ ~Runs(i)' /\ outcome'[i] = "none" /\ Entries(i)' = {}
      /\ reply'[i] # "ok"
  BY <1>3 DEF Opens, storeVars, Waits, Runs, Entries
<1>7. TaskOk(i)' /\ LogOk(i)' /\ ReplyOk(i)' /\ HostOk(i)'
  BY <1>3, <1>6 DEF TaskOk, LogOk, ReplyOk, HostOk, UploadPhases
<1>8. CommitInv(i)'
  BY <1>7 DEF CommitInv
<1>9. QED
  BY <1>1, <1>2, <1>4, <1>5, <1>8 DEF CInv

(* The portal makes the inner call of a call of a session.                    *)
LEMMA CommitsSessionForwards ==
  ASSUME IInv, IInv', CInv, NEW c \in Calls, SessionForwards(c), UNCHANGED <<http, remoteVars>>
  PROVE  CInv'
<1>1. /\ Shape /\ Links /\ LinkShape /\ RequestOf(c)
      /\ \A d \in Calls : SaysOf(d)
  BY DEF IInv, CallInv, Shape
<1>2. PICK i : i = Inner[c]
  OBVIOUS
<1>3. /\ InSession(c) /\ req[c].phase = "executing" /\ call[i].phase = "idle"
      /\ UNCHANGED storeVars
      /\ UNCHANGED <<req, policy, rebinds, disturbed, sessions, arguments, meant>>
  BY <1>2 DEF SessionForwards, At, endpointVars, requestVars, portalVars, remoteVars
<1>4. "none" \notin Opened /\ "service" \notin Opened
  BY <1>1, OpenedPaths
<1>5. i \in Calls \ Asked /\ Download(c)
  BY <1>1, <1>2, <1>3, <1>4, InnerOf DEF RequestOf, RowPhases
<1>6. ~Sent(i) /\ reply[i] = "none"
  BY <1>1, <1>3, <1>5 DEF SaysOf
<1>7. PICK m : m = [method |-> sent[c].method, path |-> "service", text |-> req[c].text,
                    args |-> req[c].args]
  OBVIOUS
<1>8. m.method \in Downloads
  BY <1>5, <1>7 DEF Download
<1>9. PICK a : a = [NoAsk EXCEPT !.client = "portal", !.method = sent[c].method]
  OBVIOUS
<1>10. a.client = "portal" /\ a.n = 0 /\ a.ops = << >>
  BY ONLY <1>9 DEF NoAsk
<1>11. /\ ask' = [ask EXCEPT ![i] = a] /\ SendCall(i, "service", m)
       /\ call' = [call EXCEPT ![i].phase = "running", ![i].cancelled = req[c].cancelled]
  BY ONLY <1>2, <1>7, <1>9, SessionForwards(c) DEF SessionForwards
<1>12. /\ call'[i].phase = "running" /\ \A d \in Calls \ {i} : call'[d] = call[d]
  <2>1. Fcn(call, Calls) /\ IsCall(call[i]) /\ i \in Calls
    BY <1>1, <1>5, Shapes
  <2>2. QED
    BY ONLY <1>11, <2>1 DEF Fcn, IsCall
<1>13. ask'[i] = a /\ \A d \in Calls \ {i} : ask'[d] = ask[d]
  <2>1. Fcn(ask, Calls) /\ i \in Calls
    BY <1>1, <1>5, Shapes
  <2>2. QED
    BY ONLY <1>11, <2>1 DEF Fcn
<1>14. /\ sent'[i] = m /\ reply'[i] # "ok"
       /\ \A d \in Calls \ {i} : sent'[d] = sent[d] /\ pipe'[d] = pipe[d] /\ reply'[d] = reply[d]
  <2>1. Fcn(sent, Calls) /\ Fcn(pipe, Calls) /\ Fcn(reply, Calls) /\ i \in Calls
    BY <1>1, <1>5, Shapes
  <2>2. PICK p : pipe' = [pipe EXCEPT ![i] = p]
    BY <1>11 DEF SendCall
  <2>3. PICK answer : answer = "unknown service"
    OBVIOUS
  <2>4. answer # "ok"
    BY <2>3
  <2>5. sent' = [sent EXCEPT ![i] = m]
        /\ reply' = [reply EXCEPT ![i] = IF "service" \in up THEN @ ELSE answer]
    BY <1>11, <2>3 DEF SendCall
  <2>6. QED
    BY ONLY <1>6, <2>1, <2>2, <2>4, <2>5 DEF Fcn
<1>15. Asked' = Asked
  BY <1>5, <1>10, <1>13, JobsAssumption DEF Asked
<1>16. Opens(i)
  BY <1>3, <1>5, <1>12, <1>13, <1>14, <1>15 DEF Opens, CInv, RebindsOk
<1>17. AskOk(i)' /\ UnsentOk(i)' /\ UploadOk(i)'
  <2>1. AskOk(i)'
    <3>1. IsSeq(<< >>) /\ DOMAIN << >> = {}
      BY NothingSeq
    <3>2. QED
      BY <1>10, <1>13, <3>1 DEF AskOk, OpsOk
  <2>2. sent'[i].method \notin Uploads /\ sent'[i].method # "none"
    BY <1>8, <1>14 DEF Uploads, Downloads
  <2>3. QED
    BY <1>12, <2>1, <2>2 DEF UnsentOk, UploadOk, Upload, Sent
<1>18. QED
  BY <1>5, <1>6, <1>16, <1>17, MadeStep

(* What an upload means when it is made.                                      *)
LEMMA MeantNow ==
  ASSUME IInv, CInv, NEW c \in Calls, UNCHANGED <<ask, policy, arguments>>,
         sent'[c].method = ask[c].method, meant'[c] = Meant(ask[c]),
         ask[c].method = "array" => ask[c].ops # << >>
  PROVE  MeantOk(c)' /\ ValuesOk(c)'
<1> DEFINE ops == ask[c].ops
<1>1. OpsOk(ops) /\ IsSeq(ops) /\ Len(ops) \in Nat /\ DOMAIN ops = 1..Len(ops)
  BY SeqFacts DEF CInv, CommitInv, AskOk, OpsOk
<1>2. /\ OfText(c)' <=> ask[c].method \in {"update", "blank"}
      /\ OfBatch(c)' <=> ask[c].method = "array"
      /\ OfData(c)' <=> ask[c].method = "deserialize"
      /\ Text(c)' = Rewritten("service", Plain(ask[c].text))
  BY DEF OfText, OfBatch, OfData, Text, Rewritten
<1>3. OfText(c)' => meant'[c] = << [text |-> Text(c)', args |-> {}] >>
  <2>1. PICK text : text = Rewritten("service", Plain(ask[c].text))
    OBVIOUS
  <2>2. ask[c].method \in {"update", "blank"} => Meant(ask[c]) = << [text |-> text, args |-> {}] >>
    BY <2>1 DEF Meant
  <2>3. QED
    BY <1>2, <2>1, <2>2
<1>4. OfData(c)' => meant'[c] = << [text |-> Plain("rdf"), args |-> Loaded(ask[c].n)] >>
  BY <1>2 DEF Meant, Loaded
<1>5. ASSUME OfBatch(c)'
      PROVE  /\ IsSeq(meant'[c]) /\ Len(meant'[c]) = Len(ops) /\ Len(ops) > 0
             /\ \A k \in DOMAIN ops : meant'[c][k] = OpMeant(ops[k])
  <2> DEFINE f == [k \in 1..Len(ops) |-> OpMeant(ops[k])]
             S == {f[k] : k \in 1..Len(ops)}
  <2>1. meant'[c] = f
    BY <1>1, <1>2, <1>5 DEF Meant
  <2>2. f \in [1..Len(ops) -> S] /\ \A k \in 1..Len(ops) : f[k] = OpMeant(ops[k])
    OBVIOUS
  <2> HIDE DEF f, S
  <2>3. f \in Seq(S) /\ Len(f) = Len(ops)
    BY <1>1, <2>2
  <2>4. IsSeq(f)
    BY <2>3, SeqIs
  <2>5. Len(ops) > 0
    <3>1. ops # << >>
      BY <1>2, <1>5
    <3>2. QED
      BY <1>1, <3>1, TailSeq
  <2>6. QED
    BY <1>1, <2>1, <2>2, <2>3, <2>4, <2>5
<1>6. MeantOk(c)'
  <2>1. ASSUME OfBatch(c)', NEW k \in DOMAIN ops
        PROVE  /\ meant'[c][k] = [text |-> Plain(ops[k].text), args |-> meant'[c][k].args]
               /\ ops[k].kind = "rdf" => meant'[c][k].args = Loaded(ops[k].n)
    <3>1. meant'[c][k] = OpMeant(ops[k])
      BY <1>5, <2>1
    <3>2. QED
      BY ONLY <3>1 DEF OpMeant, Loaded
  <2>2. OfBatch(c)' => /\ Len(ops) > 0 /\ IsSeq(meant'[c]) /\ Len(meant'[c]) = Len(ops)
                       /\ \A k \in DOMAIN ops :
                            LET op == ops[k] IN
                            /\ meant'[c][k] = [text |-> Plain(op.text), args |-> meant'[c][k].args]
                            /\ op.kind = "rdf" => meant'[c][k].args = Loaded(op.n)
    BY <1>5, <2>1
  <2>3. ask' = ask
    OBVIOUS
  <2>4. QED
    BY ONLY <1>3, <1>4, <2>2, <2>3 DEF MeantOk
<1>7. ValuesOk(c)'
  <2>1. ASSUME OfBatch(c)', NEW k \in DOMAIN ops, ops[k].kind = "sparql"
        PROVE  Values(ops[k].stmt) = meant'[c][k].args
    <3>1. meant'[c][k] = OpMeant(ops[k])
      BY <1>5, <2>1
    <3>2. QED
      BY ONLY <2>1, <3>1 DEF OpMeant
  <2>2. \A s : Values(s)' = Values(s)
    BY DEF Values
  <2>3. QED
    BY <2>1, <2>2 DEF ValuesOk
<1>8. QED
  BY <1>6, <1>7

LEMMA CommitsCallMethod ==
  ASSUME IInv, IInv', CInv, NEW c \in Calls, c \in Asked, call[c].phase = "idle",
         MakeFrame(c), arguments' = arguments, meant' = [meant EXCEPT ![c] = Meant(ask[c])],
         NEW method \in Uploads \cup Downloads, method = ask[c].method, NEW text, NEW args,
         NEW site, NEW path, method = "array" => ask[c].ops # << >>,
         CallMethod(c, site, path, method, text, args)
  PROVE  CInv'
<1>1. /\ Shape /\ ~Sent(c) /\ UnsentOk(c) /\ AskOk(c) /\ Fcn(meant, Calls)
      /\ IsCall(call[c]) /\ reply[c] = "none"
  BY Shapes DEF IInv, CallInv, SaysOf, CInv, CommitInv, RebindsOk
<1>2. PICK m : m = [method |-> method, path |-> path, text |-> text, args |-> args]
  OBVIOUS
<1>3. PICK p : p = [data   |-> << >>,
                    writer |-> m.method \in Uploads
                               \/ (site \in up /\ m.method \in Downloads),
                    reader |-> m.method \in Downloads
                               \/ (site \in up /\ m.method \in Uploads)]
  OBVIOUS
<1>4. m.method = method
  BY <1>2
<1>5. PICK answer : answer = IF site \in up THEN "none" ELSE "unknown service"
  OBVIOUS
<1>6. answer # "ok" /\ (answer = "none" => site \in up)
  BY <1>5
<1>7. /\ sent' = [sent EXCEPT ![c] = m] /\ pipe' = [pipe EXCEPT ![c] = p]
      /\ reply' = [reply EXCEPT ![c] = answer]
  BY <1>1, <1>2, <1>3, <1>5 DEF CallMethod, SendCall
<1>8. /\ sent'[c] = m /\ pipe'[c] = p /\ reply'[c] = answer /\ Fcn(meant', Calls)
      /\ meant'[c] = Meant(ask[c])
      /\ \A d \in Calls \ {c} : /\ sent'[d] = sent[d] /\ pipe'[d] = pipe[d] /\ reply'[d] = reply[d]
                                /\ meant'[d] = meant[d]
  <2>1. Fcn(sent, Calls) /\ Fcn(pipe, Calls) /\ Fcn(reply, Calls)
    BY <1>1, Shapes
  <2>2. PICK now : now = Meant(ask[c])
    OBVIOUS
  <2>3. meant' = [meant EXCEPT ![c] = now]
    BY <2>2
  <2>4. QED
    BY ONLY <1>1, <1>7, <2>1, <2>2, <2>3, c \in Calls DEF Fcn
<1>9. PICK write : write = (IF method \in Uploads THEN "busy" ELSE "none")
  OBVIOUS
<1>10. /\ call'[c].phase = "running" /\ call'[c].write = write /\ call'[c].pos = call[c].pos
       /\ call'[c].dbus = call[c].dbus /\ call'[c].cancelled = call[c].cancelled
       /\ \A d \in Calls \ {c} : call'[d] = call[d]
  <2>1. Fcn(call, Calls)
    BY <1>1, Shapes
  <2>2. call' = [call EXCEPT ![c].phase = "running", ![c].write = write]
    BY <1>9 DEF CallMethod
  <2>3. QED
    BY ONLY <1>1, <2>1, <2>2, c \in Calls DEF Fcn, IsCall
<1>11. UNCHANGED <<ask, policy, rebinds, disturbed, sessions, req>> /\ UNCHANGED storeVars
  BY DEF MakeFrame, endpointVars, requestVars, portalVars
<1>12. Opens(c)
  BY <1>6, <1>8, <1>10, <1>11 DEF Opens, Asked
<1>13. AskOk(c)' /\ UnsentOk(c)'
  <2>1. method # "none"
    BY DEF Uploads, Downloads
  <2>2. QED
    BY <1>1, <1>4, <1>8, <1>10, <1>11, <2>1 DEF AskOk, UnsentOk, Sent
<1>14. UploadOk(c)'
  <2>1. SUFFICES ASSUME method \in Uploads
                 PROVE  MeantOk(c)' /\ TokensFit(c)' /\ RunOk(c)' /\ ReadOk(c)' /\ WriterOk(c)' /\ ClientOk(c)'
    BY <1>4, <1>8 DEF UploadOk, Upload
  <2>2. MeantOk(c)' /\ ValuesOk(c)'
    BY <1>4, <1>8, <1>11, MeantNow
  <2>3. /\ pipe'[c].data = << >> /\ pipe'[c].writer /\ (answer = "none" => pipe'[c].reader)
        /\ write = "busy"
    <3>1. p.data = << >> /\ p.writer /\ (answer = "none" => p.reader)
      BY ONLY <1>3, <1>4, <1>6, <2>1
    <3>2. QED
      BY <1>8, <1>9, <2>1, <3>1
  <2>4. call'[c].pos = 1 /\ call'[c].dbus = "none" /\ (call'[c].cancelled => disturbed' # {})
    BY <1>1, <1>10, <1>11 DEF UnsentOk
  <2>5. Read(c)' = 0 /\ IsSeq(pipe'[c].data) /\ DOMAIN pipe'[c].data = {}
    <3>1. Len(pipe'[c].data) = 0 /\ DOMAIN pipe'[c].data = {}
      BY <2>3
    <3>2. Read(c)' = call'[c].pos - 1 - Len(pipe'[c].data)
      BY DEF Read
    <3>3. Read(c)' = 0
      BY ONLY <2>4, <3>1, <3>2
    <3>4. IsSeq(pipe'[c].data)
      BY ONLY <2>3, NothingSeq
    <3>5. QED
      BY <3>1, <3>3, <3>4
  <2>6. TokensFit(c)'
    <3>1. Len(Pieces(c)) \in Nat
      BY <1>1, <2>1, PiecesOf
    <3>2. Pieces(c)' = Pieces(c)
      BY <1>11 DEF Pieces
    <3>3. QED
      BY ONLY <2>4, <2>5, <3>1, <3>2 DEF TokensFit
  <2>7. ~Waits(c)' /\ ~Runs(c)' /\ outcome'[c] = "none" /\ req'[c].phase = "none"
    BY <1>1, <1>11, UnsentCall DEF Waits, Runs, storeVars
  <2>8. RunOk(c)' /\ ReadOk(c)'
    BY ONLY <2>5, <2>7 DEF RunOk, ReadOk
  <2>9. WriterOk(c)'
    BY ONLY <1>8, <1>10, <2>2, <2>3, <2>4, <2>7 DEF WriterOk, Active
  <2>10. ClientOk(c)'
    BY ONLY <1>10, <2>3, <2>4 DEF ClientOk
  <2>11. QED
    BY <2>2, <2>6, <2>8, <2>9, <2>10
<1>15. QED
  BY <1>1, <1>12, <1>13, <1>14, MadeStep

(* A call that sends no message on the bus.                                   *)
LEMMA CommitsUnsent ==
  ASSUME IInv, IInv', CInv, NEW c \in Calls, c \in Asked, call[c].phase = "idle",
         MakeFrame(c), arguments' = arguments, meant' = [meant EXCEPT ![c] = << >>],
         UNCHANGED busVars, NEW r, call' = [call EXCEPT ![c] = r], r.phase # "idle"
  PROVE  CInv'
<1>1. /\ Shape /\ ~Sent(c) /\ AskOk(c) /\ Fcn(meant, Calls) /\ Fcn(call, Calls) /\ reply[c] = "none"
  BY Shapes DEF IInv, CallInv, SaysOf, CInv, CommitInv, RebindsOk
<1>2. UNCHANGED <<ask, policy, rebinds, disturbed, sessions, req>> /\ UNCHANGED storeVars
      /\ UNCHANGED <<sent, pipe, reply>>
  BY DEF MakeFrame, endpointVars, requestVars, portalVars, busVars
<1>3. /\ Fcn(meant', Calls) /\ meant'[c] = << >> /\ call'[c] = r
      /\ \A d \in Calls \ {c} : meant'[d] = meant[d] /\ call'[d] = call[d]
  BY ONLY <1>1, c \in Calls, meant' = [meant EXCEPT ![c] = << >>], call' = [call EXCEPT ![c] = r]
     DEF Fcn
<1>4. Opens(c)
  BY <1>1, <1>2, <1>3 DEF Opens, Asked
<1>5. AskOk(c)' /\ UnsentOk(c)' /\ UploadOk(c)'
  BY <1>1, <1>2, <1>3 DEF AskOk, UnsentOk, UploadOk, Upload, Sent, Uploads
<1>6. QED
  BY <1>1, <1>4, <1>5, MadeStep

LEMMA CommitsMakeCall ==
  ASSUME IInv, IInv', CInv, NEW c \in Calls, MakeCall(c)
  PROVE  CInv'
<1>1. c \in Asked /\ MakeFrame(c) /\ meant' = [meant EXCEPT ![c] = Meant(ask[c])]
  BY DEF MakeCall, MakeFrame
<1>2. IsCall(call[c]) /\ Fcn(call, Calls) /\ AskOk(c)
  BY Shapes DEF IInv, CInv, CommitInv
<1>3. CASE SendMessage(c, ask[c])
  <2>1. IsHttp(c) /\ call[c].phase = "idle" /\ UNCHANGED busVars /\ arguments' = arguments
    BY <1>3 DEF SendMessage
  <2>2. Meant(ask[c]) = << >>
    BY <2>1 DEF Meant, IsHttp
  <2>3. PICK bad, lost : bad = "unbound" /\ lost = "no reply"
    OBVIOUS
  <2>4. \/ call' = [call EXCEPT ![c].phase = "done", ![c].result = bad]
        \/ call' = [call EXCEPT ![c].phase = "done", ![c].result = lost]
        \/ call' = [call EXCEPT ![c].phase = "running"]
    BY ONLY <1>3, <2>3 DEF SendMessage
  <2>5. \E r : call' = [call EXCEPT ![c] = r] /\ r.phase # "idle"
    <3>1. ASSUME NEW result, call' = [call EXCEPT ![c].phase = "done", ![c].result = result]
          PROVE  \E r : call' = [call EXCEPT ![c] = r] /\ r.phase # "idle"
      <4>1. [call[c] EXCEPT !.phase = "done", !.result = result].phase # "idle"
        BY ONLY <1>2 DEF IsCall
      <4>2. QED
        BY <3>1, <4>1
    <3>2. ASSUME call' = [call EXCEPT ![c].phase = "running"]
          PROVE  \E r : call' = [call EXCEPT ![c] = r] /\ r.phase # "idle"
      <4>1. [call[c] EXCEPT !.phase = "running"].phase # "idle"
        BY ONLY <1>2 DEF IsCall
      <4>2. QED
        BY <3>2, <4>1
    <3>3. QED
      BY ONLY <2>4, <3>1, <3>2
  <2>6. QED
    BY <1>1, <2>1, <2>2, <2>5, CommitsUnsent
<1>4. CASE StartCall(c, link[ask[c].client].site, link[ask[c].client].path, ask[c])
  <2>1. call[c].phase = "idle" /\ arguments' = arguments
    BY <1>4 DEF StartCall
  <2>2. PICK site, path : site = link[ask[c].client].site /\ path = link[ask[c].client].path
    OBVIOUS
  <2>3. \/ /\ UNCHANGED busVars /\ call' = [call EXCEPT ![c].phase = "done", ![c].result = "ok"]
           /\ ask[c].method = "array" /\ ask[c].ops = << >>
        \/ \E method \in Uploads \cup Downloads : \E text, args :
             /\ method = ask[c].method /\ (method = "array" => ask[c].ops # << >>)
             /\ CallMethod(c, site, path, method, text, args)
    <3>1. CASE CallQuery(c, site, path, ask[c])
      BY ONLY <3>1 DEF CallQuery, Uploads, Downloads
    <3>2. CASE CallSerialize(c, site, path, ask[c])
      BY ONLY <3>2 DEF CallSerialize, Uploads, Downloads
    <3>3. CASE CallUpdate(c, site, path, ask[c])
      BY ONLY <3>3 DEF CallUpdate, Uploads, Downloads
    <3>4. CASE CallUpdateBlank(c, site, path, ask[c])
      BY ONLY <3>4 DEF CallUpdateBlank, Uploads, Downloads
    <3>5. CASE CallUpdateArray(c, site, path, ask[c])
      BY ONLY <3>5 DEF CallUpdateArray, Uploads, Downloads
    <3>6. CASE CallDeserialize(c, site, path, ask[c])
      BY ONLY <3>6 DEF CallDeserialize, Uploads, Downloads
    <3>7. QED
      BY ONLY <1>4, <2>2, <3>1, <3>2, <3>3, <3>4, <3>5, <3>6 DEF StartCall
  <2>4. CASE /\ UNCHANGED busVars /\ call' = [call EXCEPT ![c].phase = "done", ![c].result = "ok"]
             /\ ask[c].method = "array" /\ ask[c].ops = << >>
    <3>1. Meant(ask[c]) = << >>
      <4>1. Meant(ask[c]) = [k \in DOMAIN ask[c].ops |-> OpMeant(ask[c].ops[k])]
        BY <2>4 DEF Meant
      <4>2. DOMAIN ask[c].ops = 1..0
        BY <2>4
      <4> DEFINE f == [k \in 1..0 |-> OpMeant(ask[c].ops[k])]
      <4>3. f \in [1..0 -> {}]
        OBVIOUS
      <4>4. Meant(ask[c]) = f
        BY <4>1, <4>2
      <4> HIDE DEF f
      <4>5. f \in Seq({}) /\ Len(f) = 0
        BY <4>3
      <4>6. f = << >>
        BY <4>5, EmptySeq
      <4>7. QED
        BY <4>4, <4>6
    <3>2. [call[c] EXCEPT !.phase = "done", !.result = "ok"].phase # "idle"
      BY ONLY <1>2 DEF IsCall
    <3>3. call' = [call EXCEPT ![c] = [call[c] EXCEPT !.phase = "done", !.result = "ok"]]
      BY <2>4
    <3>4. QED
      BY <1>1, <2>1, <2>4, <3>1, <3>2, <3>3, CommitsUnsent
  <2>5. ASSUME NEW method \in Uploads \cup Downloads, NEW text, NEW args,
               method = ask[c].method, method = "array" => ask[c].ops # << >>,
               CallMethod(c, site, path, method, text, args)
        PROVE  CInv'
    BY <1>1, <2>1, <2>5, CommitsCallMethod
  <2>6. QED
    BY ONLY <1>4, <2>3, <2>4, <2>5
<1>5. QED
  BY <1>3, <1>4 DEF MakeCall

(* ---- New values for a statement                                            *)

LEMMA CommitsBindAgain ==
  ASSUME IInv, IInv', CInv, BindAgain
  PROVE  CInv'
<1>1. /\ UNCHANGED storeVars /\ UNCHANGED <<sent, ask, meant, pipe, reply, req, call>>
      /\ UNCHANGED <<policy, disturbed, sessions>>
  BY DEF BindAgain, Rebind, busVars, endpointVars, requestVars, portalVars
<1>2. PICK next : next = Head(rebinds)
  OBVIOUS
<1>3. /\ rebinds # << >> /\ rebinds' = Tail(rebinds)
      /\ \A c \in next.after : Over(c)
      /\ \A c \in next.before : call[c].phase = "idle"
      /\ arguments' = [arguments EXCEPT ![next.stmt] = next.values]
  BY <1>2 DEF BindAgain, Rebind
<1>4. IsSeq(rebinds)
  BY DEF CInv, RebindsOk
<1>5. /\ IsSeq(Tail(rebinds)) /\ Len(rebinds) \in Nat \ {0}
      /\ Len(Tail(rebinds)) = Len(rebinds) - 1
      /\ \A k \in 1..Len(Tail(rebinds)) : Tail(rebinds)[k] = rebinds[k + 1]
      /\ Head(rebinds) = rebinds[1]
  BY <1>3, <1>4, TailSeq
<1>6. /\ DOMAIN rebinds = 1..Len(rebinds) /\ DOMAIN rebinds' = 1..Len(rebinds')
  BY <1>3, <1>4, <1>5, SeqFacts
<1>7. Settled /\ ReadonlySessions' /\ Asked' = Asked
  BY <1>1 DEF CInv, ReadonlySessions, Settled, Opened, Asked
<1>8. RebindsOk'
  <2>1. ASSUME NEW k \in DOMAIN rebinds'
        PROVE  k + 1 \in DOMAIN rebinds /\ rebinds'[k] = rebinds[k + 1]
    BY <1>3, <1>5, <1>6, <2>1
  <2>2. \A c \in Asked : \A stmt : Uses(ask[c], stmt)' <=> Uses(ask[c], stmt)
    BY <1>1 DEF Uses
  <2>3. QED
    BY <1>1, <1>3, <1>5, <1>7, <2>1, <2>2 DEF CInv, RebindsOk, Uses
<1>9. \A c \in Asked : Uses(ask[c], next.stmt) => c \in next.after \cup next.before
  <2>1. 1 \in DOMAIN rebinds /\ next = rebinds[1]
    BY <1>2, <1>5, <1>6
  <2>2. QED
    BY <2>1 DEF CInv, RebindsOk
<1>10. Queue'
  BY <1>1, <1>7, QueueKept DEF storeVars
<1>11. ASSUME NEW d \in Calls PROVE CommitInv(d)'
  <2>1. ASSUME Upload(d), call[d].write = "busy" PROVE ValuesOk(d)'
    <3>1. d \in Asked /\ ask[d].method = sent[d].method
      BY <2>1, UploadFacts
    <3>2. ValuesOk(d) /\ call[d].phase = "running"
      BY <2>1 DEF CInv, CommitInv, UploadOk, WriterOk
    <3>3. ~Uses(ask[d], next.stmt)
      BY <1>3, <1>9, <3>1, <3>2 DEF Over
    <3>4. SUFFICES ASSUME OfBatch(d), NEW k \in DOMAIN ask[d].ops, ask[d].ops[k].kind = "sparql"
                   PROVE  Values(ask[d].ops[k].stmt)' = Values(ask[d].ops[k].stmt)
      BY <1>1, <3>2 DEF ValuesOk, OfBatch
    <3>5. ask[d].ops[k].stmt # next.stmt
      BY <3>1, <3>3, <3>4 DEF Uses, OfBatch
    <3>6. QED
      <4>1. PICK s : s = ask[d].ops[k].stmt
        OBVIOUS
      <4>2. s # "none" => arguments'[s] = arguments[s]
        BY <1>3, <3>5, <4>1
      <4>3. QED
        BY <1>1, <4>1, <4>2 DEF Values
  <2>2. Spares(d)
    BY <1>1, <2>1 DEF Spares
  <2>3. CommitInv(d) /\ RequestOf(d)' /\ StoreSpares(d)
    BY <1>1, StoreKept DEF IInv, CallInv, CInv
  <2>4. QED
    BY <1>7, <2>2, <2>3, SparedCall
<1>12. QED
  BY <1>7, <1>8, <1>10, <1>11 DEF CInv

(* ---- What goes wrong                                                       *)

(* What a fault leaves of an update: the ends of its pipe may be closed, its  *)
(* client may be gone, and so may all that was not answered.                  *)
Damages(d) ==
  /\ sent'[d] = sent[d] /\ ask'[d] = ask[d] /\ meant'[d] = meant[d] /\ arguments' = arguments
  /\ outcome'[d] = outcome[d] /\ Entries(d)' = Entries(d)
  /\ \A k \in Entries(d) : log'[k] = log[k]
  /\ pipe'[d].data = pipe[d].data /\ (pipe'[d].reader => pipe[d].reader)
  /\ call'[d].pos = call[d].pos /\ call'[d].dbus = call[d].dbus /\ call'[d].result = call[d].result
  /\ \/ /\ call'[d].phase = call[d].phase /\ call'[d].write = call[d].write
        /\ pipe'[d].writer = pipe[d].writer
     \/ call'[d].phase = "gone" /\ call'[d].write = "none"

Holds(d) ==
  /\ reply'[d] = reply[d] /\ req'[d] = req[d] /\ pipe'[d].reader = pipe[d].reader /\ StoreSpares(d)

Drops(d, lost) ==
  /\ reply'[d] = (IF reply[d] = "none" THEN lost ELSE reply[d])
  /\ req'[d].phase = "none" /\ req'[d].host = "none" /\ ~Waits(d)' /\ ~Runs(d)'

LEMMA UploadBroken ==
  ASSUME NEW d \in Calls, CommitInv(d), Upload(d), Settled, disturbed' # {},
         Damages(d), NEW lost \in Unknown \ {"none"}, Holds(d) \/ Drops(d, lost)
  PROVE  CommitInv(d)'
<1>1. /\ sent'[d] = sent[d] /\ ask'[d] = ask[d] /\ meant'[d] = meant[d]
      /\ (Upload(d)' <=> Upload(d)) /\ (OfText(d)' <=> OfText(d)) /\ (OfBatch(d)' <=> OfBatch(d))
      /\ (OfData(d)' <=> OfData(d)) /\ (Sent(d)' <=> Sent(d)) /\ Sent(d)
  BY DEF Damages, Upload, OfText, OfBatch, OfData, Sent, Uploads
<1>2. Text(d)' = Text(d)
  BY <1>1 DEF Text, Rewritten, Settled
<1>3. d \in Asked' <=> d \in Asked
  BY <1>1 DEF Asked
<1>4. AskOk(d)' /\ UnsentOk(d)' /\ HostOk(d)'
  <2>1. AskOk(d)'
    BY <1>1 DEF CommitInv, AskOk
  <2>2. UnsentOk(d)'
    BY <1>1 DEF CommitInv, UnsentOk, Damages
  <2>3. HostOk(d)'
    BY <1>1 DEF CommitInv, HostOk, Holds, Drops
  <2>4. QED
    BY <2>1, <2>2, <2>3
<1>5. TaskOk(d)'
  <2>1. TaskOk(d) /\ outcome'[d] = outcome[d]
    BY DEF CommitInv, Damages
  <2>2. CASE Holds(d)
    BY ONLY <1>1, <2>1, <2>2, Upload(d) DEF TaskOk, Active, Holds, StoreSpares
  <2>3. CASE Drops(d, lost)
    <3>1. reply'[d] # "none"
      BY <2>3 DEF Drops
    <3>2. QED
      BY <1>1, <2>1, <2>3, <3>1 DEF TaskOk, Drops, UploadPhases
  <2>4. QED
    BY <2>2, <2>3
<1>6. LogOk(d)'
  <2>1. Shortened(d)' = Shortened(d)
    BY <1>1 DEF Shortened
  <2>2. \A ops : Partly(d, ops) => Partly(d, ops)'
    BY <1>1, <2>1 DEF Partly, Settled
  <2>3. QED
    BY <1>1, <2>2 DEF CommitInv, LogOk, Damages
<1>7. ReplyOk(d)'
  <2>1. reply'[d] = reply[d] \/ reply'[d] = lost
    BY DEF Holds, Drops
  <2>2. lost # "ok"
    BY DEF Unknown
  <2>3. QED
    BY <1>1, <2>1, <2>2 DEF CommitInv, ReplyOk, Damages
<1>8. MeantOk(d) /\ TokensFit(d) /\ RunOk(d) /\ ReadOk(d) /\ WriterOk(d) /\ ClientOk(d)
  BY DEF CommitInv, UploadOk
<1>9. pipe'[d].data = pipe[d].data /\ call'[d].pos = call[d].pos /\ Read(d)' = Read(d)
      /\ Pieces(d)' = Pieces(d)
  BY <1>1 DEF Damages, Read, Pieces
<1>10. MeantOk(d)'
  BY <1>1, <1>2, <1>8 DEF MeantOk
<1>11. TokensFit(d)'
  <2>1. \A r, token : Wanted(d, r, token)' <=> Wanted(d, r, token)
    BY <1>1 DEF Wanted
  <2>2. QED
    BY <1>8, <1>9, <2>1 DEF TokensFit
<1>12. RunOk(d)'
  <2>1. CASE Holds(d)
    <3>1. ASSUME Runs(d) PROVE Reads(d, running) => Reads(d, running)'
      <4>1. running' = running
        BY <2>1, <3>1 DEF Holds, StoreSpares
      <4>2. QED
        BY <1>1, <1>9, <4>1 DEF Reads
    <3>2. QED
      BY <1>1, <1>8, <1>9, <2>1, <3>1 DEF RunOk, Holds, StoreSpares
  <2>2. CASE Drops(d, lost)
    BY <2>2 DEF Drops, RunOk
  <2>3. QED
    BY <2>1, <2>2
<1>13. ReadOk(d)' /\ (Active(d)' => Holds(d) /\ Active(d))
  <2>1. CASE Holds(d)
    BY <1>1, <1>2, <1>8, <1>9, <2>1 DEF ReadOk, Active, Holds, StoreSpares
  <2>2. CASE Drops(d, lost)
    BY <2>2 DEF Drops, ReadOk, Active
  <2>3. QED
    BY <2>1, <2>2
<1>14. WriterOk(d)'
  <2>1. Ended(d)' <=> Ended(d)
    BY <1>9 DEF Ended
  <2>2. ValuesOk(d) => ValuesOk(d)'
    BY <1>1 DEF ValuesOk, Values, Damages
  <2>3. outcome'[d] = outcome[d]
    BY DEF Damages
  <2>4. QED
    BY <1>8, <1>13, <2>1, <2>2, <2>3 DEF WriterOk, Damages, Holds
<1>15. ClientOk(d)'
  <2>1. reply[d] # "none" => reply'[d] = reply[d]
    BY DEF Holds, Drops
  <2>2. QED
    BY <1>8, <2>1 DEF ClientOk, Damages
<1>16. QED
  BY <1>1, <1>4, <1>5, <1>6, <1>7, <1>10, <1>11, <1>12, <1>13, <1>14, <1>15 DEF CommitInv, UploadOk

LEMMA OtherBroken ==
  ASSUME IInv, IInv', CInv, NEW d \in Calls, ~Upload(d), Settled,
         sent'[d] = sent[d], ask'[d] = ask[d], meant'[d] = meant[d],
         call'[d] = call[d] \/ call'[d].phase = "gone",
         req'[d] = req[d] \/ req'[d].host = "none", StoreSpares(d)
  PROVE  CommitInv(d)'
<1>1. Spares(d)
  BY DEF Spares
<1>2. CommitInv(d) /\ RequestOf(d)'
  BY DEF IInv, CallInv, CInv
<1>3. QED
  BY <1>1, <1>2, SparedCall

LEMMA LostReply == "no reply" \in Unknown \ {"none"}
BY DEF Unknown

LEMMA LostRequest ==
  ASSUME NEW requests, Lost(requests), NEW d \in Calls
  PROVE  /\ d \notin requests => req'[d] = req[d]
         /\ d \in requests => req'[d].phase = "none" /\ req'[d].host = "none"
<1>1. req'[d] = (IF d \in requests THEN NoRequest ELSE req[d])
  BY DEF Lost
<1>2. QED
  BY <1>1 DEF NoRequest

(* An update waits for a thread of the service only.                          *)
LEMMA TasksAtService ==
  ASSUME CInv, NEW d \in Calls, Waits(d) \/ Runs(d)
  PROVE  Upload(d) /\ ToService(d)
<1>1. TaskOk(d) /\ HostOk(d)
  BY DEF CInv, CommitInv
<1>2. Active(d) /\ req[d].host = "service"
  BY <1>1 DEF TaskOk, UploadPhases
<1>3. QED
  BY <1>1, <1>2 DEF HostOk, Active, ToService

LEMMA CommitsServiceCrashes ==
  ASSUME IInv, IInv', CInv, ServiceCrashes
  PROVE  CInv'
<1> DEFINE mine == {c \in Calls : ToService(c)}
           writes == {c \in mine : sent[c].method \in Downloads}
           reads == {c \in mine : sent[c].method \in Uploads}
<1>1. /\ Vanished("service", mine, writes, reads) /\ StoreLost /\ Lost(mine)
      /\ disturbed' = disturbed \cup {"crash"} /\ UNCHANGED <<rebinds, meant>>
      /\ UNCHANGED <<policy, sessions, ask, call, arguments>>
  BY DEF ServiceCrashes, Happens, endpointVars, clientVars, portalVars
<1>2. "service" \in Sites /\ Shape
  BY SitesAssumption DEF IInv
<1>3. /\ UNCHANGED <<log, outcome, sent>> /\ queue' = << >> /\ running' = NoTask
  BY <1>1 DEF StoreLost, Vanished
<1>4. Quiet /\ disturbed' # {}
  BY <1>1 DEF Quiet, Opened
<1>5. Settled /\ RebindsOk' /\ ReadonlySessions'
  BY <1>1, <1>4, QuietKeeps
<1>6. Queue'
  BY <1>3 DEF CInv, Queue
<1>7. ASSUME NEW d \in Calls
      PROVE  /\ d \notin mine => req'[d] = req[d]
             /\ d \in mine => req'[d].phase = "none" /\ req'[d].host = "none"
  BY <1>1, LostRequest
<1>8. \A d \in Calls : d \in mine <=> ToService(d)
  OBVIOUS
<1>9. \A d \in Calls : (d \in reads <=> d \in mine /\ Upload(d))
                       /\ (d \in writes => d \in mine /\ ~Upload(d))
  BY DEF Upload, Uploads, Downloads
<1> HIDE DEF mine, writes, reads
<1>10. PICK lost : lost = "no reply"
  OBVIOUS
<1>11. lost \in Unknown \ {"none"}
  BY <1>10, LostReply
<1>12. ASSUME NEW d \in Calls PROVE CommitInv(d)'
  <2>1. /\ reply'[d] = (IF d \in mine /\ reply[d] = "none" THEN lost ELSE reply[d])
        /\ pipe'[d].data = pipe[d].data
        /\ pipe'[d].writer = (pipe[d].writer /\ d \notin writes)
        /\ pipe'[d].reader = (pipe[d].reader /\ d \notin reads)
    BY <1>1, <1>2, <1>10, VanishedLeaves
  <2>2. ~Waits(d)' /\ ~Runs(d)' /\ Entries(d)' = Entries(d)
    BY <1>3 DEF Waits, Runs, Entries
  <2>3. /\ sent'[d] = sent[d] /\ ask'[d] = ask[d] /\ meant'[d] = meant[d] /\ call'[d] = call[d]
        /\ outcome'[d] = outcome[d] /\ log' = log
    BY <1>1, <1>3
  <2>4. ASSUME ~(Upload(d) /\ d \in mine) PROVE StoreSpares(d)
    <3>1. ~Waits(d) /\ ~Runs(d)
      BY <1>8, <2>4, TasksAtService
    <3>2. QED
      BY <2>2, <2>3, <3>1 DEF StoreSpares
  <2>5. CASE ~Upload(d)
    BY <1>5, <1>7, <2>3, <2>4, <2>5, OtherBroken
  <2>6. CASE Upload(d)
    <3>1. IsPipe(pipe[d])
      BY <1>2, Shapes
    <3>2. Damages(d)
      BY <1>1, <1>9, <2>1, <2>2, <2>3, <2>6, <3>1 DEF Damages, IsPipe
    <3>3. CASE d \in mine
      BY <1>4, <1>5, <1>7, <1>11, <2>1, <2>2, <2>6, <3>2, <3>3, UploadBroken DEF Drops, CInv
    <3>4. CASE d \notin mine
      <4>1. pipe'[d].reader = pipe[d].reader
        BY <1>9, <2>1, <3>1, <3>4 DEF IsPipe
      <4>2. Holds(d)
        BY <1>7, <2>1, <2>4, <3>4, <4>1 DEF Holds
      <4>3. QED
        BY <1>4, <1>5, <1>11, <2>6, <3>2, <4>2, UploadBroken DEF CInv
    <3>5. QED
      BY <3>3, <3>4
  <2>7. QED
    BY <2>5, <2>6
<1>13. QED
  BY <1>5, <1>6, <1>12 DEF CInv

(* The calls of a session are no calls the portal makes.                      *)
LEMMA SessionPortaled ==
  ASSUME IInv, NEW c \in Calls, InSession(c)
  PROVE  Portaled(c) /\ Inner[c] \in Calls \ Asked
<1>1. SaysOf(c) /\ "none" \notin Opened /\ "service" \notin Opened
  BY OpenedPaths DEF IInv, CallInv, Shape
<1>2. Sent(c)
  BY <1>1 DEF InSession, SaysOf, NoMessage
<1>3. c \in Asked
  <2>1. SUFFICES ASSUME NEW o \in Calls, Relays(o, c) PROVE FALSE
    BY <1>1, <1>2 DEF SaysOf
  <2>2. PICK text, args : sent[c] = [method |-> sent[o].method, path |-> "service",
                                     text |-> text, args |-> args]
    BY <2>1 DEF Relays
  <2>3. sent[c].path = "service"
    BY ONLY <2>2
  <2>4. QED
    BY <1>1, <2>3 DEF InSession
<1>4. AskedSays(c)
  BY <1>1, <1>2, <1>3 DEF SaysOf
<1>5. Portaled(c)
  BY <1>1, <1>3, <1>4 DEF AskedSays, Place, InSession, Portaled
<1>6. QED
  BY <1>5 DEF IInv, Links

LEMMA CommitsPortalCrashes ==
  ASSUME IInv, IInv', CInv, PortalCrashes
  PROVE  CInv'
<1> DEFINE mine == {c \in Calls : InSession(c)}
           inner == {Inner[c] : c \in mine}
           writes == {c \in mine : sent[c].method \in Downloads}
           reads == {c \in mine : sent[c].method \in Uploads} \cup inner
<1>1. /\ Vanished("portal", mine, writes, reads) /\ Lost(mine)
      /\ call' = [c \in Calls |-> IF c \in inner
                   THEN [call[c] EXCEPT !.phase = "gone", !.cursor = "none"] ELSE call[c]]
      /\ sessions' = [s \in Opened |-> "none"]
      /\ disturbed' = disturbed \cup {"portal"} /\ UNCHANGED <<rebinds, meant>>
      /\ UNCHANGED <<policy, ask, arguments>> /\ UNCHANGED storeVars
  BY DEF PortalCrashes, Happens, endpointVars
<1>2. "portal" \in Sites /\ Shape
  BY SitesAssumption DEF IInv
<1>3. sent' = sent
  BY <1>1 DEF Vanished
<1>4. Quiet /\ disturbed' # {}
  BY <1>1 DEF Quiet, Opened
<1>5. Settled /\ RebindsOk' /\ ReadonlySessions'
  BY <1>1, <1>4, QuietKeeps
<1>6. Queue'
  BY <1>1, <1>3, <1>5, QueueKept DEF storeVars
<1>7. ASSUME NEW d \in Calls
      PROVE  /\ d \notin mine => req'[d] = req[d]
             /\ d \in mine => req'[d].phase = "none" /\ req'[d].host = "none"
  BY <1>1, LostRequest
<1>8. ASSUME NEW d \in Calls
      PROVE  call'[d] = (IF d \in inner THEN [call[d] EXCEPT !.phase = "gone", !.cursor = "none"]
                         ELSE call[d])
  BY <1>1
<1>9. \A d \in Calls : /\ Upload(d) => d \notin inner /\ d \notin writes
                       /\ Upload(d) => (d \in reads <=> d \in mine)
                       /\ d \in mine => ~ToService(d)
  <2>1. \A d \in inner : d \notin Asked
    BY SessionPortaled
  <2>2. \A d \in Calls : Upload(d) => d \in Asked /\ sent[d].method \notin Downloads
    BY UploadFacts DEF Download
  <2>3. "service" \notin Opened
    BY <1>2, OpenedPaths DEF Shape
  <2>4. QED
    BY <2>1, <2>2, <2>3 DEF Upload, ToService, InSession
<1> HIDE DEF mine, inner, writes, reads
<1>10. PICK lost : lost = "no reply"
  OBVIOUS
<1>11. lost \in Unknown \ {"none"}
  BY <1>10, LostReply
<1>12. ASSUME NEW d \in Calls PROVE CommitInv(d)'
  <2>1. /\ reply'[d] = (IF d \in mine /\ reply[d] = "none" THEN lost ELSE reply[d])
        /\ pipe'[d].data = pipe[d].data
        /\ pipe'[d].writer = (pipe[d].writer /\ d \notin writes)
        /\ pipe'[d].reader = (pipe[d].reader /\ d \notin reads)
    BY <1>1, <1>2, <1>10, VanishedLeaves
  <2>2. IsCall(call[d]) /\ IsPipe(pipe[d])
    BY <1>2, Shapes
  <2>3. sent'[d] = sent[d] /\ ask'[d] = ask[d] /\ meant'[d] = meant[d]
    BY <1>1, <1>3
  <2>4. StoreSpares(d) /\ outcome' = outcome /\ log' = log
    BY <1>1, StoreKept DEF storeVars
  <2>5. call'[d] = call[d] \/ call'[d].phase = "gone"
    BY ONLY <1>8, <2>2, d \in Calls DEF IsCall
  <2>6. CASE ~Upload(d)
    BY <1>5, <1>7, <2>3, <2>4, <2>5, <2>6, OtherBroken
  <2>7. CASE Upload(d)
    <3>1. call'[d] = call[d]
      BY <1>8, <1>9, <2>7
    <3>2. pipe'[d].writer = pipe[d].writer
      BY ONLY <1>9, <2>1, <2>2, <2>7, d \in Calls DEF IsPipe
    <3>3. Damages(d)
      BY <1>1, <2>1, <2>2, <2>3, <2>4, <3>1, <3>2 DEF Damages, IsPipe, Entries
    <3>4. CASE d \in mine
      <4>1. ~Waits(d) /\ ~Runs(d)
        BY <1>9, <3>4, TasksAtService
      <4>2. Drops(d, lost)
        BY <1>7, <2>1, <2>4, <3>4, <4>1 DEF Drops, StoreSpares
      <4>3. QED
        BY <1>4, <1>5, <1>11, <2>7, <3>3, <4>2, UploadBroken DEF CInv
    <3>5. CASE d \notin mine
      <4>1. pipe'[d].reader = pipe[d].reader
        BY ONLY <1>9, <2>1, <2>2, <2>7, <3>5, d \in Calls DEF IsPipe
      <4>2. Holds(d)
        BY <1>7, <2>1, <2>4, <3>5, <4>1 DEF Holds
      <4>3. QED
        BY <1>4, <1>5, <1>11, <2>7, <3>3, <4>2, UploadBroken DEF CInv
    <3>6. QED
      BY <3>4, <3>5
  <2>8. QED
    BY <2>6, <2>7
<1>13. QED
  BY <1>5, <1>6, <1>12 DEF CInv

LEMMA CommitsClientDies ==
  ASSUME IInv, IInv', CInv, NEW cl \in Clients, ClientDies(cl)
  PROVE  CInv'
<1> DEFINE mine == {c \in Calls : ask[c].client = cl}
<1>1. /\ call' = [c \in Calls |-> IF c \in mine
                   THEN [call[c] EXCEPT !.phase = "gone", !.write = "none", !.cursor = "none"]
                   ELSE call[c]]
      /\ pipe' = [c \in Calls |-> IF c \notin mine THEN pipe[c]
                   ELSE IF Uploading(c) THEN [pipe[c] EXCEPT !.writer = FALSE]
                   ELSE [pipe[c] EXCEPT !.reader = FALSE]]
      /\ disturbed' = disturbed \cup {cl} /\ UNCHANGED <<rebinds, meant>>
      /\ UNCHANGED <<policy, sessions, ask, arguments, reply, sent, req>> /\ UNCHANGED storeVars
  BY DEF ClientDies, ClientVanished, Happens, endpointVars, requestVars, portalVars
<1>2. Shape
  BY DEF IInv
<1>3. Quiet /\ disturbed' # {}
  BY <1>1 DEF Quiet, Opened
<1>4. Settled /\ RebindsOk' /\ ReadonlySessions'
  BY <1>1, <1>3, QuietKeeps
<1>5. Queue'
  BY <1>1, <1>4, QueueKept DEF storeVars
<1>6. ASSUME NEW d \in Calls
      PROVE  /\ call'[d] = (IF d \in mine
                   THEN [call[d] EXCEPT !.phase = "gone", !.write = "none", !.cursor = "none"]
                   ELSE call[d])
             /\ pipe'[d] = (IF d \notin mine THEN pipe[d]
                   ELSE IF Uploading(d) THEN [pipe[d] EXCEPT !.writer = FALSE]
                   ELSE [pipe[d] EXCEPT !.reader = FALSE])
  BY <1>1
<1> HIDE DEF mine
<1>7. ASSUME NEW d \in Calls PROVE CommitInv(d)'
  <2>1. IsCall(call[d]) /\ IsPipe(pipe[d])
    BY <1>2, Shapes
  <2>2. sent'[d] = sent[d] /\ ask'[d] = ask[d] /\ meant'[d] = meant[d] /\ req'[d] = req[d]
    BY <1>1
  <2>3. StoreSpares(d) /\ outcome' = outcome /\ log' = log
    BY <1>1, StoreKept DEF storeVars
  <2>4. \/ call'[d] = call[d] /\ d \notin mine
        \/ /\ call'[d].phase = "gone" /\ call'[d].write = "none" /\ call'[d].pos = call[d].pos
           /\ call'[d].dbus = call[d].dbus /\ call'[d].result = call[d].result
    BY ONLY <1>6, <2>1, d \in Calls DEF IsCall
  <2>5. CASE ~Upload(d)
    BY <1>4, <2>2, <2>3, <2>4, <2>5, OtherBroken
  <2>6. CASE Upload(d)
    <3>1. Uploading(d)
      BY <2>6, UploadFacts DEF Uploading
    <3>2. /\ pipe'[d].data = pipe[d].data /\ pipe'[d].reader = pipe[d].reader
          /\ d \notin mine => pipe'[d] = pipe[d]
      BY ONLY <1>6, <2>1, <3>1, d \in Calls DEF IsPipe
    <3>3. Damages(d)
      BY <1>1, <2>2, <2>3, <2>4, <3>2 DEF Damages, Entries
    <3>4. Holds(d)
      BY <1>1, <2>2, <2>3, <3>2 DEF Holds
    <3>5. QED
      BY <1>3, <1>4, <2>6, <3>3, <3>4, LostReply, UploadBroken DEF CInv
  <2>7. QED
    BY <2>5, <2>6
<1>8. QED
  BY <1>4, <1>5, <1>7 DEF CInv

(* ---- The invariant holds                                                   *)

LEMMA InitialCommits ==
  ASSUME Init, RebindsApart
  PROVE  CInv
<1>1. PICK job \in Jobs :
        /\ ask = job.ask /\ rebinds = job.rebinds /\ sessions = << >>
        /\ reply = [c \in Calls |-> "none"] /\ sent = [c \in Calls |-> NoMessage]
        /\ queue = << >> /\ running = NoTask /\ log = << >> /\ outcome = [c \in Calls |-> "none"]
        /\ req = [c \in Calls |-> NoRequest] /\ call = [c \in Calls |-> IdleCall]
        /\ meant = [c \in Calls |-> << >>]
  BY DEF Init, BusInit, StoreInit, RequestInit, ClientInit
<1>2. DOMAIN << >> = {}
  BY NothingSeq
<1>3. Queue
  BY <1>1, <1>2 DEF Queue, Fcn
<1>4. RebindsOk
  <2>1. IsSeq(rebinds)
    BY <1>1, JobsAssumption, SeqIs
  <2>2. \A k \in DOMAIN job.rebinds : Apart(job.rebinds[k], job.ask)
    BY DEF RebindsApart, ApartIn
  <2>3. \A k \in DOMAIN rebinds : \A c \in Asked :
          Uses(ask[c], rebinds[k].stmt) => c \in rebinds[k].after \cup rebinds[k].before
    BY <1>1, <2>2 DEF Apart, Asked
  <2>4. Fcn(meant, Calls)
    BY <1>1 DEF Fcn
  <2>5. QED
    BY <2>1, <2>3, <2>4 DEF RebindsOk
<1>5. ReadonlySessions
  BY <1>1, <1>2 DEF ReadonlySessions, Opened
<1>6. ASSUME NEW c \in Calls PROVE CommitInv(c)
  <2>1. /\ reply[c] = "none" /\ sent[c] = NoMessage /\ outcome[c] = "none"
        /\ req[c] = NoRequest /\ call[c] = IdleCall /\ meant[c] = << >>
    BY <1>1
  <2>2. ~Upload(c) /\ ~Sent(c)
    BY <2>1 DEF Upload, Uploads, Sent, NoMessage
  <2>3. ~Waits(c) /\ ~Runs(c) /\ Entries(c) = {}
    BY <1>1, <1>2 DEF Waits, Runs, Entries
  <2>4. AskOk(c)
    <3>1. /\ ask[c].n \in Nat /\ ask[c].ops \in Seq(Range(ask[c].ops))
          /\ \A op \in Range(ask[c].ops) :
               op.kind = "sparql" \/ (op.kind = "rdf" /\ op.n \in Nat \ {0})
      BY <1>1, JobsAssumption
    <3>2. IsSeq(ask[c].ops)
      BY <3>1, SeqIs
    <3>3. \A k \in DOMAIN ask[c].ops : ask[c].ops[k] \in Range(ask[c].ops)
      BY DEF Range
    <3>4. QED
      BY <3>1, <3>2, <3>3 DEF AskOk, OpsOk
  <2>5. UnsentOk(c) /\ HostOk(c)
    BY <2>1, <2>2 DEF UnsentOk, HostOk, IdleCall, NoRequest
  <2>6. TaskOk(c)
    BY <2>1, <2>2, <2>3 DEF TaskOk, NoRequest, UploadPhases
  <2>7. LogOk(c) /\ ReplyOk(c) /\ UploadOk(c)
    BY <2>1, <2>2, <2>3 DEF LogOk, ReplyOk, UploadOk
  <2>8. QED
    BY <2>4, <2>5, <2>6, <2>7 DEF CommitInv
<1>7. QED
  BY <1>3, <1>4, <1>5, <1>6 DEF CInv

LEMMA CommitsOfClient ==
  ASSUME IInv, IInv', CInv, NEW c \in Calls, ClientStep(c) \/ Closes(c)
  PROVE  CInv'
<1>1. CASE ClientStep(c)
  <2>1. ClientFrame
    BY <1>1 DEF ClientStep, ClientFrame
  <2>2. CASE WritePiece(c)
    BY <2>1, <2>2, CommitsWritePiece
  <2>3. CASE ReceiveReply(c)
    BY <2>1, <2>3, CommitsUpdated, CommitsAnswered DEF ReceiveReply
  <2>4. CASE CheckFinish(c)
    BY <2>1, <2>4, CommitsUpdated
  <2>5. CASE CursorNext(c) \/ StreamRead(c)
    BY <2>1, <2>5, CommitsCursor
  <2>6. QED
    BY <1>1, <2>2, <2>3, <2>4, <2>5 DEF ClientStep
<1>2. CASE Closes(c)
  <2>1. UNCHANGED <<endpointVars, storeVars, requestVars, portalVars, remoteVars>>
    BY <1>2 DEF Closes
  <2>2. HttpCursorClose(c) \/ (CloseCursor(c) /\ ClientFrame)
    BY <1>2, <2>1 DEF Closes, ClientFrame
  <2>3. QED
    BY <2>1, <2>2, CommitsBrowser, CommitsCursor
<1>3. QED
  BY <1>1, <1>2

LEMMA CommitsOfEndpoint ==
  ASSUME IInv, IInv', CInv, NEW c \in Calls, EndpointStep(c)
  PROVE  CInv'
<1>1. ServiceFrame
  BY DEF EndpointStep, ServiceFrame
<1>2. CASE ReadUpdate(c)
  BY <1>1, <1>2, CommitsReadUpdate
<1>3. CASE ReadUpdateCb(c) \/ ReadUpdateBlankCb(c)
  BY <1>1, <1>3, CommitsReadEnded DEF ReadUpdateCb, ReadUpdateBlankCb
<1>4. CASE UpdateCb(c) \/ UpdateBlankCb(c) \/ BatchExecuteCb(c) \/ DeserializeCb(c)
  BY <1>1, <1>4, CommitsTaskEnded DEF UpdateCb, UpdateBlankCb, BatchExecuteCb, DeserializeCb
<1>5. CASE PutValues(c) \/ FreeRequest(c)
  BY <1>1, <1>5, CommitsRows
<1>6. QED
  BY <1>2, <1>3, <1>4, <1>5 DEF EndpointStep

LEMMA CommitsAnswering ==
  ASSUME IInv, IInv', CInv, NEW c \in Calls,
         \/ ServiceExecuted(c) \/ ServiceRow(c)
         \/ (SessionExecuted(c) \/ SessionRow(c)) /\ UNCHANGED <<http, remoteVars>>
  PROVE  CInv'
<1>1. ServiceFrame
  BY DEF ServiceExecuted, ServiceRow, SessionExecuted, SessionRow, ServiceFrame
<1>2. CASE ServiceExecuted(c) \/ SessionExecuted(c)
  <2>1. \E error : StmtExecuted(c, error)
    BY <1>2 DEF ServiceExecuted, SessionExecuted
  <2>2. QED
    BY <1>1, <2>1, CommitsStmtExecuted
<1>3. CASE ServiceRow(c) \/ SessionRow(c)
  <2>1. \E next : PutHeader(c, next) \/ SpliceRdf(c, next)
    BY <1>3 DEF ServiceRow, SessionRow
  <2>2. QED
    BY <1>1, <2>1, CommitsRows
<1>4. QED
  BY <1>2, <1>3

LEMMA CommitsOfSession ==
  ASSUME IInv, IInv', CInv, NEW c \in Calls, SessionStep(c)
  PROVE  CInv'
<1>1. UNCHANGED <<http, remoteVars>>
  BY DEF SessionStep
<1>2. CASE SessionMethodCall(c)
  BY <1>1, <1>2, CommitsMessage
<1>3. CASE SessionForwards(c)
  BY <1>1, <1>3, CommitsSessionForwards
<1>4. CASE SessionExecuted(c) \/ SessionRow(c)
  BY <1>1, <1>4, CommitsAnswering
<1>5. QED
  BY <1>2, <1>3, <1>4 DEF SessionStep

LEMMA CommitsWebClient ==
  ASSUME IInv, IInv', CInv, NEW c \in Calls, WebClientStep(c)
  PROVE  CInv'
<1>1. UNCHANGED <<endpointVars, storeVars, requestVars, portalVars, remoteVars>>
  BY DEF WebClientStep
<1>2. QED
  BY <1>1, CommitsBrowser DEF WebClientStep

LEMMA CommitsProgress ==
  ASSUME IInv, IInv', CInv, Progress
  PROVE  CInv'
<1>1. CASE StoreStep
  <2>1. UNCHANGED <<requestVars, clientVars, portalVars, http, remoteVars>>
    BY <1>1 DEF StoreStep
  <2>2. QED
    BY <1>1, <2>1, CommitsRunUpdate, CommitsBeginStream, CommitsReadToken, CommitsReadEnd,
       CommitsCommitBatch DEF StoreStep
<1>2. ASSUME NEW cl \in Clients, PingPeer(cl) \/ OpenSession(cl) \/ CloseSession(cl) PROVE CInv'
  BY <1>2, CommitsPingPeer, CommitsOpenSession, CommitsCloseSession
<1>3. ASSUME NEW s \in Hosts, PeerVanished(s) PROVE CInv'
  BY <1>3, CommitsPeerVanished
<1>4. ASSUME NEW c \in Calls,
             \/ NamesRead(c) \/ ClientStep(c) \/ Closes(c) \/ ServiceMethodCall(c)
             \/ ServiceExecuted(c) \/ ServiceRow(c) \/ EndpointStep(c) \/ Watched(c) \/ SessionStep(c)
             \/ WebServerStep(c) \/ WebClientStep(c)
      PROVE  CInv'
  BY <1>4, CommitsNamesRead, CommitsOfClient, CommitsMessage, CommitsAnswering, CommitsOfEndpoint,
     CommitsWatched, CommitsOfSession, CommitsWebServer, CommitsWebClient
<1>5. QED
  BY <1>1, <1>2, <1>3, <1>4 DEF Progress

LEMMA CommitsNext ==
  ASSUME IInv, IInv', CInv, [Next]_vars
  PROVE  CInv'
<1>1. CASE Progress
  BY <1>1, CommitsProgress
<1>2. CASE Fault
  BY <1>2, CommitsEndpointFinalized, CommitsServiceCrashes, CommitsPortalCrashes,
     CommitsClientDies DEF Fault
<1>3. CASE BindAgain
  BY <1>3, CommitsBindAgain
<1>4. ASSUME NEW c \in Calls, MakeCall(c) \/ Cancel(c) PROVE CInv'
  BY <1>4, CommitsMakeCall, CommitsCancel
<1>5. ASSUME NEW cl \in Clients, CloseConnection(cl) PROVE CInv'
  BY <1>5, CommitsCloseConnection
<1>6. CASE UNCHANGED vars
  BY <1>6, CommitsStutter
<1>7. QED
  BY <1>1, <1>2, <1>3, <1>4, <1>5, <1>6 DEF Next

LEMMA WholeByInvariant ==
  ASSUME IInv, CInv
  PROVE  CommittedWhole
<1>1. SUFFICES ASSUME NEW c \in Asked
      PROVE  /\ Cardinality(Entries(c)) <= 1
             /\ \A k \in Entries(c) :
                  \/ log[k].ops = meant[c]
                  \/ /\ ask[c].method = "deserialize" /\ disturbed # {}
                     /\ log[k].ops \in Shortened(c)
             /\ call[c].phase = "done" /\ Uploading(c) /\ meant[c] # << >> =>
                  /\ call[c].result = "ok" => Entries(c) # {}
                  /\ call[c].result \notin Unknown \cup {"ok"} => Entries(c) = {}
  BY DEF CommittedWhole
<1>2. c \in Calls /\ SaysOf(c) /\ LogOk(c) /\ ReplyOk(c) /\ UnsentOk(c) /\ UploadOk(c)
  BY DEF Asked, IInv, CallInv, CInv, CommitInv
<1>3. Cardinality(Entries(c)) <= 1
  <2>1. Entries(c) = {} \/ \E k : Entries(c) = {k}
    BY <1>2 DEF LogOk
  <2>2. CASE Entries(c) = {}
    <3>1. Cardinality(Entries(c)) = 0
      BY <2>2, FS_EmptySet, Zenon
    <3>2. QED
      BY ONLY <3>1
  <2>3. ASSUME NEW k, Entries(c) = {k} PROVE Cardinality(Entries(c)) <= 1
    <3>1. Cardinality(Entries(c)) = 1
      BY <2>3, FS_Singleton, Zenon
    <3>2. QED
      BY ONLY <3>1
  <2>4. QED
    BY <2>1, <2>2, <2>3
<1>4. ASSUME NEW k \in Entries(c)
      PROVE  \/ log[k].ops = meant[c]
             \/ /\ ask[c].method = "deserialize" /\ disturbed # {}
                /\ log[k].ops \in Shortened(c)
  <2>1. OfData(c) => ask[c].method = "deserialize"
    BY <1>2 DEF OfData, SaysOf, Sent
  <2>2. QED
    BY <1>2, <2>1 DEF LogOk, Partly
<1>5. ASSUME call[c].phase = "done", Uploading(c), meant[c] # << >>
      PROVE  /\ call[c].result = "ok" => Entries(c) # {}
             /\ call[c].result \notin Unknown \cup {"ok"} => Entries(c) = {}
  <2>1. Upload(c)
    BY <1>2, <1>5 DEF UnsentOk, SaysOf, Uploading, Upload
  <2>2. call[c].result = "cancelled" \/ call[c].result = reply[c]
    BY <1>2, <1>5, <2>1 DEF UploadOk, ClientOk
  <2>3. "cancelled" \in Unknown
    BY DEF Unknown
  <2>4. QED
    BY <1>2, <2>1, <2>2, <2>3 DEF LogOk, ReplyOk
<1>6. QED
  BY <1>3, <1>4, <1>5

(* Each request of an update is in the log of the store at most once, with    *)
(* all its operations and with the texts and values it had when it was made,  *)
(* whatever clients, threads, pipes and faults do meanwhile; only a           *)
(* deserialization whose client went away may be there with a part of its     *)
(* data.  A client that is told of success finds its request stored, and one  *)
(* that is told of an error does not (tracker_endpoint_dbus,                  *)
(* tracker_direct_connection, tracker_bus_connection).                        *)
THEOREM CommittedWholeHolds == RebindsApart => (Spec => []CommittedWhole)
<1>1. RebindsApart /\ Init => CInv
  BY InitialCommits
<1>2. IInv /\ IInv' /\ CInv /\ [Next]_vars => CInv'
  BY CommitsNext
<1>3. IInv /\ CInv => CommittedWhole
  BY WholeByInvariant
<1>4. QED
  BY <1>1, <1>2, <1>3, Invariant, PTL DEF Spec

=============================================================================
