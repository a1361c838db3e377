------------------------------- MODULE Formats ------------------------------
(***************************************************************************)
(* From a resource, a cursor or a document to the cursor that reads it     *)
(* back: resources are built, a serializer is a stream over a cursor       *)
(* (tracker-serializer.c) that prints while it is read, and a deserializer *)
(* is a cursor over a stream (tracker-deserializer.c).  The cursor at the  *)
(* beginning may fail, and the stream may be cut off.                      *)
(***************************************************************************)
EXTENDS JsonLd, ResultFormats, Resources

CONSTANTS
  Tables,        \* the resources to begin with
  Root,          \* the resource that is serialized or stored
  Operations,    \* what is done to resources: [r, set, prop, value]
  MaxOps,        \* bound on the operations
  Sources,       \* what is serialized: [format, vars, rows]; no rows stands for those of Root
  Documents,     \* texts that nobody here serialized: [format, tokens, rows]
  Failures,      \* the rows instead of which a cursor may fail
  BufSizes,      \* BUF_SIZE, what a deserializer keeps in its buffer or reads at once, in tokens
  Namespaces

VARIABLES
  table,         \* the resources
  ops,           \* the operations done
  format,        \* the format of the transfer, or "none"
  cursor, w,     \* what is serialized, and the serializer
  call,          \* what is asked in the read call in progress, 0 for none
  stream,        \* how the stream ended, or "open"
  cut,           \* whether it was cut off
  reader,        \* the deserializer
  size,          \* the size of its buffer
  got,           \* the rows its user has got
  result         \* how it ended, or "more"

transfer == <<format, cursor, w, call, stream, cut, reader, size, got, result>>
vars == <<table, ops, transfer>>

Rdf == {"turtle", "trig", "jsonld"}
Streaming == {"turtle", "trig"}

\* tracker_serializer_new, tracker_deserializer_new: by format.
WriterNew(f) == IF f = "jsonld" THEN JsonLdNew(Namespaces) ELSE SerializerNew(Namespaces)
ReaderNew(f) ==
  CASE f \in Streaming -> TurtleReaderNew(f = "trig", << >>)
    [] f = "xml" -> XmlReaderNew
    [] OTHER -> [nodes |-> << >>, idx |-> 0]

Init ==
  /\ table \in Tables
  /\ ops = 0 /\ format = "none" /\ call = 0 /\ stream = "open" /\ cut = FALSE
  /\ cursor = Cursor(<< >>, << >>, 0) /\ w = SerializerNew(Namespaces)
  /\ size = 0 /\ reader = ReaderNew("none") /\ got = << >> /\ result = "more"

Build(o) ==
  /\ format = "none" /\ ops < MaxOps
  /\ table' = [table EXCEPT ![o.r] =
       IF o.set THEN SetGvalue(@, o.prop, o.value) ELSE AddGvalue(@, o.prop, o.value)]
  /\ ops' = ops + 1
  /\ UNCHANGED transfer

\* A deserializer over a serializer over a cursor; or over a text, which is a serializer
\* that has finished.
Begin(f, c, writer) ==
  /\ format = "none" /\ ops = 0
  /\ format' = f /\ cursor' = c /\ w' = writer /\ reader' = ReaderNew(f) /\ size' \in BufSizes
  /\ UNCHANGED <<table, ops, call, stream, cut, got, result>>

Transfer(s, fails) ==
  LET rows == IF s.rows # << >> THEN s.rows ELSE RowsOfResource(table, Namespaces, Root, Unbound)
  IN  /\ fails <= Len(rows) + 1
      /\ Begin(s.format, Cursor(s.vars, rows, fails), WriterNew(s.format))

ReadDocument(d) ==
  Begin(d.format, Cursor(<< >>, d.rows, 0),
        [WriterNew(d.format) EXCEPT !.data = d.tokens, !.head = TRUE, !.finished = TRUE])

-----------------------------------------------------------------------------
(* The stream: one call of read. *)

\* A Turtle deserializer tops its buffer up before each step, the others read it all.
Asks ==
  CASE format \in Streaming -> size - Len(reader.buffer)
    [] OTHER -> size

HeadPrinted ==
  CASE w.finished -> w
    [] format \in Streaming -> TurtleHead(w)
    [] format = "json" -> JsonHead(w, cursor.vars)
    [] format = "xml" -> XmlHead(w, cursor.vars)
    [] format = "jsonld" -> IF Asks < Len(w.data) THEN w ELSE JsonLdHead([w EXCEPT !.check = FALSE])

\* Nothing is left to read when the cursor has finished and all was read.
StartRead ==
  /\ format # "none" /\ call = 0 /\ stream = "open" /\ result = "more"
  /\ Asks > 0
  /\ IF w.finished /\ w.data = << >>
     THEN stream' = "eof" /\ UNCHANGED <<call, w>>
     ELSE call' = Asks /\ w' = HeadPrinted /\ UNCHANGED stream
  /\ UNCHANGED <<table, ops, format, cursor, cut, reader, got, result, size>>

\* Whether serialize_up_to_position goes on.  JSON-LD goes on until it has more than asked
\* and the subject has changed.
Wants ==
  /\ ~w.finished
  /\ IF format = "jsonld" THEN ~w.head \/ ~w.check \/ Len(w.data) <= call ELSE Len(w.data) < call

PrintedRow(row) ==
  CASE format = "turtle" -> TurtleRow(w, row)
    [] format = "trig" -> TrigRow(w, row)
    [] format = "json" -> JsonRow(w, cursor.vars, row)
    [] format = "xml" -> XmlRow(w, cursor.vars, row)
    [] format = "jsonld" -> JsonLdRow(w, row)

Refused(row) ==
  CASE format = "turtle" -> TurtleRefuses(row)
    [] format = "trig" -> TrigRefuses(row)
    [] OTHER -> FALSE

PrintedEnd ==
  CASE format \in Streaming -> [w EXCEPT !.finished = TRUE]
    [] format = "json" -> JsonEnd(w)
    [] format = "xml" -> XmlEnd(w)
    [] format = "jsonld" -> JsonLdEnd(w)

SerializeRow ==
  /\ call > 0 /\ Wants /\ ~CursorFails(cursor) /\ ~CursorEnds(cursor)
  /\ ~Refused(CurrentRow(cursor))
  /\ w' = PrintedRow(CurrentRow(cursor))
  /\ cursor' = Advanced(cursor)
  /\ UNCHANGED <<table, ops, format, call, stream, cut, reader, got, result, size>>

SerializeEnd ==
  /\ call > 0 /\ Wants /\ ~CursorFails(cursor) /\ CursorEnds(cursor)
  /\ w' = PrintedEnd
  /\ UNCHANGED <<table, ops, format, cursor, call, stream, cut, reader, got, result, size>>

\* An error of the cursor, or a row that is no statement, is the result of the call;
\* what was printed before is lost.
SerializeFails ==
  /\ call > 0 /\ Wants
  /\ CursorFails(cursor) \/ (~CursorEnds(cursor) /\ Refused(CurrentRow(cursor)))
  /\ stream' = "failed" /\ call' = 0
  /\ UNCHANGED <<table, ops, format, cursor, w, cut, reader, got, result, size>>

Received(r, tokens) ==
  IF format \in Streaming THEN [r EXCEPT !.buffer = @ \o tokens] ELSE [r EXCEPT !.nodes = @ \o tokens]

\* The call returns what was asked, or what there is.
ReturnRead ==
  LET w1 == CASE format = "turtle" -> TurtleClose(w)
              [] format = "trig" -> TrigClose(w)
              [] OTHER -> w
      n == IF call < Len(w1.data) THEN call ELSE Len(w1.data)
  IN  /\ call > 0 /\ ~Wants
      /\ call' = 0
      /\ w' = [w1 EXCEPT !.data = SubSeq(@, n + 1, Len(@))]
      /\ reader' = Received(reader, SubSeq(w1.data, 1, n))
      /\ UNCHANGED <<table, ops, format, cursor, stream, cut, got, result, size>>

\* The stream ends early: the serializer was at the other end of a connection.
Cut ==
  /\ format # "none" /\ call = 0 /\ stream = "open" /\ result = "more"
  /\ stream' = "eof" /\ cut' = TRUE
  /\ UNCHANGED <<table, ops, format, cursor, w, call, reader, got, result, size>>

-----------------------------------------------------------------------------
(* The deserializer: next is called until there are no rows, or an error. *)

Yields(r, row, verdict) ==
  /\ reader' = r
  /\ got' = IF verdict = "row" THEN Append(got, row) ELSE got
  /\ result' = IF verdict = "row" THEN "more" ELSE verdict
  /\ UNCHANGED <<table, ops, format, cursor, w, call, stream, cut, size>>

TurtleStep(r) ==
  CASE r.state = "initial" -> InInitial(r)
    [] r.state = "graph" -> InGraph(r)
    [] r.state = "subject" -> InSubject(r)
    [] r.state = "predicate" -> InPredicate(r)
    [] r.state = "object" -> InObject(r)
    [] r.state = "step" -> InStep(r)

\* A step with the buffer full, or at the end of the stream; a failure of the stream comes
\* with the first attempt to top the buffer up.
IterateNext ==
  LET r == TurtleStep([reader EXCEPT !.buffer = AdvanceWhitespaceAndComments(@), !.verdict = "more"])
  IN  /\ format \in Streaming /\ result = "more" /\ call = 0
      /\ IF Asks > 0 /\ stream = "failed" THEN Yields(reader, << >>, "error")
         ELSE (Asks <= 0 \/ stream = "eof") /\ Yields(r, TurtleColumns(r), r.verdict)

Loaded == result = "more" /\ call = 0 /\ stream # "open"

JsonNext ==
  /\ format = "json" /\ Loaded
  /\ LET r == [reader EXCEPT !.idx = @ + 1]
     IN  IF stream = "failed" \/ ~JsonComplete(reader.nodes) THEN Yields(reader, << >>, "error")
         ELSE IF r.idx > Len(JsonResults(reader.nodes)) THEN Yields(r, << >>, "end")
         ELSE Yields(r, JsonColumns(reader.nodes, r.idx), "row")

JsonLdNext ==
  /\ format = "jsonld" /\ Loaded
  /\ LET r == [reader EXCEPT !.idx = @ + 1]
     IN  IF stream = "failed" \/ ~JsonLdComplete(reader.nodes) THEN Yields(reader, << >>, "error")
         ELSE IF r.idx > Len(JsonLdRows(reader.nodes)) THEN Yields(r, << >>, "end")
         ELSE Yields(r, JsonLdRows(reader.nodes)[r.idx], "row")

\* The head is parsed first, and its error is kept for the first row.
XmlStep ==
  /\ format = "xml" /\ Loaded
  /\ LET x == IF reader.columns = << >> THEN XmlParseHead(reader) ELSE reader
         r == IF x.verdict = "error" THEN x ELSE XmlNext(x)
     IN  Yields(r, r.row, r.verdict)

Next ==
  \/ \E o \in Operations : Build(o)
  \/ \E s \in Sources, fails \in {0} \union Failures : Transfer(s, fails)
  \/ \E d \in Documents : ReadDocument(d)
  \/ StartRead \/ SerializeRow \/ SerializeEnd \/ SerializeFails \/ ReturnRead \/ Cut
  \/ IterateNext \/ JsonNext \/ JsonLdNext \/ XmlStep

Spec == Init /\ [][Next]_vars
=============================================================================
