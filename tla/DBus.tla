-------------------------------- MODULE DBus --------------------------------
(* What the endpoints and their clients use of the session bus and of the     *)
(* kernel: method calls that reach a service in the order they were sent, one *)
(* answer for each of them, and a pipe for each call that carries a request   *)
(* or its result, of which the bus passes one end to the service.  The bus    *)
(* and the pipes are not part of the source tree.                             *)
EXTENDS Naturals, Sequences

CONSTANTS Calls,       \* the method calls a behaviour may contain
          Sites,       \* the processes that own a name on the bus
          PipeSize     \* the tokens a pipe holds before its writer has to wait

ASSUME PipeSizeAssumption == PipeSize \in Nat \ {0}

VARIABLES mail,        \* per site, the calls sent and not handled yet, in order
          reply,       \* per call, its answer, or "none" while it has none
          pipe,        \* per call, its pipe: the tokens in it and its open ends
          sent,        \* per call, what its message says: method, path, text, arguments
          up           \* the sites whose process is running

busVars == <<mail, reply, pipe, sent, up>>

NoPipe == [data |-> <<>>, writer |-> FALSE, reader |-> FALSE]

NoText == [prologue |-> <<>>, sparql |-> "none"]

NoMessage == [method |-> "none", path |-> "none", text |-> NoText, args |-> {}]

(* The calls whose pipe the client writes and the service reads.              *)
Uploads == {"update", "blank", "array", "deserialize"}
Downloads == {"query", "serialize"}

BusInit ==
  /\ mail = [s \in Sites |-> <<>>]
  /\ reply = [c \in Calls |-> "none"]
  /\ pipe = [c \in Calls |-> NoPipe]
  /\ sent = [c \in Calls |-> NoMessage]
  /\ up = Sites

(* A call is sent together with one end of a new pipe.  A name that nobody    *)
(* owns answers at once, and the end that was passed is closed with the       *)
(* message: the reading end of a pipe the client writes, or the other way.    *)
SendCall(c, site, message) ==
  LET alive == site \in up IN
  /\ sent' = [sent EXCEPT ![c] = message]
  /\ pipe' = [pipe EXCEPT ![c] =
                 [data   |-> <<>>,
                  writer |-> message.method \in Uploads
                             \/ (alive /\ message.method \in Downloads),
                  reader |-> message.method \in Downloads
                             \/ (alive /\ message.method \in Uploads)]]
  /\ mail' = IF alive THEN [mail EXCEPT ![site] = Append(@, c)] ELSE mail
  /\ reply' = [reply EXCEPT ![c] = IF alive THEN @ ELSE "unknown service"]
  /\ UNCHANGED up

Delivered(site) == mail' = [mail EXCEPT ![site] = Tail(@)]

(* The answer of an invocation: a second one is dropped with a warning.       *)
Answered(c, answer) ==
  reply' = [reply EXCEPT ![c] = IF @ = "none" THEN answer ELSE @]

CanWrite(c) == pipe[c].reader /\ Len(pipe[c].data) < PipeSize
Broken(c) == ~pipe[c].reader
EndOfStream(c) == pipe[c].data = <<>> /\ ~pipe[c].writer

Written(c, token) == pipe' = [pipe EXCEPT ![c].data = Append(@, token)]
Consumed(c) == pipe' = [pipe EXCEPT ![c].data = Tail(@)]
WriterClosed(c) == pipe' = [pipe EXCEPT ![c].writer = FALSE]
ServiceEndClosed(c) ==
  pipe' = IF sent[c].method \in Uploads THEN [pipe EXCEPT ![c].reader = FALSE]
          ELSE [pipe EXCEPT ![c].writer = FALSE]
ReaderClosed(c) == pipe' = [pipe EXCEPT ![c].reader = FALSE]

(* A process dies: its name leaves the bus, the calls it had not answered end *)
(* with an error, and the kernel closes every end of a pipe it held, those    *)
(* of calls that were still in its mailbox included.                          *)
Vanished(site, pending, writes, reads) ==
  /\ up' = up \ {site}
  /\ mail' = [mail EXCEPT ![site] = <<>>]
  /\ reply' = [c \in Calls |-> IF c \in pending /\ reply[c] = "none"
                               THEN "no reply" ELSE reply[c]]
  /\ pipe' = [c \in Calls |->
                [pipe[c] EXCEPT !.writer = @ /\ c \notin writes,
                                !.reader = @ /\ c \notin reads]]
  /\ UNCHANGED sent
=============================================================================
