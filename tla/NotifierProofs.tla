--------------------------- MODULE NotifierProofs ---------------------------
(***************************************************************************)
(* Theorems about Notifier, for any resources, graphs and number of slots. *)
(* The batches on their way form one line: emitted, idle, the one whose    *)
(* URIs are asked for, queue.  IInv says that the line is in the order of  *)
(* flushing, and how the flag, the query and the queue go together.        *)
(***************************************************************************)
EXTENDS Notifier, SequenceTheorems, TLAPS

Before(S, T) == \A a \in S, b \in T : a < b
Rising(s) == \A i, k \in DOMAIN s : i < k => s[i].n < s[k].n

\* The place of the batch whose query is under way.
Asked == IF stage \in Asking THEN {current.n} ELSE {}

\* The types of the variables of the pipeline.
PipeType ==
  /\ querying \in BOOLEAN /\ stage \in Asking \cup {"none", "handed"}
  /\ IF stage \in Asking THEN current \in Batch ELSE current = None
  /\ queue \in Seq(Batch) /\ idle \in Seq(Batch) /\ emitted \in Seq(Batch)
  /\ flushed \in Nat /\ faults \in Nat /\ urnQuery \in BOOLEAN

Events == Seq([id : Resource, type : Kind])

\* The types of the other variables.
DataType ==
  /\ types \in [Pair -> SUBSET Class] /\ work \in [Pair -> SUBSET Class]
  /\ tx \in {"none", "open", "flushing"} /\ touched \subseteq Pair
  /\ parted \subseteq touched
  /\ caches \in [Graph -> {None} \cup Events]
  /\ attached \in BOOLEAN /\ stopped \in BOOLEAN /\ alive \in BOOLEAN
  /\ changes \in Nat /\ signals \in Nat

\* The flag is up while a query is under way, and nothing waits when it is not.
Flag ==
  /\ stage # "none" => querying
  /\ querying => urnQuery
  /\ ~querying => queue = << >>

\* The line of batches is in the order of flushing.
Line ==
  /\ Rising(emitted) /\ Rising(idle) /\ Rising(queue)
  /\ Before(Serials(emitted), Serials(idle) \cup Asked \cup Serials(queue))
  /\ Before(Serials(idle), Asked \cup Serials(queue))
  /\ Before(Asked, Serials(queue))
  /\ Serials(emitted) \cup Serials(idle) \cup Asked \cup Serials(queue) \subseteq 1 .. flushed

\* Nothing leaves the query before all of it has been asked for.
Whole ==
  /\ stage \in Asking => current.first <= current.size
  /\ stage = "answered" => current.first = current.size
  /\ \A i \in DOMAIN queue : queue[i].first <= queue[i].size
  /\ urnQuery => /\ \A i \in DOMAIN idle : idle[i].first = idle[i].size
                 /\ \A i \in DOMAIN emitted : emitted[i].first = emitted[i].size

IInv == PipeType /\ Flag /\ Line /\ Whole

-----------------------------------------------------------------------------
(***************************************************************************)
(* Sequences of batches.                                                   *)
(***************************************************************************)
\* What Append does to a sequence of batches.
LEMMA AppendBatch ==
  ASSUME NEW s \in Seq(Batch), NEW b \in Batch
  PROVE  /\ Append(s, b) \in Seq(Batch)
         /\ Serials(Append(s, b)) = Serials(s) \cup {b.n}
         /\ Rising(s) /\ Before(Serials(s), {b.n}) => Rising(Append(s, b))
         /\ \A i \in DOMAIN Append(s, b) :
              Append(s, b)[i] = b \/ \E k \in DOMAIN s : Append(s, b)[i] = s[k]
<1> DEFINE t == Append(s, b)
<1>1. /\ t \in Seq(Batch) /\ Len(s) \in Nat
      /\ DOMAIN s = 1 .. Len(s) /\ DOMAIN t = 1 .. Len(s) + 1
      /\ \A i \in DOMAIN s : t[i] = s[i]
      /\ t[Len(s) + 1] = b
  OBVIOUS
<1> HIDE DEF t
<1>2. \A i \in DOMAIN t : i \in DOMAIN s \/ i = Len(s) + 1
  BY <1>1
<1>3. Serials(t) = Serials(s) \cup {b.n}
  <2>1. \A x \in Serials(t) : x \in Serials(s) \cup {b.n}
    BY <1>1, <1>2 DEF Serials
  <2>2. \A x \in Serials(s) : x \in Serials(t)
    BY <1>1 DEF Serials
  <2>3. b.n \in Serials(t)
    <3>1. Len(s) + 1 \in DOMAIN t
      BY <1>1
    <3>2. QED
      BY <3>1, <1>1 DEF Serials
  <2>4. QED
    BY <2>1, <2>2, <2>3
<1>4. ASSUME Rising(s), Before(Serials(s), {b.n}) PROVE Rising(t)
  <2>1. \A i \in DOMAIN s : s[i].n < b.n
    BY <1>4 DEF Before, Serials
  <2>2. QED
    BY <1>1, <1>2, <1>4, <2>1 DEF Rising
<1>5. \A i \in DOMAIN t : t[i] = b \/ \E k \in DOMAIN s : t[i] = s[k]
  BY <1>1, <1>2
<1>6. QED
  BY <1>1, <1>3, <1>4, <1>5 DEF t

\* What taking the first of a sequence of batches leaves.
LEMMA TakeBatch ==
  ASSUME NEW s \in Seq(Batch), s # << >>
  PROVE  /\ Head(s) \in Batch /\ Tail(s) \in Seq(Batch)
         /\ Serials(s) = Serials(Tail(s)) \cup {Head(s).n}
         /\ Rising(s) => Rising(Tail(s)) /\ Before({Head(s).n}, Serials(Tail(s)))
         /\ \E k \in DOMAIN s : Head(s) = s[k]
         /\ \A i \in DOMAIN Tail(s) : \E k \in DOMAIN s : Tail(s)[i] = s[k]
<1> DEFINE t == Tail(s)
<1>1. /\ t \in Seq(Batch) /\ Head(s) \in Batch
      /\ Len(s) \in Nat /\ Len(s) > 0 /\ DOMAIN s = 1 .. Len(s) /\ DOMAIN t = 1 .. Len(s) - 1
      /\ \A i \in DOMAIN t : t[i] = s[i + 1]
      /\ Head(s) = s[1]
  OBVIOUS
<1> HIDE DEF t
<1>2. 1 \in DOMAIN s /\ \A i \in DOMAIN t : i + 1 \in DOMAIN s /\ 1 < i + 1
  BY <1>1
<1>3. \A i \in DOMAIN s : i = 1 \/ (i - 1 \in DOMAIN t /\ t[i - 1] = s[i])
  BY <1>1
<1>4. Serials(s) = Serials(t) \cup {Head(s).n}
  <2>1. \A x \in Serials(s) : x \in Serials(t) \cup {Head(s).n}
    BY <1>1, <1>3 DEF Serials
  <2>2. \A x \in Serials(t) : x \in Serials(s)
    BY <1>1, <1>2 DEF Serials
  <2>3. Head(s).n \in Serials(s)
    BY <1>1, <1>2 DEF Serials
  <2>4. QED
    BY <2>1, <2>2, <2>3
<1>5. ASSUME Rising(s) PROVE Rising(t) /\ Before({Head(s).n}, Serials(t))
  <2>1. \A i \in DOMAIN t : s[1].n < t[i].n
    BY <1>1, <1>2, <1>5 DEF Rising
  <2>2. ASSUME NEW i \in DOMAIN t, NEW k \in DOMAIN t, i < k PROVE t[i].n < t[k].n
    <3>1. i + 1 \in DOMAIN s /\ k + 1 \in DOMAIN s /\ i + 1 < k + 1
      BY <1>1, <2>2
    <3>2. QED
      BY <1>1, <1>5, <3>1 DEF Rising
  <2>3. QED
    BY <1>1, <2>1, <2>2 DEF Rising, Before, Serials
<1>6. QED
  BY <1>1, <1>2, <1>4, <1>5 DEF t

-----------------------------------------------------------------------------
(***************************************************************************)
(* The invariant is inductive.                                             *)
(***************************************************************************)
LEMMA PipeInit == Init => IInv
<1> SUFFICES ASSUME Init PROVE IInv
  OBVIOUS
<1>1. << >> \in Seq(Batch) /\ DOMAIN << >> = {}
  OBVIOUS
<1>2. Serials(<< >>) = {} /\ Rising(<< >>)
  BY <1>1 DEF Serials, Rising
<1>3. QED
  BY <1>1, <1>2 DEF Init, IInv, PipeType, Flag, Line, Whole, Asked, Asking, Before

\* A batch that is flushed takes the last place of the line.
LEMMA FlushStep ==
  ASSUME IInv, NEW size \in Nat, FlushBatch(size), UNCHANGED <<state, faults>>
  PROVE  IInv'
<1> DEFINE b == [n |-> flushed + 1, size |-> size, first |-> 0]
<1> USE DEF state
<1>1. /\ b \in Batch /\ b.n = flushed + 1 /\ b.first = 0 /\ b.size = size
      /\ flushed' = flushed + 1 /\ flushed \in Nat /\ emitted' = emitted
  BY DEF FlushBatch, Batch, IInv, PipeType
<1> HIDE DEF b
<1>2. \A a \in 1 .. flushed : a < b.n
  BY <1>1
<1>3. CASE ~urnQuery
  <2>1. idle' = Append(idle, b) /\ UNCHANGED <<querying, current, stage, queue>>
    BY <1>3 DEF FlushBatch, b
  <2>2. ~querying /\ stage = "none" /\ queue = << >>
    BY <1>3 DEF IInv, Flag
  <2>3. Serials(queue) = {} /\ Serials(queue') = {} /\ Asked = {} /\ Asked' = {}
    BY <2>1, <2>2 DEF Serials, Asked, Asking
  <2>4. Before(Serials(idle), {b.n}) /\ Before(Serials(emitted), {b.n})
    BY <1>2 DEF IInv, Line, Before
  <2>5. idle \in Seq(Batch)
    BY DEF IInv, PipeType
  <2>6. idle' \in Seq(Batch) /\ Serials(idle') = Serials(idle) \cup {b.n} /\ Rising(idle')
    BY <1>1, <2>1, <2>4, <2>5, AppendBatch DEF IInv, Line
  <2>7. Line'
    BY <1>1, <2>1, <2>3, <2>4, <2>6 DEF IInv, Line, Before
  <2>8. PipeType' /\ Flag'
    BY <1>1, <2>1, <2>2, <2>6 DEF IInv, PipeType, Flag
  <2>9. Whole'
    BY <1>3, <2>1, <2>2 DEF IInv, Whole
  <2>10. QED
    BY <2>7, <2>8, <2>9 DEF IInv
<1>4. CASE urnQuery /\ querying
  <2>1. queue' = Append(queue, b) /\ UNCHANGED <<querying, current, stage, idle>>
    BY <1>4 DEF FlushBatch, b
  <2>2. Before(Serials(queue), {b.n}) /\ Before(Asked, {b.n})
        /\ Before(Serials(idle), {b.n}) /\ Before(Serials(emitted), {b.n})
    BY <1>2 DEF IInv, Line, Before
  <2>3. queue \in Seq(Batch)
    BY DEF IInv, PipeType
  <2>4. queue' \in Seq(Batch) /\ Serials(queue') = Serials(queue) \cup {b.n} /\ Rising(queue')
    BY <1>1, <2>1, <2>2, <2>3, AppendBatch DEF IInv, Line
  <2>5. Asked' = Asked
    BY <2>1 DEF Asked
  <2>6. Line'
    BY <1>1, <2>1, <2>2, <2>4, <2>5 DEF IInv, Line, Before
  <2>7. PipeType' /\ Flag'
    BY <1>1, <1>4, <2>1, <2>4 DEF IInv, PipeType, Flag
  <2>8. Whole'
    BY <1>1, <2>1 DEF IInv, Whole
  <2>9. QED
    BY <2>6, <2>7, <2>8 DEF IInv
<1>5. CASE urnQuery /\ ~querying
  <2>1. querying' = TRUE /\ current' = b /\ stage' = "executing" /\ UNCHANGED <<queue, idle>>
    BY <1>5 DEF FlushBatch, StartQuery, b
  <2>2. stage = "none" /\ queue = << >>
    BY <1>5 DEF IInv, Flag
  <2>3. Serials(queue) = {} /\ Serials(queue') = {} /\ Asked = {} /\ Asked' = {b.n}
    BY <2>1, <2>2 DEF Serials, Asked, Asking
  <2>4. Before(Serials(idle), {b.n}) /\ Before(Serials(emitted), {b.n})
    BY <1>2 DEF IInv, Line, Before
  <2>5. Line'
    BY <1>1, <2>1, <2>3, <2>4 DEF IInv, Line, Before
  <2>6. PipeType' /\ Flag'
    BY <1>1, <1>5, <2>1, <2>2 DEF IInv, Asking, PipeType, Flag
  <2>7. Whole'
    BY <1>1, <2>1 DEF IInv, Whole
  <2>8. QED
    BY <2>5, <2>6, <2>7 DEF IInv
<1>6. QED
  BY <1>3, <1>4, <1>5

\* The worker and the main context move batches along the line.
LEMMA QueryExecutedStep == IInv /\ QueryExecuted => IInv'
<1> SUFFICES ASSUME IInv, QueryExecuted PROVE IInv'
  OBVIOUS
<1>1. stage = "executing" /\ UNCHANGED <<state, querying, queue, idle, emitted, flushed>>
  BY DEF QueryExecuted
<1>2. PipeType'
  BY <1>1 DEF QueryExecuted, IInv, Asking, PipeType, state
<1>3. Flag' /\ Whole'
  BY <1>1 DEF QueryExecuted, IInv, Asking, Flag, Whole, state
<1>4. Asked' \subseteq Asked
  BY <1>1 DEF QueryExecuted, Asked, Asking
<1>5. Line'
  BY <1>1, <1>4 DEF IInv, Line, Before
<1>6. QED
  BY <1>2, <1>3, <1>5 DEF IInv

LEMMA ReadRowsStep == IInv /\ ReadRows => IInv'
<1> SUFFICES ASSUME IInv, ReadRows PROVE IInv'
  OBVIOUS
<1>1. /\ stage = "reading" /\ stage' = "read"
      /\ UNCHANGED <<state, querying, queue, idle, emitted, flushed>>
  BY DEF ReadRows
<1>2. PICK k \in 0 .. (IF current.size - current.first < Slots
                       THEN current.size - current.first ELSE Slots) :
        /\ faults' = (IF k < (IF current.size - current.first < Slots
                              THEN current.size - current.first ELSE Slots) /\ ~stopped
                      THEN faults + 1 ELSE faults)
        /\ current' = [current EXCEPT !.first = @ + k]
  BY DEF ReadRows
<1>3. current \in Batch /\ current.first <= current.size
  BY <1>1 DEF IInv, PipeType, Whole
<1>4. /\ current' \in Batch /\ current'.n = current.n
      /\ current'.first <= current'.size /\ faults' \in Nat
  <2>1. /\ current.first \in Nat /\ current.size \in Nat /\ current.n \in Nat
        /\ current = [n |-> current.n, size |-> current.size, first |-> current.first]
    BY <1>3 DEF Batch
  <2>2. k \in Nat /\ current.first + k <= current.size
    BY <1>3, <2>1, BoundsAssumption
  <2>3. current' = [n |-> current.n, size |-> current.size, first |-> current.first + k]
    BY <1>2, <2>1
  <2>4. faults' \in Nat
    BY <1>2 DEF IInv, PipeType
  <2>5. QED
    BY <2>1, <2>2, <2>3, <2>4 DEF Batch
<1>5. PipeType' /\ Flag' /\ Whole'
  BY <1>1, <1>4 DEF IInv, Asking, PipeType, Flag, Whole, state
<1>6. Asked' = Asked
  BY <1>1, <1>4 DEF Asked, Asking
<1>7. Line'
  BY <1>1, <1>6 DEF IInv, Line, Before
<1>8. QED
  BY <1>5, <1>7 DEF IInv

LEMMA ReadDoneStep == IInv /\ ReadDone => IInv'
<1> SUFFICES ASSUME IInv, ReadDone PROVE IInv'
  OBVIOUS
<1>1. stage = "read" /\ UNCHANGED <<state, querying, queue, idle, emitted, flushed, faults>>
  BY DEF ReadDone
<1>2. current \in Batch /\ current.first <= current.size /\ Asked = {current.n}
  BY <1>1 DEF IInv, PipeType, Whole, Asked, Asking
<1>3. CASE stopped \/ ~alive
  <2>1. current' = None /\ stage' = "none"
    BY <1>3 DEF ReadDone
  <2>2. Asked' = {}
    BY <2>1 DEF Asked, Asking
  <2>3. QED
    BY <1>1, <2>1, <2>2 DEF IInv, PipeType, Flag, Whole, Line, Before, Asking, state
<1>4. CASE ~(stopped \/ ~alive) /\ current.first < current.size
  <2>1. current' = current /\ stage' = "executing"
    BY <1>4 DEF ReadDone, StartQuery
  <2>2. Asked' = Asked
    BY <1>1, <2>1 DEF Asked, Asking
  <2>3. QED
    BY <1>1, <1>2, <2>1, <2>2 DEF IInv, PipeType, Flag, Whole, Line, Before, Asking, state
<1>5. CASE ~(stopped \/ ~alive) /\ ~(current.first < current.size)
  <2>1. current' = current /\ stage' = "answered" /\ current.first = current.size
    BY <1>2, <1>5 DEF ReadDone, Batch
  <2>2. Asked' = Asked
    BY <1>1, <2>1 DEF Asked, Asking
  <2>3. QED
    BY <1>1, <1>2, <2>1, <2>2 DEF IInv, PipeType, Flag, Whole, Line, Before, Asking, state
<1>6. QED
  BY <1>3, <1>4, <1>5

LEMMA HandOverStep == IInv /\ HandOver => IInv'
<1> SUFFICES ASSUME IInv, HandOver PROVE IInv'
  OBVIOUS
<1>1. /\ stage = "answered" /\ stage' = "handed" /\ current' = None
      /\ idle' = Append(idle, current)
      /\ UNCHANGED <<state, querying, queue, emitted, flushed, faults>>
  BY DEF HandOver
<1>2. /\ current \in Batch /\ current.first = current.size /\ querying /\ urnQuery
      /\ idle \in Seq(Batch) /\ Asked = {current.n} /\ Asked' = {}
  BY <1>1 DEF IInv, PipeType, Whole, Flag, Asked, Asking
<1>3. Before(Serials(idle), {current.n})
  BY <1>2 DEF IInv, Line, Before
<1>4. /\ idle' \in Seq(Batch) /\ Serials(idle') = Serials(idle) \cup {current.n}
      /\ Rising(idle')
      /\ \A i \in DOMAIN idle' : idle'[i] = current \/ \E k \in DOMAIN idle : idle'[i] = idle[k]
  BY <1>1, <1>2, <1>3, AppendBatch DEF IInv, Line
<1>5. Line'
  BY <1>1, <1>2, <1>4 DEF IInv, Line, Before
<1>6. Whole'
  BY <1>1, <1>2, <1>4 DEF IInv, Whole, Asking
<1>7. PipeType' /\ Flag'
  BY <1>1, <1>2, <1>4 DEF IInv, PipeType, Flag, Asking, state
<1>8. QED
  BY <1>5, <1>6, <1>7 DEF IInv

LEMMA TakeNextStep == IInv /\ TakeNext => IInv'
<1> SUFFICES ASSUME IInv, TakeNext PROVE IInv'
  OBVIOUS
<1>1. stage = "handed" /\ UNCHANGED <<state, idle, emitted, flushed, faults>>
  BY DEF TakeNext
<1>2. current = None /\ querying /\ urnQuery /\ queue \in Seq(Batch) /\ Asked = {}
  BY <1>1 DEF IInv, PipeType, Flag, Asked, Asking
<1>3. CASE queue = << >>
  <2>1. querying' = FALSE /\ stage' = "none" /\ UNCHANGED <<current, queue>>
    BY <1>3 DEF TakeNext
  <2>2. Asked' = {}
    BY <2>1 DEF Asked, Asking
  <2>3. Line'
    BY <1>1, <1>2, <2>1, <2>2 DEF IInv, Line, Before
  <2>4. QED
    BY <1>1, <1>2, <1>3, <2>1, <2>3 DEF IInv, PipeType, Flag, Whole, Asking, state
<1>4. CASE queue # << >>
  <2>1. /\ current' = Head(queue) /\ stage' = "executing"
        /\ queue' = Tail(queue) /\ querying' = querying
    BY <1>4 DEF TakeNext, StartQuery
  <2>2. /\ Head(queue) \in Batch /\ Tail(queue) \in Seq(Batch)
        /\ Serials(queue) = Serials(queue') \cup {current'.n}
        /\ Rising(queue') /\ Before({current'.n}, Serials(queue'))
    BY <1>2, <1>4, <2>1, TakeBatch DEF IInv, Line
  <2>3. Asked' = {current'.n}
    BY <2>1 DEF Asked, Asking
  <2>4. Line'
    BY <1>1, <1>2, <2>1, <2>2, <2>3 DEF IInv, Line, Before
  <2>5. /\ current'.first <= current'.size
        /\ \A i \in DOMAIN queue' : queue'[i].first <= queue'[i].size
    BY <1>2, <1>4, <2>1, TakeBatch DEF IInv, Whole
  <2>6. Whole'
    BY <1>1, <2>1, <2>5 DEF IInv, Whole, Asking, state
  <2>7. QED
    BY <1>1, <1>2, <2>1, <2>2, <2>4, <2>6 DEF IInv, PipeType, Flag, Asking, state
<1>5. QED
  BY <1>3, <1>4

LEMMA EmitEventsStep == IInv /\ EmitEvents => IInv'
<1> SUFFICES ASSUME IInv, EmitEvents PROVE IInv'
  OBVIOUS
<1>1. /\ idle # << >> /\ idle' = Tail(idle)
      /\ UNCHANGED <<state, querying, current, stage, queue, flushed, faults>>
  BY DEF EmitEvents
<1>2. idle \in Seq(Batch) /\ emitted \in Seq(Batch)
  BY DEF IInv, PipeType
<1>3. /\ Head(idle) \in Batch /\ idle' \in Seq(Batch)
      /\ Serials(idle) = Serials(idle') \cup {Head(idle).n}
      /\ Rising(idle') /\ Before({Head(idle).n}, Serials(idle'))
      /\ urnQuery => /\ Head(idle).first = Head(idle).size
                     /\ \A i \in DOMAIN idle' : idle'[i].first = idle'[i].size
  <2>1. Rising(idle) /\ (urnQuery => \A i \in DOMAIN idle : idle[i].first = idle[i].size)
    BY DEF IInv, Line, Whole
  <2>2. QED
    BY <1>1, <1>2, <2>1, TakeBatch
<1>4. Asked' = Asked
  BY <1>1 DEF Asked
<1>5. CASE ~alive
  <2>1. emitted' = emitted
    BY <1>5 DEF EmitEvents
  <2>2. Line'
    BY <1>1, <1>3, <1>4, <2>1 DEF IInv, Line, Before
  <2>3. QED
    BY <1>1, <1>3, <2>1, <2>2 DEF IInv, PipeType, Flag, Whole, state
<1>6. CASE alive
  <2>1. emitted' = Append(emitted, Head(idle))
    BY <1>6 DEF EmitEvents
  <2>2. Before(Serials(emitted), {Head(idle).n})
    BY <1>3 DEF IInv, Line, Before
  <2>3. /\ emitted' \in Seq(Batch) /\ Serials(emitted') = Serials(emitted) \cup {Head(idle).n}
        /\ Rising(emitted')
        /\ \A i \in DOMAIN emitted' :
             emitted'[i] = Head(idle) \/ \E k \in DOMAIN emitted : emitted'[i] = emitted[k]
    BY <1>2, <1>3, <2>1, <2>2, AppendBatch DEF IInv, Line
  <2>4. Line'
    BY <1>1, <1>3, <1>4, <2>3 DEF IInv, Line, Before
  <2>5. Whole'
    BY <1>1, <1>3, <2>3 DEF IInv, Whole, state
  <2>6. QED
    BY <1>1, <1>3, <2>3, <2>4, <2>5 DEF IInv, PipeType, Flag, state
<1>7. QED
  BY <1>5, <1>6

\* A statement leaves alone all but the data of its transaction.
LEMMA StatementFrame ==
  Statement => tx = "open" /\ UNCHANGED <<types, tx, state, pipe, signals, faults>>
<1>1. ASSUME NEW g, NEW r, NEW C, NEW D, NEW c, NEW kind, Change(g, r, C, D, c, kind)
      PROVE  tx = "open" /\ UNCHANGED <<types, tx, state, pipe, signals, faults>>
  BY <1>1 DEF Change
<1>2. QED
  BY <1>1 DEF Statement, InsertType, DeleteType, ChangeValue

\* A step that leaves the pipeline alone.
LEMMA OtherStep == IInv /\ UNCHANGED <<pipe, urnQuery, faults>> => IInv'
<1> SUFFICES ASSUME IInv, UNCHANGED <<pipe, urnQuery, faults>> PROVE IInv'
  OBVIOUS
<1>1. UNCHANGED <<querying, current, stage, queue, idle, emitted, flushed, urnQuery, faults>>
  BY DEF pipe
<1>2. Asked' = Asked /\ Serials(queue)' = Serials(queue) /\ Serials(idle)' = Serials(idle)
      /\ Serials(emitted)' = Serials(emitted)
  BY <1>1 DEF Asked, Serials
<1>3. PipeType' /\ Flag' /\ Whole'
  BY <1>1 DEF IInv, PipeType, Flag, Whole
<1>4. Line'
  BY <1>1, <1>2 DEF IInv, Line, Rising, Before
<1>5. QED
  BY <1>3, <1>4 DEF IInv

LEMMA InvStep == DataType /\ IInv /\ [Next]_vars => IInv'
<1> SUFFICES ASSUME DataType, IInv, [Next]_vars PROVE IInv'
  OBVIOUS
<1>1. CASE Begin \/ Commit \/ Rollback \/ EndCommit
  BY <1>1, OtherStep DEF Begin, Commit, Rollback, EndCommit, state
<1>2. CASE Statement
  <2>1. UNCHANGED <<pipe, state, faults>>
    BY <1>2, StatementFrame
  <2>2. QED
    BY <2>1, OtherStep DEF state
<1>3. ASSUME NEW g \in Graph, FlushCache(g) PROVE IInv'
  <2>1. UNCHANGED <<state, faults>>
    BY <1>3 DEF FlushCache
  <2>2. CASE caches[g] = << >>
    BY <1>3, <2>1, <2>2, OtherStep DEF FlushCache, state
  <2>3. CASE caches[g] # << >>
    <3>1. FlushBatch(Len(caches[g]))
      BY <1>3, <2>3 DEF FlushCache
    <3>2. Len(caches[g]) \in Nat
      BY <1>3, <2>3 DEF FlushCache, DataType, Events
    <3>3. QED
      BY <2>1, <3>1, <3>2, FlushStep
  <2>4. QED
    BY <2>2, <2>3
<1>4. CASE GraphUpdated
  <2>1. PICK size \in 1 .. MaxEvents : FlushBatch(size)
    BY <1>4 DEF GraphUpdated
  <2>2. size \in Nat /\ UNCHANGED <<state, faults>>
    BY <1>4, BoundsAssumption DEF GraphUpdated
  <2>3. QED
    BY <2>1, <2>2, FlushStep
<1>5. CASE Worker
  BY <1>5, QueryExecutedStep, ReadRowsStep, ReadDoneStep, HandOverStep, TakeNextStep
     DEF Worker
<1>6. CASE EmitEvents
  BY <1>6, EmitEventsStep
<1>7. CASE Stop \/ RemoveCallbacks \/ Finalize
  BY <1>7, OtherStep DEF Stop, RemoveCallbacks, Finalize
<1>8. CASE UNCHANGED vars
  BY <1>8, OtherStep DEF vars, state
<1>9. QED
  BY <1>1, <1>2, <1>3, <1>4, <1>5, <1>6, <1>7, <1>8 DEF Next, Flushing

-----------------------------------------------------------------------------
(***************************************************************************)
(* The data, and the cache of events.                                      *)
(***************************************************************************)
\* A function on the places of a sequence is a sequence.
LEMMA SameDomain ==
  ASSUME NEW S, NEW s \in Seq(S), NEW f \in [DOMAIN s -> S]
  PROVE  f \in Seq(S)
<1>1. DOMAIN s = 1 .. Len(s) /\ Len(s) \in Nat
  OBVIOUS
<1>2. QED
  BY <1>1, SeqDef

\* The elements of a sequence.
LEMMA Elements ==
  ASSUME NEW S, NEW s \in Seq(S)
  PROVE  \A i \in DOMAIN s : s[i] \in S
  OBVIOUS

\* A cache of events remains one.
LEMMA PushType ==
  ASSUME NEW events \in Events, NEW r \in Resource, NEW kind \in Kind
  PROVE  Push(events, r, kind) \in Events
<1> DEFINE Event == [id : Resource, type : Kind]
           e == [id |-> r, type |-> kind]
           f == [i \in DOMAIN events |-> IF events[i].id = r /\ kind # "UPDATE"
                                         THEN e ELSE events[i]]
<1>1. e \in Event /\ events \in Seq(Event)
  BY DEF Events
<1>2. Push(events, r, kind) \in {f, Append(events, e)}
  BY DEF Push
<1> HIDE DEF Event, e
<1>3. \A i \in DOMAIN events : events[i] \in Event
  BY <1>1, Elements
<1>4. f \in [DOMAIN events -> Event]
  BY <1>1, <1>3
<1> HIDE DEF f
<1>5. f \in Seq(Event) /\ Append(events, e) \in Seq(Event)
  BY <1>1, <1>4, SameDomain
<1>6. QED
  BY <1>2, <1>5 DEF Events, Event

LEMMA PushedType ==
  ASSUME NEW events \in {None} \cup Events, NEW r \in Resource, NEW C, NEW c,
         NEW kind \in Kind
  PROVE  Pushed(events, r, C, c, kind) \in Events
<1> DEFINE old == IF events = None THEN << >> ELSE events
<1>1. old \in Events /\ "UPDATE" \in Kind
  BY DEF Events, Kind
<1>2. Pushed(events, r, C, c, kind) \in {Push(old, r, kind), Push(old, r, "UPDATE"), old}
  BY DEF Pushed
<1> HIDE DEF old
<1>3. Push(old, r, kind) \in Events /\ Push(old, r, "UPDATE") \in Events
  BY <1>1, PushType
<1>4. QED
  BY <1>1, <1>2, <1>3

LEMMA DataInit == Init => DataType
<1> SUFFICES ASSUME Init PROVE DataType
  OBVIOUS
<1>1. types \in [Pair -> SUBSET Class] /\ work \in [Pair -> SUBSET Class]
  BY DEF Init
<1>2. caches \in [Graph -> {None} \cup Events]
  BY DEF Init
<1>3. QED
  BY <1>1, <1>2 DEF Init, DataType

LEMMA ChangeType ==
  ASSUME DataType, NEW g \in Graph, NEW r \in Resource, NEW C \in SUBSET Class, NEW D,
         NEW c, NEW kind \in Kind, Change(g, r, C, D, c, kind)
  PROVE  DataType'
<1>1. Pushed(caches[g], r, D, c, kind) \in Events
  BY PushedType DEF DataType
<1>2. caches' \in [Graph -> {None} \cup Events]
  BY <1>1 DEF Change, DataType
<1>3. <<g, r>> \in Pair
  BY DEF Pair
<1>4. /\ work' \in [Pair -> SUBSET Class] /\ changes' \in Nat
      /\ touched' \subseteq Pair /\ parted' \subseteq touched'
  BY <1>3 DEF Change, DataType
<1>5. QED
  BY <1>2, <1>4 DEF Change, DataType, state

LEMMA DataStep == DataType /\ [Next]_vars => DataType'
<1> SUFFICES ASSUME DataType, [Next]_vars PROVE DataType'
  OBVIOUS
<1>1. CASE Begin \/ Commit \/ Rollback \/ EndCommit
  BY <1>1 DEF Begin, Commit, Rollback, EndCommit, DataType, state
<1>2. CASE Statement
  <2> SUFFICES ASSUME NEW g \in Graph, NEW r \in Resource,
                      \/ \E c \in Class : InsertType(g, r, c) \/ DeleteType(g, r, c)
                      \/ ChangeValue(g, r)
               PROVE  DataType'
    BY <1>2 DEF Statement
  <2>1. work[<<g, r>>] \in SUBSET Class /\ {"CREATE", "UPDATE", "DELETE"} \subseteq Kind
    BY DEF DataType, Pair, Kind
  <2>2. ASSUME NEW c \in Class, InsertType(g, r, c) PROVE DataType'
    BY <2>1, <2>2, ChangeType DEF InsertType
  <2>3. ASSUME NEW c \in Class, DeleteType(g, r, c) PROVE DataType'
    BY <2>1, <2>3, ChangeType DEF DeleteType
  <2>4. CASE ChangeValue(g, r)
    BY <2>1, <2>4, ChangeType DEF ChangeValue
  <2>5. QED
    BY <2>2, <2>3, <2>4
<1>3. ASSUME NEW g \in Graph, FlushCache(g) PROVE DataType'
  BY <1>3 DEF FlushCache, DataType, state
<1>4. CASE GraphUpdated
  BY <1>4 DEF GraphUpdated, DataType, data, state
<1>5. CASE Worker
  BY <1>5 DEF Worker, QueryExecuted, ReadRows, ReadDone, HandOver, TakeNext, DataType,
              data, state
<1>6. CASE EmitEvents
  BY <1>6 DEF EmitEvents, DataType, data, state
<1>7. CASE Stop \/ RemoveCallbacks \/ Finalize
  BY <1>7 DEF Stop, RemoveCallbacks, Finalize, DataType, data
<1>8. CASE UNCHANGED vars
  BY <1>8 DEF vars, DataType, data, state
<1>9. QED
  BY <1>1, <1>2, <1>3, <1>4, <1>5, <1>6, <1>7, <1>8 DEF Next, Flushing

-----------------------------------------------------------------------------
(***************************************************************************)
(* No batch is lost.                                                       *)
(***************************************************************************)
Kept == Serials(queue) \cup Serials(idle) \cup Serials(emitted) \cup Asked

\* Where a flushed batch goes.
LEMMA FlushKeeps ==
  ASSUME IInv, NothingLost, NEW size \in Nat, FlushBatch(size), UNCHANGED <<state, faults>>
  PROVE  NothingLost'
<1> DEFINE b == [n |-> flushed + 1, size |-> size, first |-> 0]
<1>1. /\ b \in Batch /\ b.n = flushed + 1 /\ flushed' = flushed + 1 /\ flushed \in Nat
      /\ emitted' = emitted /\ queue \in Seq(Batch) /\ idle \in Seq(Batch)
  BY DEF FlushBatch, Batch, IInv, PipeType
<1>2. Kept \cup {b.n} \subseteq Kept'
  <2>1. CASE ~urnQuery
    <3>1. idle' = Append(idle, b) /\ UNCHANGED <<querying, current, stage, queue>>
      BY <2>1 DEF FlushBatch
    <3>2. Serials(idle') = Serials(idle) \cup {b.n}
      BY <1>1, <3>1, AppendBatch
    <3>3. QED
      BY <1>1, <3>1, <3>2 DEF Kept, Asked
  <2>2. CASE urnQuery /\ querying
    <3>1. queue' = Append(queue, b) /\ UNCHANGED <<querying, current, stage, idle>>
      BY <2>2 DEF FlushBatch
    <3>2. Serials(queue') = Serials(queue) \cup {b.n}
      BY <1>1, <3>1, AppendBatch
    <3>3. QED
      BY <1>1, <3>1, <3>2 DEF Kept, Asked
  <2>3. CASE urnQuery /\ ~querying
    <3>1. current' = b /\ stage' = "executing" /\ UNCHANGED <<queue, idle>>
      BY <2>3 DEF FlushBatch, StartQuery
    <3>2. Asked = {} /\ Asked' = {b.n}
      BY <2>3, <3>1 DEF Asked, Asking, IInv, Flag
    <3>3. QED
      BY <1>1, <3>1, <3>2 DEF Kept
  <2>4. QED
    BY <2>1, <2>2, <2>3
<1> HIDE DEF b
<1>3. 1 .. flushed' \subseteq (1 .. flushed) \cup {b.n}
  BY <1>1
<1>4. QED
  BY <1>2, <1>3 DEF NothingLost, Kept, Asked, state

LEMMA ReadDoneKeeps == IInv /\ NothingLost /\ ReadDone => NothingLost'
<1> SUFFICES ASSUME IInv, NothingLost, ReadDone PROVE NothingLost'
  OBVIOUS
<1>1. stage = "read" /\ UNCHANGED <<state, queue, idle, emitted, flushed, faults>>
  BY DEF ReadDone
<1>2. CASE stopped \/ ~alive
  BY <1>1, <1>2 DEF NothingLost, state
<1>3. CASE ~(stopped \/ ~alive)
  <2>1. current' = current /\ stage' \in {"executing", "answered"}
    BY <1>3 DEF ReadDone, StartQuery
  <2>2. QED
    BY <1>1, <2>1 DEF NothingLost, Asking, state
<1>4. QED
  BY <1>2, <1>3

LEMMA HandOverKeeps == IInv /\ NothingLost /\ HandOver => NothingLost'
<1> SUFFICES ASSUME IInv, NothingLost, HandOver PROVE NothingLost'
  OBVIOUS
<1>1. /\ stage = "answered" /\ idle' = Append(idle, current)
      /\ UNCHANGED <<state, queue, emitted, flushed, faults>>
  BY DEF HandOver
<1>2. current \in Batch /\ idle \in Seq(Batch) /\ Asked = {current.n}
  BY <1>1 DEF IInv, PipeType, Asked, Asking
<1>3. Serials(idle') = Serials(idle) \cup {current.n}
  BY <1>1, <1>2, AppendBatch
<1>4. Kept \subseteq Kept'
  BY <1>1, <1>2, <1>3 DEF Kept
<1>5. QED
  BY <1>1, <1>4 DEF NothingLost, Kept, Asked, state

LEMMA TakeNextKeeps == IInv /\ NothingLost /\ TakeNext => NothingLost'
<1> SUFFICES ASSUME IInv, NothingLost, TakeNext PROVE NothingLost'
  OBVIOUS
<1>1. stage = "handed" /\ UNCHANGED <<state, idle, emitted, flushed, faults>>
  BY DEF TakeNext
<1>2. Asked = {} /\ queue \in Seq(Batch)
  BY <1>1 DEF IInv, PipeType, Asked, Asking
<1>3. Serials(queue) \subseteq Serials(queue') \cup Asked'
  <2>1. CASE queue = << >>
    BY <2>1 DEF Serials
  <2>2. CASE queue # << >>
    <3>1. current' = Head(queue) /\ stage' = "executing" /\ queue' = Tail(queue)
      BY <2>2 DEF TakeNext, StartQuery
    <3>2. Serials(queue) = Serials(queue') \cup {current'.n}
      BY <1>2, <2>2, <3>1, TakeBatch
    <3>3. QED
      BY <3>1, <3>2 DEF Asked, Asking
  <2>3. QED
    BY <2>1, <2>2
<1>4. Kept \subseteq Kept'
  BY <1>1, <1>2, <1>3 DEF Kept
<1>5. QED
  BY <1>1, <1>4 DEF NothingLost, Kept, Asked, state

LEMMA EmitEventsKeeps == IInv /\ NothingLost /\ EmitEvents => NothingLost'
<1> SUFFICES ASSUME IInv, NothingLost, EmitEvents PROVE NothingLost'
  OBVIOUS
<1>1. /\ idle # << >> /\ idle' = Tail(idle)
      /\ UNCHANGED <<state, querying, current, stage, queue, flushed, faults>>
  BY DEF EmitEvents
<1>2. idle \in Seq(Batch) /\ emitted \in Seq(Batch)
  BY DEF IInv, PipeType
<1>3. CASE ~alive
  BY <1>1, <1>3 DEF NothingLost, state
<1>4. CASE alive
  <2>1. Head(idle) \in Batch /\ Serials(idle) = Serials(idle') \cup {Head(idle).n}
    BY <1>1, <1>2, TakeBatch
  <2>2. emitted' = Append(emitted, Head(idle))
    BY <1>4 DEF EmitEvents
  <2>3. Serials(emitted') = Serials(emitted) \cup {Head(idle).n}
    BY <1>2, <2>1, <2>2, AppendBatch
  <2>4. QED
    BY <1>1, <2>1, <2>3 DEF NothingLost, state
<1>5. QED
  BY <1>3, <1>4

\* A step that moves no batch, and perhaps stops or drops the notifier.
LEMMA OtherKeeps ==
  ASSUME NothingLost, UNCHANGED <<pipe, faults>>,
         stopped => stopped', ~alive => ~alive', faults \in Nat
  PROVE  NothingLost'
<1>1. UNCHANGED <<current, stage, queue, idle, emitted, flushed, faults>>
  BY DEF pipe
<1>2. Serials(queue)' = Serials(queue) /\ Serials(idle)' = Serials(idle)
      /\ Serials(emitted)' = Serials(emitted)
  BY <1>1 DEF Serials
<1>3. QED
  BY <1>1, <1>2 DEF NothingLost

LEMMA KeepsStep == DataType /\ IInv /\ NothingLost /\ [Next]_vars => NothingLost'
<1> SUFFICES ASSUME DataType, IInv, NothingLost, [Next]_vars PROVE NothingLost'
  OBVIOUS
<1>0. faults \in Nat
  BY DEF IInv, PipeType
<1>1. CASE Begin \/ Commit \/ Rollback \/ EndCommit
  <2>1. UNCHANGED <<pipe, faults, stopped, alive>>
    BY <1>1 DEF Begin, Commit, Rollback, EndCommit, state
  <2>2. QED
    BY <1>0, <2>1, OtherKeeps
<1>2. CASE Statement
  <2>1. UNCHANGED <<pipe, faults, stopped, alive>>
    BY <1>2, StatementFrame DEF state
  <2>2. QED
    BY <1>0, <2>1, OtherKeeps
<1>3. ASSUME NEW g \in Graph, FlushCache(g) PROVE NothingLost'
  <2>1. UNCHANGED <<state, faults>>
    BY <1>3 DEF FlushCache
  <2>2. CASE caches[g] = << >>
    BY <1>0, <1>3, <2>1, <2>2, OtherKeeps DEF FlushCache, state
  <2>3. CASE caches[g] # << >>
    <3>1. FlushBatch(Len(caches[g]))
      BY <1>3, <2>3 DEF FlushCache
    <3>2. Len(caches[g]) \in Nat
      BY <1>3, <2>3 DEF FlushCache, DataType, Events
    <3>3. QED
      BY <2>1, <3>1, <3>2, FlushKeeps
  <2>4. QED
    BY <2>2, <2>3
<1>4. CASE GraphUpdated
  <2>1. PICK size \in 1 .. MaxEvents : FlushBatch(size)
    BY <1>4 DEF GraphUpdated
  <2>2. size \in Nat /\ UNCHANGED <<state, faults>>
    BY <1>4, BoundsAssumption DEF GraphUpdated
  <2>3. QED
    BY <2>1, <2>2, FlushKeeps
<1>5. CASE QueryExecuted
  BY <1>0, <1>5 DEF QueryExecuted, NothingLost, Asking, state
<1>6. CASE ReadRows
  <2>1. /\ current \in Batch /\ stage = "reading" /\ stage' = "read"
        /\ UNCHANGED <<state, queue, idle, emitted, flushed>>
    BY <1>6 DEF ReadRows, IInv, PipeType
  <2>2. PICK k : current' = [current EXCEPT !.first = @ + k]
    BY <1>6 DEF ReadRows
  <2>3. current'.n = current.n
    BY <2>1, <2>2 DEF Batch
  <2>4. faults' \in {faults, faults + 1}
    BY <1>6 DEF ReadRows
  <2>5. QED
    BY <1>0, <2>1, <2>3, <2>4 DEF NothingLost, Asking, state
<1>7. CASE ReadDone \/ HandOver \/ TakeNext
  BY <1>7, ReadDoneKeeps, HandOverKeeps, TakeNextKeeps
<1>8. CASE EmitEvents
  BY <1>8, EmitEventsKeeps
<1>9. CASE Stop \/ RemoveCallbacks \/ Finalize
  BY <1>0, <1>9, OtherKeeps DEF Stop, RemoveCallbacks, Finalize
<1>10. CASE UNCHANGED vars
  BY <1>0, <1>10, OtherKeeps DEF vars, state
<1>11. QED
  BY <1>1, <1>2, <1>3, <1>4, <1>5, <1>6, <1>7, <1>8, <1>9, <1>10
     DEF Next, Flushing, Worker

-----------------------------------------------------------------------------
(***************************************************************************)
(* What is still emitted once the callbacks are removed.                   *)
(***************************************************************************)
\* Callbacks are removed only from a stopped notifier, and not while a commit
\* flushes its caches.
Detached == ~attached => stopped /\ tx # "flushing"

LEMMA DetachedInit == Init => Detached
  BY DEF Init, Detached

LEMMA DetachedStep == Detached /\ [Next]_vars => Detached'
<1> SUFFICES ASSUME Detached, [Next]_vars PROVE Detached'
  OBVIOUS
<1>1. CASE Begin \/ Commit \/ Rollback \/ Flushing
  BY <1>1 DEF Begin, Commit, Rollback, Flushing, FlushCache, EndCommit, Detached, state
<1>2. CASE Statement
  <2>1. UNCHANGED <<tx, state>>
    BY <1>2, StatementFrame
  <2>2. QED
    BY <2>1 DEF Detached, state
<1>3. CASE GraphUpdated \/ Worker \/ EmitEvents
  BY <1>3 DEF GraphUpdated, Worker, QueryExecuted, ReadRows, ReadDone, HandOver, TakeNext,
              EmitEvents, Detached, data, state
<1>4. CASE Stop \/ RemoveCallbacks \/ Finalize
  BY <1>4 DEF Stop, RemoveCallbacks, Finalize, Detached, data
<1>5. CASE UNCHANGED vars
  BY <1>5 DEF vars, data, state, Detached
<1>6. QED
  BY <1>1, <1>2, <1>3, <1>4, <1>5 DEF Next

LEMMA QuietStep ==
  ASSUME IInv, Detached, ~attached, [Next]_vars
  PROVE  Promised' \subseteq Promised
<1>1. stopped /\ tx # "flushing"
  BY DEF Detached
<1>2. idle \in Seq(Batch) /\ emitted \in Seq(Batch)
  BY DEF IInv, PipeType
<1>3. ASSUME UNCHANGED <<idle, emitted>>,
             stage' = "answered" => stage = "answered" /\ current' = current
      PROVE  Promised' \subseteq Promised
  BY <1>3 DEF Promised, Serials
<1>4. CASE Begin \/ Commit \/ Rollback \/ Statement
  <2>1. UNCHANGED pipe
    BY <1>4, StatementFrame DEF Begin, Commit, Rollback
  <2>2. QED
    BY <1>3, <2>1 DEF pipe
<1>5. CASE Flushing \/ GraphUpdated
  BY <1>1, <1>5 DEF Flushing, FlushCache, EndCommit, GraphUpdated
<1>6. CASE QueryExecuted \/ ReadRows \/ ReadDone
  BY <1>1, <1>3, <1>6 DEF QueryExecuted, ReadRows, ReadDone
<1>7. CASE HandOver
  <2>1. /\ stage = "answered" /\ current \in Batch /\ stage' = "handed"
        /\ idle' = Append(idle, current) /\ emitted' = emitted
    BY <1>7 DEF HandOver, IInv, PipeType, Asking
  <2>2. Serials(idle') = Serials(idle) \cup {current.n}
    BY <1>2, <2>1, AppendBatch
  <2>3. QED
    BY <2>1, <2>2 DEF Promised
<1>8. CASE TakeNext
  BY <1>3, <1>8 DEF TakeNext, StartQuery
<1>9. CASE EmitEvents
  <2>1. /\ idle # << >> /\ idle' = Tail(idle) /\ UNCHANGED <<stage, current>>
        /\ emitted' = emitted \/ emitted' = Append(emitted, Head(idle))
    BY <1>9 DEF EmitEvents
  <2>2. Head(idle) \in Batch /\ Serials(idle) = Serials(idle') \cup {Head(idle).n}
    BY <1>2, <2>1, TakeBatch
  <2>3. Serials(emitted') \subseteq Serials(emitted) \cup {Head(idle).n}
    BY <1>2, <2>1, <2>2, AppendBatch
  <2>4. QED
    BY <2>1, <2>2, <2>3 DEF Promised
<1>10. CASE Stop \/ RemoveCallbacks \/ Finalize \/ UNCHANGED vars
  BY <1>3, <1>10 DEF Stop, RemoveCallbacks, Finalize, vars, pipe
<1>11. QED
  BY <1>4, <1>5, <1>6, <1>7, <1>8, <1>9, <1>10 DEF Next, Worker

-----------------------------------------------------------------------------
(***************************************************************************)
(* What the caches tell of a transaction.                                  *)
(***************************************************************************)
Single(events) == \A i, k \in DOMAIN events : events[i].id = events[k].id => i = k

TypeFor(events, r) ==
  IF \E i \in DOMAIN events : events[i].id = r
  THEN events[CHOOSE i \in DOMAIN events : events[i].id = r].type
  ELSE None

Collected(g) == IF caches[g] = None THEN << >> ELSE caches[g]

\* How the event e collected for x goes with its classes so far.
Agrees(x, e) ==
  LET before == types[x] \cap Notify
      after  == work[x] \cap Notify
  IN  /\ x \notin touched => e = None /\ work[x] = types[x]
      /\ after = {} => e \in {None, "DELETE"}
      /\ before # {} /\ after = {} => e = "DELETE"
      /\ after # {} => (e = "DELETE" <=> x \in parted)
      /\ ~(after \subseteq before) /\ x \notin parted => e = "CREATE"
      /\ after # {} /\ x \in touched => e # None

\* Between transactions nothing is collected; within one, what is agrees with it.
Told ==
  /\ tx # "open" => work = types /\ touched = {} /\ parted = {}
  /\ tx = "none" /\ attached => \A g \in Graph : caches[g] = None
  /\ tx = "open" /\ attached => /\ \A g \in Graph : Single(Collected(g))
                                /\ \A x \in Pair : Agrees(x, EventOf(x))

\* With one event per resource it does not matter which is chosen.
LEMMA TypeForElement ==
  ASSUME NEW events, Single(events), NEW i \in DOMAIN events
  PROVE  TypeFor(events, events[i].id) = events[i].type
<1> DEFINE j == CHOOSE j \in DOMAIN events : events[j].id = events[i].id
<1>1. j \in DOMAIN events /\ events[j].id = events[i].id
  OBVIOUS
<1>2. j = i
  BY <1>1 DEF Single
<1>3. QED
  BY <1>2 DEF TypeFor

\* A push leaves one event per resource, and changes that of r alone; an UPDATE
\* only tells what nothing was told of.
LEMMA PushTells ==
  ASSUME NEW events \in Events, Single(events), NEW r \in Resource, NEW kind \in Kind
  PROVE  LET t == Push(events, r, kind)
         IN  /\ Single(t)
             /\ \A q : q # r => TypeFor(t, q) = TypeFor(events, q)
             /\ TypeFor(t, r) = IF kind # "UPDATE" \/ TypeFor(events, r) = None
                                THEN kind ELSE TypeFor(events, r)
<1> DEFINE Event == [id : Resource, type : Kind]
           e == [id |-> r, type |-> kind]
           t == Push(events, r, kind)
<1>1. /\ e.id = r /\ e.type = kind /\ e \in Event /\ events \in Seq(Event)
      /\ \A i \in DOMAIN events : events[i].type # None
  <2>1. e.id = r /\ e.type = kind /\ e \in Event /\ events \in Seq(Event)
    BY DEF Events
  <2>2. \A i \in DOMAIN events : events[i] \in Event
    BY <2>1, Elements
  <2>3. QED
    BY <2>1, <2>2, NoneAssumption
<1>2. CASE \E i \in DOMAIN events : events[i].id = r
  <2>1. PICK i \in DOMAIN events : events[i].id = r
    BY <1>2
  <2>2. t = [k \in DOMAIN events |-> IF events[k].id = r /\ kind # "UPDATE"
                                     THEN e ELSE events[k]]
    BY <1>2 DEF Push
  <2> HIDE DEF t, e
  <2>3. /\ DOMAIN t = DOMAIN events
        /\ \A k \in DOMAIN events : t[k].id = events[k].id
        /\ \A k \in DOMAIN events : k # i => t[k] = events[k]
        /\ t[i].type = IF kind # "UPDATE" THEN kind ELSE events[i].type
    BY <1>1, <2>1, <2>2 DEF Single
  <2>4. Single(t)
    BY <2>3 DEF Single
  <2>5. ASSUME NEW q, q # r PROVE TypeFor(t, q) = TypeFor(events, q)
    <3>1. CASE \E k \in DOMAIN events : events[k].id = q
      <4>1. PICK k \in DOMAIN events : events[k].id = q
        BY <3>1
      <4>2. t[k] = events[k]
        BY <2>1, <2>3, <2>5, <4>1
      <4>3. TypeFor(events, q) = events[k].type
        BY <4>1, TypeForElement
      <4>4. TypeFor(t, q) = t[k].type
        BY <2>3, <2>4, <4>1, <4>2, TypeForElement
      <4>5. QED
        BY <4>2, <4>3, <4>4
    <3>2. CASE ~ \E k \in DOMAIN events : events[k].id = q
      BY <2>3, <3>2 DEF TypeFor
    <3>3. QED
      BY <3>1, <3>2
  <2>6. TypeFor(events, r) = events[i].type
    BY <2>1, TypeForElement
  <2>7. TypeFor(t, r) = t[i].type
    BY <2>1, <2>3, <2>4, TypeForElement
  <2>8. QED
    BY <1>1, <2>1, <2>3, <2>4, <2>5, <2>6, <2>7 DEF t
<1>3. CASE ~ \E i \in DOMAIN events : events[i].id = r
  <2>1. t = Append(events, e)
    BY <1>3 DEF Push
  <2> HIDE DEF t, e, Event
  <2>2. /\ DOMAIN events = 1 .. Len(events) /\ DOMAIN t = 1 .. Len(events) + 1
        /\ Len(events) \in Nat
        /\ \A k \in DOMAIN events : t[k] = events[k]
        /\ t[Len(events) + 1] = e
    BY <1>1, <2>1
  <2>3. \A k \in DOMAIN t : k \in DOMAIN events \/ k = Len(events) + 1
    BY <2>2
  <2>4. Single(t)
    BY <1>1, <1>3, <2>2, <2>3 DEF Single
  <2>5. ASSUME NEW q, q # r PROVE TypeFor(t, q) = TypeFor(events, q)
    <3>1. CASE \E k \in DOMAIN events : events[k].id = q
      <4>1. PICK k \in DOMAIN events : events[k].id = q
        BY <3>1
      <4>2. t[k] = events[k] /\ k \in DOMAIN t
        BY <2>2, <4>1
      <4>3. TypeFor(events, q) = events[k].type
        BY <4>1, TypeForElement
      <4>4. TypeFor(t, q) = t[k].type
        BY <2>4, <4>1, <4>2, TypeForElement
      <4>5. QED
        BY <4>2, <4>3, <4>4
    <3>2. CASE ~ \E k \in DOMAIN events : events[k].id = q
      <4>1. ~ \E k \in DOMAIN t : t[k].id = q
        BY <1>1, <2>2, <2>3, <2>5, <3>2
      <4>2. QED
        BY <3>2, <4>1 DEF TypeFor
    <3>3. QED
      BY <3>1, <3>2
  <2>6. TypeFor(events, r) = None
    BY <1>3 DEF TypeFor
  <2>7. TypeFor(t, r) = kind
    <3>1. Len(events) + 1 \in DOMAIN t
      BY <2>2
    <3>2. QED
      BY <1>1, <2>2, <2>4, <3>1, TypeForElement
  <2>8. QED
    BY <2>4, <2>5, <2>6, <2>7 DEF t
<1>4. QED
  BY <1>2, <1>3

\* What is collected for a pair.
LEMMA EventFor ==
  ASSUME NEW g \in Graph, NEW r \in Resource
  PROVE  EventOf(<<g, r>>) = TypeFor(Collected(g), r)
  BY DEF EventOf, TypeFor, Collected

\* A statement changes the event of its own resource, as the classes the
\* callback sees say.
LEMMA ChangeTells ==
  ASSUME DataType, attached, NEW g \in Graph, NEW r \in Resource, NEW C, NEW D, NEW c,
         NEW kind \in Kind, Change(g, r, C, D, c, kind),
         \A h \in Graph : Single(Collected(h)), c \in Notify => D \cap Notify # {}
  PROVE  LET e == EventOf(<<g, r>>)
         IN  /\ \A h \in Graph : Single(Collected(h)')
             /\ \A x \in Pair : x # <<g, r>> => EventOf(x)' = EventOf(x)
             /\ EventOf(<<g, r>>)' = IF D \cap Notify = {} THEN e
                                     ELSE IF c \in Notify /\ kind # "UPDATE" THEN kind
                                     ELSE IF e = None THEN "UPDATE" ELSE e
<1> DEFINE old == Collected(g)
           new == Pushed(caches[g], r, D, c, kind)
<1>1. old \in Events /\ Single(old)
  <2>1. Single(old)
    OBVIOUS
  <2>2. << >> \in Events
    BY DEF Events
  <2>3. caches[g] \in {None} \cup Events
    BY DEF DataType
  <2>4. old \in Events
    BY <2>2, <2>3 DEF Collected
  <2>5. QED
    BY <2>1, <2>4
<1>2. new \in Events /\ caches' = [caches EXCEPT ![g] = new]
  BY PushedType DEF Change, DataType
<1>3. Collected(g)' = new /\ \A h \in Graph : h # g => Collected(h)' = Collected(h)
  <2>1. new # None
    BY <1>2, NoneAssumption DEF Events
  <2> HIDE DEF new
  <2>2. QED
    BY <1>2, <2>1 DEF Collected, DataType
<1>4. /\ Single(new)
      /\ \A q : q # r => TypeFor(new, q) = TypeFor(old, q)
      /\ TypeFor(new, r) = IF D \cap Notify = {} THEN TypeFor(old, r)
                           ELSE IF c \in Notify /\ kind # "UPDATE" THEN kind
                           ELSE IF TypeFor(old, r) = None THEN "UPDATE" ELSE TypeFor(old, r)
  <2>1. CASE c \in Notify
    <3>1. new = Push(old, r, kind)
      BY <2>1 DEF Pushed, Collected
    <3> HIDE DEF new, old
    <3>2. QED
      BY <1>1, <2>1, <3>1, PushTells
  <2>2. CASE c \notin Notify /\ D \cap Notify # {}
    <3>1. new = Push(old, r, "UPDATE") /\ "UPDATE" \in Kind
      BY <2>2 DEF Pushed, Collected, Kind
    <3> HIDE DEF new, old
    <3>2. QED
      BY <1>1, <2>2, <3>1, PushTells
  <2>3. CASE D \cap Notify = {}
    <3>1. new = old
      BY <2>3 DEF Pushed, Collected
    <3>2. QED
      BY <1>1, <2>3, <3>1
  <2>4. QED
    BY <2>1, <2>2, <2>3
<1> HIDE DEF new, old
<1>5. ASSUME NEW h \in Graph, NEW q \in Resource
      PROVE  EventOf(<<h, q>>) = TypeFor(Collected(h), q)
             /\ EventOf(<<h, q>>)' = TypeFor(Collected(h)', q)
  BY DEF EventOf, TypeFor, Collected
<1>6. ASSUME NEW x \in Pair, x # <<g, r>> PROVE EventOf(x)' = EventOf(x)
  <2>1. PICK h \in Graph, q \in Resource : x = <<h, q>>
    BY DEF Pair
  <2>2. CASE h = g
    <3>1. q # r
      BY <1>6, <2>1, <2>2
    <3>2. EventOf(x)' = TypeFor(new, q) /\ EventOf(x) = TypeFor(old, q)
      BY <1>3, <1>5, <2>1, <2>2 DEF old
    <3>3. QED
      BY <1>4, <3>1, <3>2
  <2>3. CASE h # g
    BY <1>3, <1>5, <2>1, <2>3
  <2>4. QED
    BY <2>2, <2>3
<1>7. EventOf(<<g, r>>)' = TypeFor(new, r) /\ EventOf(<<g, r>>) = TypeFor(old, r)
  BY <1>3, <1>5 DEF old
<1>8. QED
  BY <1>1, <1>3, <1>4, <1>6, <1>7 DEF old

LEMMA ToldInit == Init => Told
  BY DEF Init, Told

\* Statements keep the events in agreement.
LEMMA ChangeTold ==
  ASSUME DataType, Told, NEW g \in Graph, NEW r \in Resource, NEW C \in SUBSET Class,
         NEW D, NEW c, NEW kind \in Kind, Change(g, r, C, D, c, kind),
         \/ c \in Notify /\ kind = "CREATE" /\ c \in C /\ D = C
         \/ c \in Notify /\ kind = "DELETE" /\ c \in D /\ C = D \ {c} /\ D = work[<<g, r>>]
         \/ /\ c \notin Notify
            /\ C \cap Notify = D \cap Notify /\ D \cap Notify = work[<<g, r>>] \cap Notify
  PROVE  Told'
<1> DEFINE p == <<g, r>>
<1>1. /\ tx = "open" /\ tx' = tx /\ attached' = attached /\ types' = types
      /\ work' = [work EXCEPT ![p] = C] /\ touched' = touched \cup {p} /\ p \in Pair
      /\ parted' = IF c \notin Notify THEN parted
                   ELSE IF kind = "DELETE" /\ C \cap Notify # {} THEN parted \cup {p}
                   ELSE parted \ {p}
  BY DEF Change, state, Pair
<1>2. CASE ~attached
  BY <1>1, <1>2 DEF Told
<1>3. CASE attached
  <2>1. /\ \A h \in Graph : Single(Collected(h))
        /\ \A x \in Pair : Agrees(x, EventOf(x))
    BY <1>1, <1>3 DEF Told
  <2>2. c \in Notify => D \cap Notify # {}
    OBVIOUS
  <2>3. /\ \A h \in Graph : Single(Collected(h)')
        /\ \A x \in Pair : x # p => EventOf(x)' = EventOf(x)
        /\ EventOf(p)' = IF D \cap Notify = {} THEN EventOf(p)
                         ELSE IF c \in Notify /\ kind # "UPDATE" THEN kind
                         ELSE IF EventOf(p) = None THEN "UPDATE" ELSE EventOf(p)
    BY <1>3, <2>1, <2>2, ChangeTells
  <2>4. ASSUME NEW x \in Pair, x # p PROVE Agrees(x, EventOf(x))'
    <3>1. /\ EventOf(x)' = EventOf(x) /\ work'[x] = work[x]
          /\ (x \in touched' <=> x \in touched) /\ (x \in parted' <=> x \in parted)
      BY <1>1, <2>3, <2>4 DEF DataType
    <3>2. Agrees(x, EventOf(x))
      BY <2>1
    <3>3. QED
      BY <1>1, <3>1, <3>2 DEF Agrees
  <2>5. Agrees(p, EventOf(p))'
    <3> DEFINE e == EventOf(p)
               f == EventOf(p)'
               before == types[p] \cap Notify
               old == work[p] \cap Notify
               after == C \cap Notify
    <3>1. /\ p \notin touched => e = None /\ old = before
          /\ old = {} => e \in {None, "DELETE"}
          /\ before # {} /\ old = {} => e = "DELETE"
          /\ old # {} => (e = "DELETE" <=> p \in parted)
          /\ ~(old \subseteq before) /\ p \notin parted => e = "CREATE"
          /\ old # {} /\ p \in touched => e # None
      BY <1>1, <2>1 DEF Agrees
    <3>2. work'[p] = C /\ p \in touched'
      BY <1>1 DEF DataType
    <3>3. None # "CREATE" /\ None # "UPDATE" /\ None # "DELETE" /\ parted \subseteq touched
      BY NoneAssumption DEF Kind, DataType
    <3>4. /\ after = {} => f \in {None, "DELETE"}
          /\ before # {} /\ after = {} => f = "DELETE"
          /\ after # {} => (f = "DELETE" <=> p \in parted')
          /\ ~(after \subseteq before) /\ p \notin parted' => f = "CREATE"
          /\ after # {} => f # None
      <4>1. CASE c \in Notify /\ kind = "CREATE" /\ c \in C /\ D = C
        <5>1. f = "CREATE" /\ after # {} /\ p \notin parted'
          BY <1>1, <2>2, <2>3, <4>1
        <5> HIDE DEF f, after, before
        <5>2. QED
          BY <3>3, <5>1
      <4>2. CASE /\ c \in Notify /\ kind = "DELETE" /\ c \in D
                 /\ C = D \ {c} /\ D = work[p]
        <5>1. f = "DELETE"
          BY <2>2, <2>3, <4>2
        <5>2. after # {} => p \in parted'
          BY <1>1, <4>2
        <5>3. after = {} => after \subseteq before
          OBVIOUS
        <5> HIDE DEF f, after, before
        <5>4. QED
          BY <3>3, <5>1, <5>2, <5>3
      <4>3. CASE c \notin Notify /\ after = D \cap Notify /\ D \cap Notify = old
        <5>1. f = IF old = {} THEN e ELSE IF e = None THEN "UPDATE" ELSE e
          BY <2>3, <4>3
        <5>2. after = old /\ parted' = parted
          BY <1>1, <4>3
        <5> HIDE DEF f, e, after, before, old
        <5>3. after = {} => f = e
          BY <5>1, <5>2
        <5>4. after # {} => f = (IF e = None THEN "UPDATE" ELSE e)
          BY <5>1, <5>2
        <5>5. after = {} => after \subseteq before
          OBVIOUS
        <5>6. CASE after = {}
          BY <3>1, <5>2, <5>3, <5>5, <5>6
        <5>7. CASE after # {}
          BY <3>1, <3>3, <5>2, <5>4, <5>7
        <5>8. QED
          BY <5>6, <5>7
      <4>4. QED
        BY <4>1, <4>2, <4>3
    <3>5. work'[p] \cap Notify = after /\ types'[p] \cap Notify = before
      BY <1>1, <3>2
    <3> HIDE DEF f, before, after
    <3>6. LET b == types'[p] \cap Notify
              a == work'[p] \cap Notify
          IN  /\ a = {} => f \in {None, "DELETE"}
              /\ b # {} /\ a = {} => f = "DELETE"
              /\ a # {} => (f = "DELETE" <=> p \in parted')
              /\ ~(a \subseteq b) /\ p \notin parted' => f = "CREATE"
              /\ a # {} => f # None
      BY <3>4, <3>5
    <3>7. QED
      BY <3>2, <3>6 DEF Agrees, f
  <2>6. QED
    BY <1>1, <2>3, <2>4, <2>5 DEF Told
<1>4. QED
  BY <1>2, <1>3

LEMMA StatementTold == DataType /\ Told /\ Statement => Told'
<1> SUFFICES ASSUME DataType, Told, NEW g \in Graph, NEW r \in Resource,
                    \/ \E c \in Class : InsertType(g, r, c) \/ DeleteType(g, r, c)
                    \/ ChangeValue(g, r)
             PROVE  Told'
  BY DEF Statement
<1> DEFINE W == work[<<g, r>>]
<1>1. W \in SUBSET Class /\ {"CREATE", "UPDATE", "DELETE"} \subseteq Kind
  BY DEF DataType, Pair, Kind
<1>2. ASSUME NEW c \in Class, InsertType(g, r, c) PROVE Told'
  <2>1. Change(g, r, W \cup {c}, W \cup {c}, c, "CREATE")
    BY <1>2 DEF InsertType
  <2>2. W \cup {c} \in SUBSET Class
    BY <1>1
  <2>3. c \notin Notify => (W \cup {c}) \cap Notify = W \cap Notify
    OBVIOUS
  <2> HIDE DEF W
  <2>4. QED
    BY <1>1, <2>1, <2>2, <2>3, ChangeTold DEF W
<1>3. ASSUME NEW c \in Class, DeleteType(g, r, c) PROVE Told'
  <2>1. c \in W /\ Change(g, r, W \ {c}, W, c, "DELETE")
    BY <1>3 DEF DeleteType
  <2>2. W \ {c} \in SUBSET Class
    BY <1>1
  <2>3. c \notin Notify => (W \ {c}) \cap Notify = W \cap Notify
    OBVIOUS
  <2> HIDE DEF W
  <2>4. QED
    BY <1>1, <2>1, <2>2, <2>3, ChangeTold DEF W
<1>4. CASE ChangeValue(g, r)
  <2>1. Change(g, r, W, W, None, "UPDATE") /\ None \notin Notify
    BY <1>4, ClassAssumption DEF ChangeValue
  <2> HIDE DEF W
  <2>2. QED
    BY <1>1, <2>1, ChangeTold DEF W
<1>5. QED
  BY <1>2, <1>3, <1>4

LEMMA ToldStep == DataType /\ Told /\ [Next]_vars => Told'
<1> SUFFICES ASSUME DataType, Told, [Next]_vars PROVE Told'
  OBVIOUS
<1>1. CASE Begin
  <2>1. /\ tx = "none" /\ UNCHANGED <<types, work, caches, touched, parted, attached>>
        /\ work = types /\ touched = {} /\ parted = {}
    BY <1>1 DEF Begin, Told, state
  <2>2. ASSUME attached PROVE \A h \in Graph : Single(Collected(h)')
    <3>1. \A h \in Graph : Collected(h)' = << >>
      BY <2>1, <2>2 DEF Told, Collected
    <3>2. Single(<< >>)
      BY DEF Single
    <3>3. QED
      BY <3>1, <3>2
  <2>3. ASSUME attached, NEW x \in Pair PROVE Agrees(x, EventOf(x))'
    <3>1. x[1] \in Graph /\ caches'[x[1]] = None
      BY <2>1, <2>3 DEF Told, Pair
    <3>2. EventOf(x)' = None
      BY <3>1 DEF EventOf
    <3>3. None # "CREATE" /\ None # "UPDATE" /\ None # "DELETE"
      BY NoneAssumption DEF Kind
    <3>4. QED
      BY <2>1, <3>2, <3>3 DEF Agrees
  <2>4. QED
    BY <2>1, <2>2, <2>3, <1>1 DEF Begin, Told
<1>2. CASE Commit \/ Rollback \/ EndCommit
  BY <1>2 DEF Commit, Rollback, EndCommit, Told, state
<1>3. CASE Statement
  BY <1>3, StatementTold
<1>4. ASSUME NEW g \in Graph, FlushCache(g) PROVE Told'
  BY <1>4 DEF FlushCache, Told, state
<1>5. ASSUME UNCHANGED data, attached' \in BOOLEAN, attached' => attached PROVE Told'
  <2>1. tx' = "open" /\ attached' => /\ \A g \in Graph : Single(Collected(g))'
                                     /\ \A x \in Pair : Agrees(x, EventOf(x))'
    <3>1. UNCHANGED <<types, work, touched, parted, caches, tx>>
      BY <1>5 DEF data
    <3>2. /\ \A g \in Graph : Single(Collected(g))' = Single(Collected(g))
          /\ \A x \in Pair : EventOf(x)' = EventOf(x)
      BY <3>1 DEF Single, Collected, EventOf
    <3>3. \A x \in Pair : Agrees(x, EventOf(x)) => Agrees(x, EventOf(x))'
      BY <3>1, <3>2 DEF Agrees
    <3>4. QED
      BY <1>5, <3>1, <3>2, <3>3 DEF Told
  <2>2. QED
    BY <1>5, <2>1 DEF Told, data
<1>6. CASE GraphUpdated
  BY <1>5, <1>6 DEF GraphUpdated, DataType, state
<1>7. CASE Worker
  BY <1>5, <1>7 DEF Worker, QueryExecuted, ReadRows, ReadDone, HandOver, TakeNext, DataType,
                    state
<1>8. CASE EmitEvents
  BY <1>5, <1>8 DEF EmitEvents, DataType, state
<1>9. CASE Stop \/ RemoveCallbacks \/ Finalize
  BY <1>5, <1>9 DEF Stop, RemoveCallbacks, Finalize, DataType
<1>10. CASE UNCHANGED vars
  BY <1>5, <1>10 DEF vars, DataType, state
<1>11. QED
  BY <1>1, <1>2, <1>3, <1>4, <1>6, <1>7, <1>8, <1>9, <1>10 DEF Next, Flushing

-----------------------------------------------------------------------------
(***************************************************************************)
(* Theorems.                                                               *)
(***************************************************************************)
LEMMA KeptInit == Init => NothingLost
<1>1. Init => flushed = 0
  BY DEF Init
<1>2. flushed = 0 => 1 .. flushed = {}
  OBVIOUS
<1>3. QED
  BY <1>1, <1>2 DEF NothingLost

LEMMA Invariance == Spec => [](DataType /\ IInv /\ NothingLost)
<1>1. Init => DataType /\ IInv /\ NothingLost
  BY DataInit, PipeInit, KeptInit
<1>2. DataType /\ IInv /\ NothingLost /\ [Next]_vars => (DataType /\ IInv /\ NothingLost)'
  BY DataStep, InvStep, KeepsStep
<1>3. QED
  BY <1>1, <1>2, PTL DEF Spec

\* Every variable of the notifier keeps its type.
THEOREM NotifierTypes == Spec => []TypeOK
<1>1. DataType /\ IInv => TypeOK
  BY DEF DataType, IInv, PipeType, TypeOK, Events
<1>2. QED
  BY <1>1, Invariance, PTL

\* The signal is emitted for the batches in the order they were flushed, for
\* none of them twice.
THEOREM EmittedInOrder == Spec => []InOrder
<1>1. IInv => InOrder
  BY DEF IInv, Line, Rising, InOrder
<1>2. QED
  BY <1>1, Invariance, PTL

\* No event is emitted before its URI was asked for, however many slots a query
\* has and whichever queries end early.
THEOREM EmittedWithUrns == Spec => []UrnsKnown
<1>1. IInv => UrnsKnown
  BY DEF IInv, Whole, UrnsKnown
<1>2. QED
  BY <1>1, Invariance, PTL

\* Without a failed query, no batch is lost between its flush and its emission.
THEOREM NoBatchLost == Spec => []NothingLost
  BY Invariance, PTL

\* Once the callbacks of a notifier are removed, nothing is added to what may
\* still be emitted, wherever its worker and the main context are.
THEOREM QuietAfterClose == Spec => QuietOnceDetached
<1>1. Spec => []Detached
  BY DetachedInit, DetachedStep, PTL DEF Spec
<1>2. IInv /\ Detached /\ [Next]_vars => [~attached => Promised' \subseteq Promised]_vars
  BY QuietStep
<1>3. QED
  BY <1>1, <1>2, Invariance, PTL DEF Spec, QuietOnceDetached

\* The transaction is flushed when it commits with the callbacks registered.
LEMMA FlushingStarts ==
  ASSUME [Next]_vars, tx = "open", tx' = "flushing"
  PROVE  attached
<1>1. CASE Commit
  BY <1>1 DEF Commit
<1>2. CASE Statement
  BY <1>2, StatementFrame
<1>3. CASE Begin \/ Rollback \/ Flushing
  BY <1>3 DEF Begin, Rollback, Flushing, FlushCache, EndCommit
<1>4. CASE GraphUpdated \/ Worker \/ EmitEvents
  BY <1>4 DEF GraphUpdated, Worker, QueryExecuted, ReadRows, ReadDone, HandOver, TakeNext,
              EmitEvents, data
<1>5. CASE Stop \/ RemoveCallbacks \/ Finalize \/ UNCHANGED vars
  BY <1>5 DEF Stop, RemoveCallbacks, Finalize, vars, data
<1>6. QED
  BY <1>1, <1>2, <1>3, <1>4, <1>5 DEF Next

\* Whatever statements a transaction is made of and whichever classes are notified,
\* what is flushed at its commit tells what it has made of each resource.
THEOREM ChangesTold == Spec => EventsTellChanges
<1>1. Spec => [](DataType /\ Told)
  <2>1. Init => DataType /\ Told
    BY DataInit, ToldInit
  <2>2. DataType /\ Told /\ [Next]_vars => (DataType /\ Told)'
    BY DataStep, ToldStep
  <2>3. QED
    BY <2>1, <2>2, PTL DEF Spec
<1>2. ASSUME Told, [Next]_vars, tx = "open", tx' = "flushing"
      PROVE  \A x \in Pair : Tells(x, EventOf(x))
  <2>1. \A x \in Pair : Agrees(x, EventOf(x))
    BY <1>2, FlushingStarts DEF Told
  <2>2. ASSUME NEW x \in Pair PROVE Tells(x, EventOf(x))
    BY <1>2, <2>1 DEF Agrees, Tells
  <2>3. QED
    BY <2>2
<1>3. Told /\ [Next]_vars
        => [tx = "open" /\ tx' = "flushing" => \A x \in Pair : Tells(x, EventOf(x))]_vars
  BY <1>2
<1>4. QED
  BY <1>1, <1>3, PTL DEF Spec, EventsTellChanges
=============================================================================
