-------------------------- MODULE InterfacesProofs --------------------------
(***************************************************************************)
(* Theorems about Interfaces, for any calls, queries, pool and caches.     *)
(* PoolInv says that the number of users of each interface counts the calls*)
(* and the cursors that have it, so that one with no users is nobody's.    *)
(***************************************************************************)
EXTENDS Interfaces, FiniteSetTheorems, SequenceTheorems, TLAPS

Distinct(q) == \A k, m \in DOMAIN q : q[k] = q[m] => k = m

PoolType ==
  /\ queue \in Seq(Calls) /\ lock \in Calls \cup {Manager, None} /\ left \in Nat
  /\ users \in [Calls -> Int]
  /\ phase \in [Calls -> {"new", "looking", "done", "open", "released"} \cup Executing]
  /\ iface \in [Calls -> Calls \cup {None}]

\* Who looks for an interface holds the lock.
Locked ==
  /\ \A c \in Calls : phase[c] = "looking" <=> lock = c
  /\ left <= Len(queue)

\* An interface is in the pool once, and its call is past making it.
Queued ==
  /\ Distinct(queue) /\ Len(queue) <= MaxInterfaces
  /\ \A k \in DOMAIN queue : phase[queue[k]] \notin {"new", "looking"}

Counted == \A i \in Calls : users[i] = UsersOf(i)

Used ==
  \A c \in Calls :
    phase[c] \in Executing \cup WithCursor => iface[c] \in Members(queue)

PoolInv == PoolType /\ Locked /\ Queued /\ Counted /\ Used

-----------------------------------------------------------------------------
(***************************************************************************)
(* The queue.                                                              *)
(***************************************************************************)
\* What taking the interface at the head and putting it at the end does.
LEMMA RotatedQueue ==
  ASSUME queue \in Seq(Calls), queue # << >>
  PROVE  /\ Rotated \in Seq(Calls) /\ Len(Rotated) = Len(queue)
         /\ Members(Rotated) = Members(queue) /\ Head(queue) \in Members(queue)
         /\ Distinct(queue) => Distinct(Rotated)
<1> DEFINE r == Rotated
<1>1. /\ r \in Seq(Calls) /\ Len(queue) \in Nat \ {0} /\ Len(r) = Len(queue)
      /\ DOMAIN queue = 1 .. Len(queue) /\ DOMAIN r = 1 .. Len(queue)
      /\ r[Len(queue)] = queue[1]
      /\ \A k \in 1 .. Len(queue) - 1 : r[k] = queue[k + 1]
      /\ Head(queue) = queue[1]
  BY DEF Rotated
<1> HIDE DEF r
<1>2. Len(queue) \in Nat
  BY <1>1
<1>3. \A k \in DOMAIN r : r[k] \in Members(queue)
  BY <1>1 DEF Members
<1>4. \A k \in DOMAIN queue : queue[k] \in Members(r)
  <2> SUFFICES ASSUME NEW k \in DOMAIN queue PROVE queue[k] \in Members(r)
    OBVIOUS
  <2>1. CASE k = 1
    BY <2>1, <1>1 DEF Members
  <2>2. CASE k # 1
    <3>1. k - 1 \in 1 .. Len(queue) - 1 /\ k - 1 \in DOMAIN r
      BY <2>2, <1>1
    <3>2. r[k - 1] = queue[k]
      BY <3>1, <1>1
    <3>3. QED
      BY <3>1, <3>2 DEF Members
  <2>3. QED
    BY <2>1, <2>2
<1>5. Members(r) = Members(queue)
  BY <1>3, <1>4 DEF Members
<1>6. Head(queue) \in Members(queue)
  BY <1>1 DEF Members
<1>7. ASSUME Distinct(queue) PROVE Distinct(r)
  <2> SUFFICES ASSUME NEW k \in 1 .. Len(queue), NEW m \in 1 .. Len(queue), r[k] = r[m]
               PROVE  k = m
    BY <1>1 DEF Distinct
  <2>0. \A a, b \in 1 .. Len(queue) : queue[a] = queue[b] => a = b
    BY <1>1, <1>7 DEF Distinct
  <2> DEFINE at1(n) == IF n = Len(queue) THEN 1 ELSE n + 1
  <2>1. ASSUME NEW n \in 1 .. Len(queue)
        PROVE  at1(n) \in 1 .. Len(queue) /\ r[n] = queue[at1(n)]
    <3>1. CASE n = Len(queue)
      BY <3>1, <1>1
    <3>2. CASE n # Len(queue)
      <4>1. n \in 1 .. Len(queue) - 1
        BY <3>2, <1>2
      <4>2. r[n] = queue[n + 1]
        BY <4>1, <1>1
      <4>3. QED
        BY <4>1, <4>2, <3>2
    <3>3. QED
      BY <3>1, <3>2
  <2>2. at1(k) = at1(m)
    BY <2>0, <2>1
  <2>3. QED
    BY <2>2, <1>2
<1>8. QED
  BY <1>1, <1>5, <1>6, <1>7 DEF r

\* What removing the interface at the head does.
LEMMA TailQueue ==
  ASSUME queue \in Seq(Calls), queue # << >>, Distinct(queue)
  PROVE  /\ Tail(queue) \in Seq(Calls) /\ Len(Tail(queue)) = Len(queue) - 1
         /\ Members(Tail(queue)) = Members(queue) \ {Head(queue)}
         /\ Distinct(Tail(queue))
<1> DEFINE r == Tail(queue)
<1>1. /\ r \in Seq(Calls) /\ Len(queue) \in Nat \ {0} /\ Len(r) = Len(queue) - 1
      /\ DOMAIN queue = 1 .. Len(queue) /\ DOMAIN r = 1 .. Len(queue) - 1
      /\ \A k \in DOMAIN r : r[k] = queue[k + 1]
      /\ Head(queue) = queue[1]
  OBVIOUS
<1> HIDE DEF r
<1>2. \A k \in DOMAIN r : r[k] \in Members(queue) \ {Head(queue)}
  BY <1>1 DEF Members, Distinct
<1>3. ASSUME NEW k \in DOMAIN queue, queue[k] # Head(queue) PROVE queue[k] \in Members(r)
  <2>1. k - 1 \in DOMAIN r
    BY <1>1, <1>3
  <2>2. r[k - 1] = queue[k]
    BY <2>1, <1>1
  <2>3. QED
    BY <2>1, <2>2 DEF Members
<1>4. Members(r) = Members(queue) \ {Head(queue)}
  BY <1>2, <1>3 DEF Members
<1>5. Distinct(r)
  BY <1>1 DEF Distinct
<1>6. QED
  BY <1>1, <1>4, <1>5 DEF r

\* What a new interface does.
LEMMA AppendedQueue ==
  ASSUME queue \in Seq(Calls), Distinct(queue), NEW c \in Calls, c \notin Members(queue)
  PROVE  /\ Append(queue, c) \in Seq(Calls) /\ Len(Append(queue, c)) = Len(queue) + 1
         /\ Members(Append(queue, c)) = Members(queue) \cup {c}
         /\ Distinct(Append(queue, c))
<1> DEFINE r == Append(queue, c)
<1>1. /\ r \in Seq(Calls) /\ Len(queue) \in Nat /\ Len(r) = Len(queue) + 1
      /\ DOMAIN queue = 1 .. Len(queue) /\ DOMAIN r = 1 .. Len(queue) + 1
      /\ \A k \in DOMAIN queue : r[k] = queue[k]
      /\ r[Len(queue) + 1] = c
  OBVIOUS
<1> HIDE DEF r
<1>2. \A k \in DOMAIN r : r[k] \in Members(queue) \cup {c}
  BY <1>1 DEF Members
<1>3. Members(queue) \cup {c} \subseteq Members(r)
  <2>1. c \in Members(r)
    <3>1. Len(queue) + 1 \in DOMAIN r
      BY <1>1
    <3>2. QED
      BY <3>1, <1>1 DEF Members
  <2>2. \A k \in DOMAIN queue : queue[k] \in Members(r)
    BY <1>1 DEF Members
  <2>3. QED
    BY <2>1, <2>2 DEF Members
<1>4. Members(r) = Members(queue) \cup {c}
  BY <1>2, <1>3 DEF Members
<1>5. Distinct(r)
  BY <1>1 DEF Distinct, Members
<1>6. QED
  BY <1>1, <1>4, <1>5 DEF r

-----------------------------------------------------------------------------
(***************************************************************************)
(* Counting users.                                                         *)
(***************************************************************************)
\* The users of an interface are finitely many.
LEMMA OnFinite ==
  ASSUME NEW i
  PROVE  /\ IsFiniteSet(CallsOn(i)) /\ Cardinality(CallsOn(i)) \in Nat
         /\ IsFiniteSet(CursorsOn(i)) /\ Cardinality(CursorsOn(i)) \in Nat
<1>1. CallsOn(i) \in SUBSET Calls /\ CursorsOn(i) \in SUBSET Calls
  BY DEF CallsOn, CursorsOn
<1>2. QED
  BY <1>1, FS_Subset, FS_CardinalityType, CallsAssumption

\* An interface that counts no users is nobody's.
LEMMA NobodyUses ==
  ASSUME NEW i, UsersOf(i) = 0
  PROVE  CallsOn(i) = {} /\ CursorsOn(i) = {}
<1>1. Cardinality(CallsOn(i)) = 0 /\ Cardinality(CursorsOn(i)) = 0
  BY OnFinite DEF UsersOf
<1>2. QED
  BY <1>1, OnFinite, FS_EmptySet

\* One more call, or one more cursor, is one more user; one less is one less.
LEMMA OneMoreCall ==
  ASSUME NEW i, NEW c, c \notin CallsOn(i),
         CallsOn(i)' = CallsOn(i) \cup {c}, CursorsOn(i)' = CursorsOn(i)
  PROVE  UsersOf(i)' = UsersOf(i) + 1
<1>1. Cardinality(CallsOn(i) \cup {c}) = Cardinality(CallsOn(i)) + 1
  BY OnFinite, FS_AddElement
<1>2. QED
  BY <1>1, OnFinite DEF UsersOf

LEMMA OneMoreCursor ==
  ASSUME NEW i, NEW c, c \notin CursorsOn(i),
         CallsOn(i)' = CallsOn(i), CursorsOn(i)' = CursorsOn(i) \cup {c}
  PROVE  UsersOf(i)' = UsersOf(i) + 1
<1>1. Cardinality(CursorsOn(i) \cup {c}) = Cardinality(CursorsOn(i)) + 1
  BY OnFinite, FS_AddElement
<1>2. QED
  BY <1>1, OnFinite DEF UsersOf

LEMMA OneCallLess ==
  ASSUME NEW i, NEW c, c \in CallsOn(i),
         CallsOn(i)' = CallsOn(i) \ {c}, CursorsOn(i)' = CursorsOn(i)
  PROVE  UsersOf(i)' = UsersOf(i) - 1
<1>1. Cardinality(CallsOn(i) \ {c}) = Cardinality(CallsOn(i)) - 1
  BY OnFinite, FS_RemoveElement
<1>2. QED
  BY <1>1, OnFinite DEF UsersOf

LEMMA OneCursorLess ==
  ASSUME NEW i, NEW c, c \in CursorsOn(i),
         CallsOn(i)' = CallsOn(i), CursorsOn(i)' = CursorsOn(i) \ {c}
  PROVE  UsersOf(i)' = UsersOf(i) - 1
<1>1. Cardinality(CursorsOn(i) \ {c}) = Cardinality(CursorsOn(i)) - 1
  BY OnFinite, FS_RemoveElement
<1>2. QED
  BY <1>1, OnFinite DEF UsersOf

-----------------------------------------------------------------------------
(***************************************************************************)
(* Every step keeps PoolInv.                                               *)
(***************************************************************************)
Phases == {"new", "looking", "done", "open", "released"} \cup Executing

\* A step that leaves the pool, the phases and the interfaces of calls alone.
LEMMA PoolQuiet ==
  ASSUME PoolInv, UNCHANGED <<pool, phase, iface>>
  PROVE  PoolInv'
<1>1. \A i : UsersOf(i)' = UsersOf(i)
  BY DEF UsersOf, CallsOn, CursorsOn
<1>2. QED
  BY <1>1 DEF PoolInv, PoolType, Locked, Queued, Counted, Used, pool

\* A step in which a call goes on and counts as a user as before.
LEMMA PhaseKeeps ==
  ASSUME PoolInv, UNCHANGED <<pool, iface>>, NEW c \in Calls, NEW p \in Phases,
         phase' = [phase EXCEPT ![c] = p],
         phase[c] \notin {"new", "looking"}, p \notin {"new", "looking"},
         phase[c] \in Executing <=> p \in Executing,
         phase[c] \in WithCursor <=> p \in WithCursor
  PROVE  PoolInv'
<1>1. phase \in [Calls -> Phases]
  BY DEF PoolInv, PoolType, Phases
<1>2. \A d \in Calls :
        /\ phase'[d] \in Executing <=> phase[d] \in Executing
        /\ phase'[d] \in WithCursor <=> phase[d] \in WithCursor
        /\ phase'[d] = "looking" <=> phase[d] = "looking"
        /\ phase'[d] = "new" <=> phase[d] = "new"
  <2>1. phase'[c] = p /\ \A d \in Calls : d # c => phase'[d] = phase[d]
    BY <1>1
  <2>2. phase[c] # "new" /\ phase[c] # "looking" /\ p # "new" /\ p # "looking"
    OBVIOUS
  <2>3. QED
    BY <2>1, <2>2
<1>3. \A i : CallsOn(i)' = CallsOn(i) /\ CursorsOn(i)' = CursorsOn(i)
  BY <1>2 DEF CallsOn, CursorsOn
<1>4. \A i : UsersOf(i)' = UsersOf(i)
  BY <1>3 DEF UsersOf
<1>5. PoolType'
  BY <1>1 DEF PoolInv, PoolType, Phases, pool
<1>6. Locked'
  BY <1>2 DEF PoolInv, Locked, pool
<1>7. Queued'
  <2>1. \A k \in DOMAIN queue : queue[k] \in Calls
    BY DEF PoolInv, PoolType
  <2>2. QED
    BY <1>2, <2>1 DEF PoolInv, Queued, pool
<1>8. Counted'
  BY <1>4 DEF PoolInv, Counted, pool
<1>9. Used'
  BY <1>2 DEF PoolInv, Used, pool
<1>10. QED
  BY <1>5, <1>6, <1>7, <1>8, <1>9 DEF PoolInv

\* A call is given an interface, which is in the pool then.
LEMMA GiveKeeps ==
  ASSUME PoolInv, NEW c \in Calls, NEW i \in Calls, lock = c, Give(c, i),
         queue' \in Seq(Calls), Distinct(queue'), Len(queue') <= MaxInterfaces,
         i \in Members(queue'), Members(queue) \subseteq Members(queue'),
         Members(queue') \subseteq Members(queue) \cup {c}
  PROVE  PoolInv'
<1>1. /\ phase \in [Calls -> Phases] /\ phase[c] = "looking"
      /\ iface \in [Calls -> Calls \cup {None}] /\ users \in [Calls -> Int]
  BY DEF PoolInv, PoolType, Locked, Phases
<1>2. /\ phase' = [phase EXCEPT ![c] = "placed"] /\ iface' = [iface EXCEPT ![c] = i]
      /\ users' = [users EXCEPT ![i] = @ + 1] /\ lock' = None /\ left' = 0
  BY DEF Give
<1>3. PoolType'
  BY <1>1, <1>2 DEF PoolType, Phases, Executing
<1>4. Locked'
  <2>1. \A d \in Calls : d # c => phase[d] # "looking"
    BY DEF PoolInv, Locked
  <2>2. \A d \in Calls : phase'[d] # "looking"
    BY <1>1, <1>2, <2>1
  <2>3. Len(queue') \in Nat
    OBVIOUS
  <2>4. QED
    BY <1>2, <2>2, <2>3, CallsAssumption DEF Locked
<1>5. Queued'
  <2>1. \A j \in Members(queue) : j \in Calls /\ phase[j] \notin {"new", "looking"}
    BY DEF PoolInv, PoolType, Queued, Members
  <2>2. \A j \in Members(queue') : phase'[j] \notin {"new", "looking"}
    BY <1>1, <1>2, <2>1
  <2>3. QED
    BY <2>2 DEF Queued, Members
<1>6. Counted'
  <2>1. \A d \in Calls :
          /\ d # c => phase'[d] = phase[d] /\ iface'[d] = iface[d]
          /\ phase'[c] \in Executing \ WithCursor /\ iface'[c] = i
          /\ phase[c] \notin Executing /\ phase[c] \notin WithCursor
    BY <1>1, <1>2 DEF Executing, WithCursor
  <2>2. /\ c \notin CallsOn(i) /\ CallsOn(i)' = CallsOn(i) \cup {c}
        /\ CursorsOn(i)' = CursorsOn(i)
    BY <2>1 DEF CallsOn, CursorsOn
  <2>3. users'[i] = UsersOf(i)'
    BY <1>1, <1>2, <2>2, OneMoreCall DEF PoolInv, Counted
  <2>4. ASSUME NEW j \in Calls, j # i PROVE users'[j] = UsersOf(j)'
    <3>1. CallsOn(j)' = CallsOn(j) /\ CursorsOn(j)' = CursorsOn(j)
      BY <2>1, <2>4 DEF CallsOn, CursorsOn
    <3>2. users'[j] = users[j]
      BY <1>1, <1>2, <2>4
    <3>3. QED
      BY <3>1, <3>2 DEF PoolInv, Counted, UsersOf
  <2>5. QED
    BY <2>3, <2>4 DEF Counted
<1>7. Used'
  BY <1>1, <1>2 DEF PoolInv, Used
<1>8. QED
  BY <1>3, <1>4, <1>5, <1>6, <1>7 DEF PoolInv

LEMMA PlaceKeeps ==
  ASSUME PoolInv, NEW c \in Calls, Place(c)
  PROVE  PoolInv'
<1>1. /\ queue \in Seq(Calls) /\ Len(queue) \in Nat /\ Distinct(queue)
      /\ Len(queue) <= MaxInterfaces /\ left \in Nat /\ left <= Len(queue)
      /\ \A i \in Members(queue) : i \in Calls
  BY DEF PoolInv, PoolType, Locked, Queued, Members
<1>2. ASSUME queue # << >>, lock = c, queue' = Rotated, Give(c, Head(queue))
      PROVE  PoolInv'
  <2>1. Head(queue) \in Calls
    BY <1>1, <1>2, RotatedQueue
  <2>2. QED
    BY <1>1, <1>2, <2>1, RotatedQueue, GiveKeeps
<1>3. CASE TakeLock(c)
  <2>1. /\ phase \in [Calls -> Phases] /\ phase[c] = "new" /\ lock = None
        /\ phase' = [phase EXCEPT ![c] = "looking"] /\ lock' = c
        /\ left' = Len(queue) /\ UNCHANGED <<queue, users, iface>>
    BY <1>3 DEF TakeLock, PoolInv, PoolType, Phases
  <2>2. \A d \in Calls : phase[d] # "looking"
    BY <2>1, CallsAssumption DEF PoolInv, Locked
  <2>3. \A d \in Calls : d # c => phase'[d] = phase[d]
    BY <2>1
  <2>4. phase'[c] = "looking"
    BY <2>1
  <2>5. \A i : CallsOn(i)' = CallsOn(i) /\ CursorsOn(i)' = CursorsOn(i)
    BY <2>1, <2>3, <2>4 DEF CallsOn, CursorsOn, Executing, WithCursor
  <2>6. PoolType'
    BY <2>1, <1>1 DEF PoolInv, PoolType, Phases
  <2>7. Locked'
    BY <2>1, <2>2, <2>3, <2>4, <1>1 DEF Locked
  <2>8. Queued'
    <3>1. \A k \in DOMAIN queue : queue[k] \in Calls /\ queue[k] # c
      BY <2>1, <1>1 DEF PoolInv, Queued, Members
    <3>2. QED
      BY <3>1, <2>1, <2>3 DEF PoolInv, Queued
  <2>9. Counted'
    BY <2>1, <2>5 DEF PoolInv, Counted, UsersOf
  <2>10. Used'
    BY <2>1, <2>3, <2>4 DEF PoolInv, Used, Executing, WithCursor
  <2>11. QED
    BY <2>6, <2>7, <2>8, <2>9, <2>10 DEF PoolInv
<1>4. CASE TakeFree(c)
  <2>1. queue # << >>
    BY <1>1, <1>4 DEF TakeFree
  <2>2. QED
    BY <1>2, <1>4, <2>1 DEF TakeFree
<1>5. CASE TakeShared(c)
  <2>1. queue # << >>
    BY <1>1, <1>5, BoundsAssumption DEF TakeShared
  <2>2. QED
    BY <1>2, <1>5, <2>1 DEF TakeShared
<1>6. CASE Create(c)
  <2>1. phase[c] = "looking"
    BY <1>6 DEF Create, PoolInv, Locked
  <2>2. c \notin Members(queue)
    BY <2>1 DEF PoolInv, Queued, Members
  <2>3. /\ lock = c /\ Give(c, c) /\ queue' = Append(queue, c)
        /\ Len(queue) < MaxInterfaces
    BY <1>6 DEF Create
  <2>4. Len(queue') <= MaxInterfaces
    BY <1>1, <2>2, <2>3, AppendedQueue, BoundsAssumption
  <2>5. QED
    BY <1>1, <2>2, <2>3, <2>4, AppendedQueue, GiveKeeps
<1>7. CASE CreateFails(c)
  <2>1. CASE queue # << >>
    BY <1>2, <1>7, <2>1 DEF CreateFails
  <2>2. CASE queue = << >>
    <3>1. /\ phase' = [phase EXCEPT ![c] = "done"] /\ lock = c /\ lock' = None
          /\ UNCHANGED <<queue, left, users, iface>>
      BY <1>7, <2>2 DEF CreateFails
    <3>2. /\ phase \in [Calls -> Phases] /\ phase[c] = "looking"
          /\ \A d \in Calls : d # c => phase[d] # "looking"
      BY <3>1 DEF PoolInv, PoolType, Locked, Phases
    <3>3. \A d \in Calls : d # c => phase'[d] = phase[d]
      BY <3>1, <3>2
    <3>4. phase'[c] = "done"
      BY <3>1, <3>2
    <3>5. \A i : CallsOn(i)' = CallsOn(i) /\ CursorsOn(i)' = CursorsOn(i)
      BY <3>1, <3>2, <3>3, <3>4 DEF CallsOn, CursorsOn, Executing, WithCursor
    <3>6. PoolType'
      BY <3>1, <3>2 DEF PoolInv, PoolType, Phases
    <3>7. Locked'
      BY <3>1, <3>2, <3>3, <3>4, CallsAssumption DEF PoolInv, Locked
    <3>8. Queued'
      <4>1. \A k \in DOMAIN queue : queue[k] \in Calls
        BY <1>1 DEF Members
      <4>2. QED
        BY <3>1, <3>3, <3>4, <4>1 DEF PoolInv, Queued
    <3>9. Counted'
      BY <3>1, <3>5 DEF PoolInv, Counted, UsersOf
    <3>10. Used'
      BY <3>1, <3>3, <3>4 DEF PoolInv, Used, Executing, WithCursor
    <3>11. QED
      BY <3>6, <3>7, <3>8, <3>9, <3>10 DEF PoolInv
  <2>3. QED
    BY <2>1, <2>2
<1>8. QED
  BY <1>3, <1>4, <1>5, <1>6, <1>7 DEF Place

LEMMA PassOverKeeps ==
  ASSUME PoolInv, PassOver
  PROVE  PoolInv'
<1>1. /\ queue \in Seq(Calls) /\ left \in Nat /\ left > 0 /\ left <= Len(queue)
      /\ queue # << >> /\ Distinct(queue)
  BY DEF PoolInv, PoolType, Locked, Queued, PassOver
<1>2. /\ queue' = Rotated /\ left' = left - 1
      /\ UNCHANGED <<lock, users, phase, iface>>
  BY DEF PassOver
<1>3. /\ queue' \in Seq(Calls) /\ Len(queue') = Len(queue)
      /\ Members(queue') = Members(queue) /\ Distinct(queue')
  BY <1>1, <1>2, RotatedQueue
<1>4. \A i : UsersOf(i)' = UsersOf(i)
  BY <1>2 DEF UsersOf, CallsOn, CursorsOn
<1>5. \A k \in DOMAIN queue' : phase'[queue'[k]] \notin {"new", "looking"}
  <2>1. \A i \in Members(queue) : phase[i] \notin {"new", "looking"}
    BY DEF PoolInv, Queued, Members
  <2>2. \A k \in DOMAIN queue' : queue'[k] \in Members(queue')
    BY DEF Members
  <2>3. QED
    BY <1>2, <1>3, <2>1, <2>2
<1>6. PoolType' /\ Locked'
  BY <1>1, <1>2, <1>3 DEF PoolInv, PoolType, Locked
<1>7. QED
  BY <1>2, <1>3, <1>4, <1>5, <1>6 DEF PoolInv, Queued, Counted, Used

\* A freed interface has nobody.
LEMMA ReleaseMemoryKeeps ==
  ASSUME PoolInv, ReleaseMemory
  PROVE  PoolInv'
<1>1. queue \in Seq(Calls) /\ Len(queue) \in Nat /\ left \in Nat /\ left <= Len(queue)
  BY DEF PoolInv, PoolType, Locked
<1>2. CASE StartRelease \/ EndRelease
  <2>1. /\ lock \in {None, Manager} /\ lock' \in {None, Manager}
        /\ left' \in {left, Len(queue)} /\ UNCHANGED <<queue, users, phase, iface>>
    BY <1>2 DEF StartRelease, EndRelease
  <2>2. \A i : UsersOf(i)' = UsersOf(i)
    BY <2>1 DEF UsersOf, CallsOn, CursorsOn
  <2>3. PoolType' /\ Locked'
    BY <2>1, <1>1, CallsAssumption DEF PoolInv, PoolType, Locked
  <2>4. QED
    BY <2>1, <2>2, <2>3 DEF PoolInv, Queued, Counted, Used
<1>3. CASE FreeInterface
  <2> DEFINE h == Head(queue)
  <2>1. /\ lock = Manager /\ left > 0 /\ users[h] = 0 /\ queue' = Tail(queue)
        /\ left' = left - 1 /\ UNCHANGED <<lock, users, phase, iface>>
    BY <1>3 DEF FreeInterface
  <2>2. queue # << >> /\ Distinct(queue) /\ Len(queue) <= MaxInterfaces
    BY <1>1, <2>1 DEF PoolInv, Queued
  <2>3. /\ queue' \in Seq(Calls) /\ Len(queue') = Len(queue) - 1
        /\ Members(queue') = Members(queue) \ {h} /\ Distinct(queue')
    BY <1>1, <2>1, <2>2, TailQueue
  <2>4. h \in Calls
    BY <1>1, <2>2
  <2>5. UsersOf(h) = 0
    BY <2>1, <2>4 DEF PoolInv, Counted
  <2>6. CallsOn(h) = {} /\ CursorsOn(h) = {}
    BY <2>5, NobodyUses
  <2>7. Used'
    BY <2>1, <2>3, <2>6 DEF PoolInv, Used, CallsOn, CursorsOn
  <2>8. \A i : UsersOf(i)' = UsersOf(i)
    BY <2>1 DEF UsersOf, CallsOn, CursorsOn
  <2>9. \A k \in DOMAIN queue' : phase'[queue'[k]] \notin {"new", "looking"}
    BY <2>1, <2>3 DEF PoolInv, Queued, Members
  <2>10. PoolType' /\ Locked'
    BY <1>1, <2>1, <2>3 DEF PoolInv, PoolType, Locked
  <2>11. Queued'
    BY <2>2, <2>3, <2>9, <1>1, BoundsAssumption DEF Queued
  <2>12. QED
    BY <2>1, <2>7, <2>8, <2>10, <2>11 DEF PoolInv, Counted
<1>4. QED
  BY <1>2, <1>3 DEF ReleaseMemory

LEMMA StatementKeeps ==
  ASSUME PoolInv, NEW c \in Calls, Statement(c)
  PROVE  PoolInv'
<1>1. PICK p \in {"prepared", "bound", "failed"} :
        /\ phase[c] \in {"placed", "prepared"} /\ phase' = [phase EXCEPT ![c] = p]
        /\ UNCHANGED <<pool, iface>>
  BY DEF Statement, Reuse, Prepare, PrepareFails, Bind, BindFails
<1>2. /\ p \in Phases /\ p \in Executing /\ p \notin WithCursor
      /\ p \notin {"new", "looking"}
      /\ phase[c] \in Executing /\ phase[c] \notin WithCursor
      /\ phase[c] \notin {"new", "looking"}
  BY <1>1 DEF Phases, Executing, WithCursor
<1>3. QED
  BY <1>1, <1>2, PhaseKeeps

\* A call becomes a user once more, or once less, and others are not concerned.
LEMMA CountKeeps ==
  ASSUME PoolInv, UNCHANGED <<queue, lock, left, iface>>, NEW c \in Calls,
         NEW p \in Phases, phase' = [phase EXCEPT ![c] = p],
         phase[c] \notin {"new", "looking"}, p \notin {"new", "looking"},
         NEW n \in Int, users' = [users EXCEPT ![iface[c]] = @ + n],
         UsersOf(iface[c])' = UsersOf(iface[c]) + n,
         iface[c] \in Members(queue)
  PROVE  PoolInv'
<1>1. /\ phase \in [Calls -> Phases] /\ users \in [Calls -> Int] /\ iface[c] \in Calls
      /\ \A k \in DOMAIN queue : queue[k] \in Calls
  BY DEF PoolInv, PoolType, Phases, Members
<1>2. \A d \in Calls : d # c => phase'[d] = phase[d]
  BY <1>1
<1>3. phase'[c] = p
  BY <1>1
<1>4. PoolType'
  BY <1>1 DEF PoolInv, PoolType, Phases
<1>5. Locked'
  <2>1. phase[c] # "looking" /\ p # "looking"
    OBVIOUS
  <2>2. QED
    BY <1>2, <1>3, <2>1 DEF PoolInv, Locked
<1>6. Queued'
  BY <1>1, <1>2, <1>3 DEF PoolInv, Queued
<1>7. Counted'
  <2>1. ASSUME NEW i \in Calls, i # iface[c] PROVE UsersOf(i)' = UsersOf(i)
    <3>1. CallsOn(i)' = CallsOn(i) /\ CursorsOn(i)' = CursorsOn(i)
      BY <1>2, <2>1 DEF CallsOn, CursorsOn
    <3>2. QED
      BY <3>1 DEF UsersOf
  <2>2. QED
    BY <1>1, <2>1 DEF PoolInv, Counted
<1>8. Used'
  BY <1>2 DEF PoolInv, Used
<1>9. QED
  BY <1>4, <1>5, <1>6, <1>7, <1>8 DEF PoolInv

LEMMA CursorKeeps ==
  ASSUME PoolInv, NEW c \in Calls, Cursor(c)
  PROVE  PoolInv'
<1>1. phase \in [Calls -> Phases]
  BY DEF PoolInv, PoolType, Phases
<1>2. CASE IterNext(c) \/ IterFails(c) \/ Rewind(c)
  <2>1. UNCHANGED <<pool, phase, iface>>
    BY <1>2 DEF IterNext, IterFails, Rewind
  <2>2. QED
    BY <2>1, PoolQuiet
<1>3. CASE Release(c)
  <2>1. /\ phase[c] = "open" /\ phase' = [phase EXCEPT ![c] = "released"]
        /\ UNCHANGED <<pool, iface>>
    BY <1>3 DEF Release
  <2>2. /\ "released" \in Phases /\ "released" \in WithCursor /\ "open" \in WithCursor
        /\ "released" \notin Executing /\ "open" \notin Executing
    BY DEF Phases, Executing, WithCursor
  <2>3. QED
    BY <2>1, <2>2, PhaseKeeps
<1>4. CASE StartCursor(c)
  <2>1. /\ phase[c] = "bound" /\ phase' = [phase EXCEPT ![c] = "started"]
        /\ users' = [users EXCEPT ![iface[c]] = @ + 1]
        /\ UNCHANGED <<queue, lock, left, iface>>
    BY <1>4 DEF StartCursor
  <2>2. iface[c] \in Members(queue)
    BY <2>1 DEF PoolInv, Used, Executing
  <2>3. \A d \in Calls : d # c => phase'[d] = phase[d]
    BY <1>1, <2>1
  <2>4. phase'[c] = "started"
    BY <1>1, <2>1
  <2>5. /\ c \notin CursorsOn(iface[c])
        /\ CallsOn(iface[c])' = CallsOn(iface[c])
        /\ CursorsOn(iface[c])' = CursorsOn(iface[c]) \cup {c}
    BY <2>1, <2>3, <2>4 DEF CallsOn, CursorsOn, Executing, WithCursor
  <2>6. UsersOf(iface[c])' = UsersOf(iface[c]) + 1
    BY <2>1, <2>5, OneMoreCursor
  <2>7. /\ "started" \in Phases /\ "started" \notin {"new", "looking"}
        /\ phase[c] \notin {"new", "looking"} /\ 1 \in Int
    BY <2>1 DEF Phases, Executing
  <2>8. QED
    BY <2>1, <2>2, <2>6, <2>7, CountKeeps
<1>5. CASE EndExecute(c)
  <2>1. PICK p \in {"open", "done"} :
          /\ \/ phase[c] = "started" /\ p = "open"
             \/ phase[c] = "failed" /\ p = "done"
          /\ phase' = [phase EXCEPT ![c] = p]
          /\ users' = [users EXCEPT ![iface[c]] = @ - 1]
          /\ UNCHANGED <<queue, lock, left, iface>>
    <3>1. CASE phase[c] = "started"
      BY <1>5, <3>1, <1>1 DEF EndExecute
    <3>2. CASE phase[c] = "failed"
      BY <1>5, <3>2, <1>1 DEF EndExecute
    <3>3. QED
      BY <1>5, <3>1, <3>2 DEF EndExecute
  <2>2. iface[c] \in Members(queue) /\ iface[c] \in Calls /\ users \in [Calls -> Int]
    BY <2>1 DEF PoolInv, PoolType, Used, Members, Executing
  <2>3. \A d \in Calls : d # c => phase'[d] = phase[d]
    BY <1>1, <2>1
  <2>4. phase'[c] = p
    BY <1>1, <2>1
  <2>5. /\ c \in CallsOn(iface[c])
        /\ CallsOn(iface[c])' = CallsOn(iface[c]) \ {c}
        /\ CursorsOn(iface[c])' = CursorsOn(iface[c])
    BY <2>1, <2>3, <2>4 DEF CallsOn, CursorsOn, Executing, WithCursor
  <2>6. UsersOf(iface[c])' = UsersOf(iface[c]) + (-1)
    <3>1. UsersOf(iface[c])' = UsersOf(iface[c]) - 1
      BY <2>1, <2>5, OneCallLess
    <3>2. UsersOf(iface[c]) \in Int
      BY OnFinite DEF UsersOf
    <3>3. QED
      BY <3>1, <3>2
  <2>7. users' = [users EXCEPT ![iface[c]] = @ + (-1)]
    BY <2>1, <2>2
  <2>8. /\ p \in Phases /\ p \notin {"new", "looking"} /\ -1 \in Int
        /\ phase[c] \notin {"new", "looking"}
    BY <2>1 DEF Phases
  <2>9. QED
    BY <2>1, <2>2, <2>6, <2>7, <2>8, CountKeeps
<1>6. CASE Unuse(c)
  <2>1. /\ phase[c] = "released" /\ phase' = [phase EXCEPT ![c] = "done"]
        /\ users' = [users EXCEPT ![iface[c]] = @ - 1]
        /\ UNCHANGED <<queue, lock, left, iface>>
    BY <1>6 DEF Unuse
  <2>2. iface[c] \in Members(queue) /\ iface[c] \in Calls /\ users \in [Calls -> Int]
    BY <2>1 DEF PoolInv, PoolType, Used, Members, WithCursor
  <2>3. \A d \in Calls : d # c => phase'[d] = phase[d]
    BY <1>1, <2>1
  <2>4. phase'[c] = "done"
    BY <1>1, <2>1
  <2>5. /\ c \in CursorsOn(iface[c])
        /\ CallsOn(iface[c])' = CallsOn(iface[c])
        /\ CursorsOn(iface[c])' = CursorsOn(iface[c]) \ {c}
    BY <2>1, <2>3, <2>4 DEF CallsOn, CursorsOn, Executing, WithCursor
  <2>6. UsersOf(iface[c])' = UsersOf(iface[c]) + (-1)
    <3>1. UsersOf(iface[c])' = UsersOf(iface[c]) - 1
      BY <2>1, <2>5, OneCursorLess
    <3>2. UsersOf(iface[c]) \in Int
      BY OnFinite DEF UsersOf
    <3>3. QED
      BY <3>1, <3>2
  <2>7. users' = [users EXCEPT ![iface[c]] = @ + (-1)]
    BY <2>1, <2>2
  <2>8. /\ "done" \in Phases /\ "done" \notin {"new", "looking"} /\ -1 \in Int
        /\ phase[c] \notin {"new", "looking"}
    BY <2>1 DEF Phases
  <2>9. QED
    BY <2>1, <2>2, <2>6, <2>7, <2>8, CountKeeps
<1>7. QED
  BY <1>2, <1>3, <1>4, <1>5, <1>6 DEF Cursor

LEMMA PoolInit == Init => PoolInv
<1> SUFFICES ASSUME Init PROVE PoolInv
  OBVIOUS
<1>1. PoolType
  BY DEF Init, PoolType
<1>2. Locked /\ Queued /\ Used
  BY CallsAssumption, BoundsAssumption
  DEF Init, Locked, Queued, Used, Distinct, Executing, WithCursor
<1>3. Counted
  <2>1. \A i \in Calls : CallsOn(i) = {} /\ CursorsOn(i) = {}
    BY DEF Init, CallsOn, CursorsOn, Executing, WithCursor
  <2>2. Cardinality({}) = 0
    BY FS_EmptySet
  <2>3. \A i \in Calls : UsersOf(i) = 0
    BY <2>1, <2>2 DEF UsersOf
  <2>4. QED
    BY <2>3 DEF Init, Counted
<1>4. QED
  BY <1>1, <1>2, <1>3 DEF PoolInv

LEMMA PoolStep == PoolInv /\ [Next]_vars => PoolInv'
<1> SUFFICES ASSUME PoolInv, [Next]_vars PROVE PoolInv'
  OBVIOUS
<1>1. CASE PassOver
  BY <1>1, PassOverKeeps
<1>2. CASE ReleaseMemory
  BY <1>2, ReleaseMemoryKeeps
<1>3. CASE Update \/ UNCHANGED vars
  <2>1. UNCHANGED <<pool, phase, iface>>
    BY <1>3 DEF Update, vars, pool
  <2>2. QED
    BY <2>1, PoolQuiet
<1>4. ASSUME NEW c \in Calls, Place(c) \/ Statement(c) \/ Cursor(c)
      PROVE  PoolInv'
  BY <1>4, PlaceKeeps, StatementKeeps, CursorKeeps
<1>5. QED
  BY <1>1, <1>2, <1>3, <1>4 DEF Next

\* An interface is in the pool as long as a call or a cursor has it, and its number
\* of users counts them, for any calls, pool, failures and releases of memory
\* (tracker_db_manager_get_db_interface, tracker_db_manager_release_memory).
THEOREM InterfacesKept == Spec => []KeptWhileUsed
<1>1. PoolInv => KeptWhileUsed
  BY DEF PoolInv, PoolType, Queued, Counted, Used, KeptWhileUsed, Members
<1>2. QED
  BY <1>1, PoolInit, PoolStep, PTL DEF Spec

-----------------------------------------------------------------------------
(***************************************************************************)
(* Statements and cursors.  LoanInv says who has which statement: a call   *)
(* from the time it is lent one until its cursor is closed, nobody else,   *)
(* and that a statement is active only for the cursor that has it.         *)
(***************************************************************************)
\* The phases before a call has a statement, and those in which it has one.
Fresh == {"new", "looking", "placed"}
Lending == {"prepared", "bound", "started", "open"}

DataType ==
  /\ cache \in [Calls -> Seq(Calls)] /\ lent \subseteq Calls /\ grabbed \subseteq Calls
  /\ bound \in [Calls -> Calls \cup {None}] /\ at \in [Calls -> Nat]
  /\ reads \in [Calls -> Nat \cup {None}] /\ version \in Nat
  /\ stmt \in [Calls -> Calls \cup {None}]
  /\ rows \in [Calls -> Seq([of : Calls \cup {None}, n : Nat, version : Nat])]
  /\ ended \in [Calls -> {"no", "yes", "error"}]
  /\ asked \in [Calls -> Nat] /\ shared \subseteq Calls
  /\ releases \in Nat /\ faults \in Nat

\* What a call has before its statement is prepared, and the statement named for it.
FreshClean ==
  \A s \in Calls : phase[s] \in Fresh =>
    /\ s \notin lent /\ at[s] = 0 /\ bound[s] = None /\ reads[s] = None
    /\ rows[s] = << >> /\ ended[s] = "no"

\* A statement is lent to one call at a time, which is on its interface.
LentOnce ==
  /\ \A c \in Calls : phase[c] \in Lending =>
       /\ stmt[c] \in Calls /\ phase[stmt[c]] \notin Fresh /\ iface[stmt[c]] = iface[c]
       /\ stmt[c] \in lent \/ (stmt[c] = c /\ c \notin Cached)
  /\ \A c, d \in Calls :
       phase[c] \in Lending /\ phase[d] \in Lending /\ stmt[c] = stmt[d] => c = d

\* Only statements of cursors are in use, as the assertions of
\* tracker_db_statement_sqlite_grab and tracker_db_statement_bind_int want.
GrabbedByCursors ==
  \A s \in grabbed : \E c \in Calls : phase[c] \in {"started", "open"} /\ stmt[c] = s

\* The statements of a cache are of its interface, cacheable, of different texts, no
\* more than it may have, and clean unless they are lent.
TidyCache(i) ==
  /\ Len(cache[i]) <= MaxStatements
  /\ \A k \in DOMAIN cache[i] :
       LET s == cache[i][k]
       IN  /\ s \in Cached /\ iface[s] = i /\ phase[s] \notin Fresh
           /\ s \notin lent => at[s] = 0 /\ bound[s] = None
  /\ \A k, m \in DOMAIN cache[i] : k # m => ~SameText(cache[i][k], cache[i][m])

TidyCaches == \A i \in Calls : TidyCache(i)

\* What a call that has a statement finds in it.
CursorState(c) ==
  /\ phase[c] \in {"prepared", "bound", "started"} =>
       /\ at[stmt[c]] = 0 /\ reads[stmt[c]] = None
       /\ rows[c] = << >> /\ ended[c] = "no"
  /\ phase[c] \in {"bound", "started", "open"} => bound[stmt[c]] = c
  /\ phase[c] = "open" =>
       /\ \A k \in DOMAIN rows[c] :
            /\ rows[c][k] = [of |-> c, n |-> k, version |-> rows[c][1].version]
            /\ c \notin shared => rows[c][k].version >= asked[c]
       /\ ended[c] = "yes" => Len(rows[c]) = Rows
       /\ ended[c] = "no" =>
            /\ at[stmt[c]] = Len(rows[c]) /\ Len(rows[c]) <= Rows
            /\ reads[stmt[c]] = IF rows[c] = << >> THEN None ELSE rows[c][1].version

CursorStates == \A c \in Calls : CursorState(c)

\* A statement is active only for an open cursor; those of one interface read one
\* version, and one no older than a call that has the interface for itself.
OneSnapshot ==
  /\ \A s \in Calls : reads[s] # None =>
       \E c \in Calls : phase[c] = "open" /\ stmt[c] = s /\ ended[c] = "no"
  /\ \A s, t \in Calls :
       iface[s] = iface[t] /\ reads[s] # None /\ reads[t] # None => reads[s] = reads[t]
  /\ \A c \in Calls : asked[c] <= version
  /\ \A c \in Calls \ shared, s \in Calls :
       phase[c] \in Executing \cup WithCursor /\ iface[s] = iface[c] /\ reads[s] # None
         => reads[s] >= asked[c]

LoanInv ==
  /\ DataType /\ FreshClean /\ LentOnce /\ GrabbedByCursors
  /\ TidyCaches /\ CursorStates /\ OneSnapshot

LEMMA LoanInit == Init => LoanInv
<1> SUFFICES ASSUME Init PROVE LoanInv
  OBVIOUS
<1>1. DataType
  BY DEF Init, DataType
<1>2. \A c \in Calls : phase[c] \notin Lending /\ phase[c] \notin Executing \cup WithCursor
  BY DEF Init, Lending, Executing, WithCursor
<1>3. FreshClean /\ LentOnce /\ GrabbedByCursors /\ OneSnapshot
  BY <1>2 DEF Init, FreshClean, LentOnce, GrabbedByCursors, OneSnapshot
<1>4. TidyCaches
  BY BoundsAssumption DEF Init, TidyCaches, TidyCache
<1>5. CursorStates
  BY DEF Init, CursorStates, CursorState
<1>6. QED
  BY <1>1, <1>3, <1>4, <1>5 DEF LoanInv

\* Steps that leave the calls, their statements and cursors alone: at most, time goes on.
LEMMA LoanQuiet ==
  ASSUME LoanInv, UNCHANGED <<statements, reads, phase, iface, stmt, cursors, asked, shared>>,
         version' \in Nat, version <= version', releases' \in Nat, faults' \in Nat
  PROVE  LoanInv'
<1> USE DEF statements, cursors
<1>1. DataType'
  BY DEF LoanInv, DataType
<1>2. FreshClean' /\ LentOnce' /\ GrabbedByCursors'
  BY DEF LoanInv, FreshClean, LentOnce, GrabbedByCursors
<1>3. TidyCaches'
  BY DEF LoanInv, TidyCaches, TidyCache
<1>4. CursorStates'
  BY DEF LoanInv, CursorStates, CursorState
<1>5. OneSnapshot'
  <2>1. \A c \in Calls : asked[c] \in Nat
    BY DEF LoanInv, DataType
  <2>2. version \in Nat
    BY DEF LoanInv, DataType
  <2>3. QED
    BY <2>1, <2>2 DEF LoanInv, OneSnapshot
<1>6. QED
  BY <1>1, <1>2, <1>3, <1>4, <1>5 DEF LoanInv

\* The cache of a freed interface is emptied.
LEMMA LoanFree == LoanInv /\ FreeInterface => LoanInv'
<1> SUFFICES ASSUME LoanInv, FreeInterface PROVE LoanInv'
  OBVIOUS
<1>1. /\ cache' = [cache EXCEPT ![Head(queue)] = << >>]
      /\ UNCHANGED <<lent, grabbed, bound, at, reads, version, phase, iface, stmt, cursors,
                     history>>
  BY DEF FreeInterface
<1> USE DEF cursors, history
<1>2. DataType'
  <2>1. << >> \in Seq(Calls)
    OBVIOUS
  <2>2. cache' \in [Calls -> Seq(Calls)]
    BY <1>1, <2>1 DEF LoanInv, DataType
  <2>3. QED
    BY <1>1, <2>2 DEF LoanInv, DataType
<1>3. FreshClean' /\ LentOnce' /\ GrabbedByCursors' /\ OneSnapshot'
  BY <1>1 DEF LoanInv, FreshClean, LentOnce, GrabbedByCursors, OneSnapshot
<1>4. ASSUME NEW i \in Calls PROVE TidyCache(i)'
  <2>1. cache'[i] = << >> \/ cache'[i] = cache[i]
    BY <1>1 DEF LoanInv, DataType
  <2>2. CASE cache'[i] = << >>
    BY <2>2, BoundsAssumption DEF TidyCache
  <2>3. CASE cache'[i] = cache[i]
    BY <1>1, <2>3 DEF LoanInv, TidyCaches, TidyCache
  <2>4. QED
    BY <2>1, <2>2, <2>3
<1>5. CursorStates'
  BY <1>1 DEF LoanInv, CursorStates, CursorState
<1>6. QED
  BY <1>2, <1>3, <1>4, <1>5 DEF LoanInv, TidyCaches

\* What a statement in a cache is.
LEMMA InCache ==
  ASSUME LoanInv, NEW i \in Calls, NEW k \in DOMAIN cache[i]
  PROVE  /\ cache[i][k] \in Calls /\ cache[i][k] \in Cached
         /\ iface[cache[i][k]] = i /\ phase[cache[i][k]] \notin Fresh
<1>1. cache[i] \in Seq(Calls)
  BY DEF LoanInv, DataType
<1>2. cache[i][k] \in Calls
  BY <1>1
<1>3. QED
  BY <1>2 DEF LoanInv, TidyCaches, TidyCache

\* The phase of one call changes.
LEMMA PhaseChange ==
  ASSUME PoolInv, NEW c \in Calls, NEW p, phase' = [phase EXCEPT ![c] = p]
  PROVE  phase'[c] = p /\ \A d \in Calls : d # c => phase'[d] = phase[d]
  BY DEF PoolInv, PoolType

LEMMA LoanTakeLock == 
  ASSUME PoolInv, LoanInv, NEW c \in Calls, TakeLock(c)
  PROVE  LoanInv'
<1>1. /\ phase[c] = "new" /\ phase' = [phase EXCEPT ![c] = "looking"]
      /\ asked' = [asked EXCEPT ![c] = version]
      /\ UNCHANGED <<statements, reads, version, iface, stmt, cursors, shared, releases,
                     faults>>
  BY DEF TakeLock
<1>2. phase'[c] = "looking" /\ \A d \in Calls : d # c => phase'[d] = phase[d]
  BY <1>1, PhaseChange
<1>3. \A d \in Calls :
        /\ phase'[d] \in Fresh <=> phase[d] \in Fresh
        /\ \A P \in {Lending, {"started", "open"}, {"bound", "started", "open"}, {"open"},
                     {"prepared", "bound", "started"}, Executing \cup WithCursor} :
             phase'[d] \in P => phase[d] \in P /\ d # c
  BY <1>1, <1>2 DEF Fresh, Lending, Executing, WithCursor
<1> USE DEF statements, cursors
<1>4. DataType'
  BY <1>1 DEF LoanInv, DataType
<1>5. FreshClean'
  BY <1>1, <1>3 DEF LoanInv, FreshClean
<1>6. LentOnce'
  BY <1>1, <1>3 DEF LoanInv, LentOnce
<1>7. GrabbedByCursors'
  <2>1. \A d \in Calls : phase[d] \in {"started", "open"} => phase'[d] = phase[d]
    BY <1>1, <1>2
  <2>2. QED
    BY <1>1, <2>1 DEF LoanInv, GrabbedByCursors
<1>8. TidyCaches'
  <2>1. \A i \in Calls : \A k \in DOMAIN cache[i] : cache[i][k] \in Calls
    BY InCache
  <2>2. QED
    BY <1>1, <1>3, <2>1 DEF LoanInv, TidyCaches, TidyCache
<1>9. ASSUME NEW d \in Calls PROVE CursorState(d)'
  <2>1. CASE d = c
    BY <1>2, <2>1 DEF CursorState
  <2>2. CASE d # c
    <3>1. phase'[d] = phase[d] /\ asked'[d] = asked[d]
      BY <1>1, <1>2, <2>2 DEF LoanInv, DataType
    <3>2. QED
      BY <1>1, <3>1 DEF LoanInv, CursorStates, CursorState
  <2>3. QED
    BY <2>1, <2>2
<1>10. OneSnapshot'
  <2>1. \A d \in Calls : phase[d] = "open" => phase'[d] = "open"
    BY <1>1, <1>2
  <2>2. version \in Nat /\ \A d \in Calls :
          /\ asked'[d] = IF d = c THEN version ELSE asked[d]
          /\ asked[d] \in Nat
    BY <1>1 DEF LoanInv, DataType
  <2>3. phase'[c] \notin Executing \cup WithCursor
    BY <1>2 DEF Executing, WithCursor
  <2>4. QED
    BY <1>1, <1>2, <2>1, <2>2, <2>3 DEF LoanInv, OneSnapshot
<1>11. QED
  BY <1>4, <1>5, <1>6, <1>7, <1>8, <1>9, <1>10 DEF LoanInv, CursorStates

\* A call given an interface that has no users finds no statement active on it.
LEMMA LoanGive ==
  ASSUME PoolInv, LoanInv, NEW c \in Calls, NEW i \in Calls, lock = c, Give(c, i),
         faults' \in Nat
  PROVE  LoanInv'
<1>1. /\ phase' = [phase EXCEPT ![c] = "placed"] /\ iface' = [iface EXCEPT ![c] = i]
      /\ shared' = IF users[i] > 0 THEN shared \cup {c} ELSE shared
      /\ UNCHANGED <<statements, reads, version, stmt, cursors, asked, releases>>
  BY DEF Give
<1>2. phase[c] = "looking"
  BY DEF PoolInv, Locked
<1>3. phase'[c] = "placed" /\ \A d \in Calls : d # c => phase'[d] = phase[d]
  BY <1>1, PhaseChange
<1>4. iface'[c] = i /\ \A d \in Calls : d # c => iface'[d] = iface[d]
  BY <1>1 DEF PoolInv, PoolType
<1>5. phase[c] \in Fresh /\ phase'[c] \in Fresh
  BY <1>2, <1>3 DEF Fresh
<1>6. phase'[c] \notin Lending /\ phase[c] \notin Lending
  BY <1>2, <1>3 DEF Lending
<1> USE DEF statements, cursors
<1>7. DataType'
  BY <1>1 DEF LoanInv, DataType
<1>8. FreshClean'
  BY <1>1, <1>3, <1>5 DEF LoanInv, FreshClean
<1>9. LentOnce'
  <2>1. \A d \in Calls : phase'[d] \in Lending =>
          /\ d # c /\ phase[d] \in Lending
          /\ stmt[d] \in Calls /\ stmt[d] # c /\ phase'[stmt[d]] \notin Fresh
          /\ iface'[stmt[d]] = iface'[d]
    BY <1>3, <1>4, <1>5, <1>6 DEF LoanInv, LentOnce
  <2>2. QED
    BY <1>1, <2>1 DEF LoanInv, LentOnce
<1>10. GrabbedByCursors'
  BY <1>1, <1>2, <1>3 DEF LoanInv, GrabbedByCursors
<1>11. TidyCaches'
  <2>1. \A j \in Calls : \A k \in DOMAIN cache[j] : cache[j][k] \in Calls \ {c}
    BY <1>5, InCache
  <2>2. QED
    BY <1>1, <1>3, <1>4, <2>1 DEF LoanInv, TidyCaches, TidyCache
<1>12. ASSUME NEW d \in Calls PROVE CursorState(d)'
  <2>1. CASE d = c
    BY <1>3, <2>1 DEF CursorState
  <2>2. CASE d # c
    <3>1. phase'[d] = phase[d] /\ (d \in shared' <=> d \in shared)
      BY <1>1, <1>3, <2>2
    <3>2. QED
      BY <1>1, <3>1 DEF LoanInv, CursorStates, CursorState
  <2>3. QED
    BY <2>1, <2>2
<1>13. OneSnapshot'
  <2>1. reads[c] = None
    BY <1>5 DEF LoanInv, FreshClean
  <2>2. ASSUME c \notin shared', NEW s \in Calls, iface'[s] = i PROVE reads[s] = None
    <3>1. users[i] = 0
      <4>1. users[i] \in Int /\ ~(users[i] > 0)
        BY <1>1, <2>2 DEF PoolInv, PoolType
      <4>2. users[i] = UsersOf(i) /\ UsersOf(i) \in Nat
        BY OnFinite DEF PoolInv, Counted, UsersOf
      <4>3. QED
        BY <4>1, <4>2
    <3>2. CursorsOn(i) = {}
      BY <3>1, NobodyUses DEF PoolInv, Counted
    <3>3. ASSUME reads[s] # None PROVE FALSE
      <4>1. s # c /\ iface[s] = i
        BY <1>4, <2>1, <2>2, <3>3
      <4>2. PICK d \in Calls : phase[d] = "open" /\ stmt[d] = s
        BY <3>3 DEF LoanInv, OneSnapshot
      <4>3. iface[d] = i
        BY <4>1, <4>2 DEF LoanInv, LentOnce, Lending
      <4>4. QED
        BY <3>2, <4>2, <4>3 DEF CursorsOn, WithCursor
    <3>4. QED
      BY <3>3
  <2>3. \A s \in Calls : reads[s] # None =>
          \E d \in Calls : phase'[d] = "open" /\ stmt[d] = s /\ ended[d] = "no"
    BY <1>2, <1>3 DEF LoanInv, OneSnapshot
  <2>4. \A s, t \in Calls :
          iface'[s] = iface'[t] /\ reads[s] # None /\ reads[t] # None => reads[s] = reads[t]
    BY <1>4, <2>1 DEF LoanInv, OneSnapshot
  <2>5. \A d \in Calls \ shared', s \in Calls :
          phase'[d] \in Executing \cup WithCursor /\ iface'[s] = iface'[d] /\ reads[s] # None
            => reads[s] >= asked[d]
    <3> SUFFICES ASSUME NEW d \in Calls, d \notin shared', NEW s \in Calls,
                        phase'[d] \in Executing \cup WithCursor, iface'[s] = iface'[d],
                        reads[s] # None
                 PROVE  reads[s] >= asked[d]
      OBVIOUS
    <3>1. d # c /\ s # c
      BY <1>4, <2>1, <2>2
    <3>2. d \notin shared
      BY <1>1
    <3>3. QED
      BY <1>3, <1>4, <3>1, <3>2 DEF LoanInv, OneSnapshot
  <2>6. QED
    BY <1>1, <2>3, <2>4, <2>5 DEF LoanInv, OneSnapshot
<1>14. QED
  BY <1>7, <1>8, <1>9, <1>10, <1>11, <1>12, <1>13 DEF LoanInv, CursorStates

\* A call that neither had nor gets a statement ends, or goes on to fail.
LEMMA LoanGoesOn ==
  ASSUME PoolInv, LoanInv, NEW c \in Calls, NEW p \in {"done", "failed"},
         phase' = [phase EXCEPT ![c] = p], phase[c] \in {"looking", "placed", "failed"},
         p = "failed" => phase[c] = "placed",
         UNCHANGED <<statements, reads, version, iface, stmt, cursors, asked, shared>>,
         releases' \in Nat, faults' \in Nat
  PROVE  LoanInv'
<1>1. phase'[c] = p /\ \A d \in Calls : d # c => phase'[d] = phase[d]
  BY PhaseChange
<1>2. \A d \in Calls :
        /\ phase'[d] \in Fresh => phase[d] \in Fresh
        /\ phase'[d] \in Lending <=> phase[d] \in Lending
        /\ phase'[d] = "open" <=> phase[d] = "open"
        /\ phase'[d] = "started" <=> phase[d] = "started"
        /\ phase'[d] \in Executing \cup WithCursor => phase[d] \in Executing \cup WithCursor
  BY <1>1 DEF Fresh, Lending, Executing, WithCursor
<1> USE DEF statements, cursors
<1>3. DataType'
  BY DEF LoanInv, DataType
<1>4. FreshClean'
  BY <1>2 DEF LoanInv, FreshClean
<1>5. LentOnce'
  BY <1>2 DEF LoanInv, LentOnce
<1>6. GrabbedByCursors'
  BY <1>2 DEF LoanInv, GrabbedByCursors
<1>7. TidyCaches'
  <2>1. \A i \in Calls : \A k \in DOMAIN cache[i] : cache[i][k] \in Calls
    BY InCache
  <2>2. QED
    BY <1>2, <2>1 DEF LoanInv, TidyCaches, TidyCache
<1>8. ASSUME NEW d \in Calls PROVE CursorState(d)'
  <2>1. CASE d = c
    BY <1>1, <2>1 DEF CursorState
  <2>2. CASE d # c
    BY <1>1, <2>2 DEF LoanInv, CursorStates, CursorState
  <2>3. QED
    BY <2>1, <2>2
<1>9. OneSnapshot'
  BY <1>2 DEF LoanInv, OneSnapshot
<1>10. QED
  BY <1>3, <1>4, <1>5, <1>6, <1>7, <1>8, <1>9 DEF LoanInv, CursorStates

LEMMA LoanPlace ==
  ASSUME PoolInv, LoanInv, NEW c \in Calls, Place(c)
  PROVE  LoanInv'
<1>1. /\ queue \in Seq(Calls) /\ Len(queue) \in Nat /\ left \in Nat
      /\ left <= Len(queue) /\ faults \in Nat
      /\ queue # << >> => Head(queue) \in Calls
  BY DEF PoolInv, PoolType, Locked, LoanInv, DataType
<1>2. CASE TakeLock(c)
  BY <1>2, LoanTakeLock
<1>3. CASE TakeFree(c)
  <2>1. lock = c /\ queue # << >> /\ Give(c, Head(queue)) /\ faults' = faults
    BY <1>1, <1>3 DEF TakeFree
  <2>2. QED
    BY <1>1, <2>1, LoanGive
<1>4. CASE TakeShared(c)
  <2>1. lock = c /\ queue # << >> /\ Give(c, Head(queue)) /\ faults' = faults
    BY <1>1, <1>4, BoundsAssumption DEF TakeShared
  <2>2. QED
    BY <1>1, <2>1, LoanGive
<1>5. CASE Create(c)
  BY <1>1, <1>5, LoanGive DEF Create
<1>6. CASE CreateFails(c)
  <2>1. lock = c /\ faults' \in Nat
    BY <1>1, <1>6 DEF CreateFails, Fault
  <2>2. CASE queue # << >>
    <3>1. Give(c, Head(queue))
      BY <1>6, <2>2 DEF CreateFails
    <3>2. QED
      BY <1>1, <2>1, <2>2, <3>1, LoanGive
  <2>3. CASE queue = << >>
    <3>1. /\ phase' = [phase EXCEPT ![c] = "done"]
          /\ UNCHANGED <<statements, reads, version, iface, stmt, cursors, asked, shared,
                         releases>>
      BY <1>6, <2>3 DEF CreateFails
    <3>2. phase[c] = "looking" /\ releases \in Nat
      BY <2>1 DEF PoolInv, Locked, LoanInv, DataType
    <3>3. QED
      BY <2>1, <3>1, <3>2, LoanGoesOn
  <2>4. QED
    BY <2>2, <2>3
<1>7. QED
  BY <1>2, <1>3, <1>4, <1>5, <1>6 DEF Place

\* Moving a statement last only reorders the cache.
LEMMA MovedLastCache ==
  ASSUME NEW q \in Seq(Calls), NEW s \in Members(q)
  PROVE  /\ MovedLast(q, s) \in Seq(Calls) /\ Len(MovedLast(q, s)) = Len(q)
         /\ \E f \in [DOMAIN q -> DOMAIN q] :
              /\ \A j \in DOMAIN q : MovedLast(q, s)[j] = q[f[j]]
              /\ \A j, m \in DOMAIN q : f[j] = f[m] => j = m
<1> DEFINE k == CHOOSE k \in DOMAIN q : q[k] = s
           r == [j \in 1 .. Len(q) |->
                   IF j < k THEN q[j] ELSE IF j < Len(q) THEN q[j + 1] ELSE s]
           f == [j \in DOMAIN q |-> IF j < k THEN j ELSE IF j < Len(q) THEN j + 1 ELSE k]
<1>1. Len(q) \in Nat /\ DOMAIN q = 1 .. Len(q) /\ \A j \in DOMAIN q : q[j] \in Calls
  OBVIOUS
<1>2. k \in DOMAIN q /\ q[k] = s
  BY DEF Members
<1>3. MovedLast(q, s) = r
  BY DEF MovedLast
<1> HIDE DEF k
<1>4. f \in [DOMAIN q -> DOMAIN q]
  BY <1>1, <1>2
<1>5. \A j \in DOMAIN q : r[j] = q[f[j]]
  BY <1>1, <1>2
<1>6. \A j, m \in DOMAIN q : f[j] = f[m] => j = m
  BY <1>1, <1>2
<1>7. r \in Seq(Calls) /\ Len(r) = Len(q)
  <2>1. \A j \in 1 .. Len(q) : r[j] \in Calls
    BY <1>1, <1>4, <1>5
  <2>2. r \in [1 .. Len(q) -> Calls]
    BY <2>1
  <2>3. QED
    BY <1>1, <2>2, IsASeq
<1> HIDE DEF r, f
<1>8. QED
  BY <1>3, <1>4, <1>5, <1>6, <1>7

\* Inserting a statement puts it last, and at most the first one goes.
LEMMA InsertedCache ==
  ASSUME NEW q \in Seq(Calls), NEW s \in Calls, Len(q) <= MaxStatements
  PROVE  /\ Inserted(q, s) \in Seq(Calls)
         /\ Len(Inserted(q, s)) \in Nat \ {0} /\ Len(Inserted(q, s)) <= MaxStatements
         /\ Inserted(q, s)[Len(Inserted(q, s))] = s
         /\ \E d \in {0, 1} : \A j \in 1 .. Len(Inserted(q, s)) - 1 :
              j + d \in DOMAIN q /\ Inserted(q, s)[j] = q[j + d]
<1> DEFINE t == IF Len(q) >= MaxStatements THEN Tail(q) ELSE q
           r == Append(t, s)
<1>1. Len(q) \in Nat /\ MaxStatements \in Nat \ {0} /\ DOMAIN q = 1 .. Len(q)
  BY BoundsAssumption
<1>2. Inserted(q, s) = r
  BY DEF Inserted
<1>0. t = IF Len(q) >= MaxStatements THEN Tail(q) ELSE q
  OBVIOUS
<1> HIDE DEF t
<1>3. /\ t \in Seq(Calls) /\ Len(t) \in Nat /\ Len(t) < MaxStatements
      /\ \E d \in {0, 1} : \A j \in 1 .. Len(t) : j + d \in DOMAIN q /\ t[j] = q[j + d]
  <2>1. CASE Len(q) >= MaxStatements
    <3>1. t = Tail(q) /\ q # << >>
      BY <1>0, <1>1, <2>1
    <3>2. /\ t \in Seq(Calls) /\ Len(t) = Len(q) - 1
          /\ \A j \in 1 .. Len(t) : t[j] = q[j + 1]
      BY <3>1, HeadTailProperties
    <3>3. \A j \in 1 .. Len(t) : j + 1 \in DOMAIN q
      BY <1>1, <3>2
    <3>4. QED
      BY <1>1, <2>1, <3>2, <3>3
  <2>2. CASE ~(Len(q) >= MaxStatements)
    <3>1. t = q /\ Len(q) < MaxStatements
      BY <1>0, <1>1, <2>2
    <3>2. \A j \in 1 .. Len(t) : j + 0 \in DOMAIN q /\ t[j] = q[j + 0]
      BY <1>1, <3>1
    <3>3. QED
      BY <1>1, <3>1, <3>2
  <2>3. QED
    BY <2>1, <2>2
<1>4. /\ r \in Seq(Calls) /\ Len(r) = Len(t) + 1 /\ r[Len(r)] = s
      /\ \A j \in 1 .. Len(t) : r[j] = t[j]
  BY <1>3
<1> HIDE DEF r
<1>5. Len(r) - 1 = Len(t) /\ Len(r) \in Nat \ {0} /\ Len(r) <= MaxStatements
  BY <1>1, <1>3, <1>4
<1>6. \E d \in {0, 1} : \A j \in 1 .. Len(r) - 1 : j + d \in DOMAIN q /\ r[j] = q[j + d]
  BY <1>3, <1>4, <1>5
<1>7. QED
  BY <1>2, <1>4, <1>5, <1>6

\* A call is lent a clean statement that nobody has, or the one prepared for it.
LEMMA LoanTaken ==
  ASSUME PoolInv, LoanInv, NEW c \in Calls, NEW s \in Calls, phase[c] = "placed",
         phase' = [phase EXCEPT ![c] = "prepared"], stmt' = [stmt EXCEPT ![c] = s],
         UNCHANGED <<grabbed, bound, at, reads, version, iface, cursors, history>>,
         \/ s = c
         \/ phase[s] \notin Fresh /\ s \in Cached /\ s \notin lent,
         iface[s] = iface[c], at[s] = 0, reads[s] = None,
         lent' = lent \cup {s} \/ (lent' = lent /\ s = c /\ c \notin Cached),
         cache' \in [Calls -> Seq(Calls)], TidyCaches'
  PROVE  LoanInv'
<1>1. phase'[c] = "prepared" /\ \A d \in Calls : d # c => phase'[d] = phase[d]
  BY PhaseChange
<1>2. stmt'[c] = s /\ \A d \in Calls : d # c => stmt'[d] = stmt[d]
  BY DEF LoanInv, DataType
<1>3. /\ phase[c] \in Fresh /\ phase'[c] \notin Fresh
      /\ phase[c] \notin Lending /\ phase'[c] \in Lending
      /\ phase[c] \in Executing /\ phase'[c] \in Executing
      /\ phase[c] \notin WithCursor /\ phase'[c] \notin WithCursor
  BY <1>1 DEF Fresh, Lending, Executing, WithCursor
<1> USE DEF cursors, history
<1>4. DataType'
  BY DEF LoanInv, DataType
<1>5. FreshClean'
  BY <1>1, <1>3 DEF LoanInv, FreshClean
<1>6. LentOnce'
  <2>1. /\ phase'[s] \notin Fresh /\ iface'[s] = iface'[c]
        /\ s \in lent' \/ (s = c /\ c \notin Cached)
    BY <1>1, <1>3
  <2>2. ASSUME NEW d \in Calls, d # c, phase'[d] \in Lending
        PROVE  /\ phase[d] \in Lending /\ stmt'[d] = stmt[d]
               /\ stmt[d] \in Calls /\ phase'[stmt[d]] \notin Fresh
               /\ iface'[stmt[d]] = iface'[d]
               /\ stmt[d] \in lent' \/ (stmt[d] = d /\ d \notin Cached)
               /\ stmt[d] # s
    <3>1. /\ phase[d] \in Lending /\ stmt'[d] = stmt[d]
      BY <1>1, <1>2, <2>2
    <3>2. /\ stmt[d] \in Calls /\ phase[stmt[d]] \notin Fresh /\ iface[stmt[d]] = iface[d]
          /\ stmt[d] \in lent \/ (stmt[d] = d /\ d \notin Cached)
      BY <3>1 DEF LoanInv, LentOnce
    <3>3. stmt[d] # c
      BY <1>3, <3>2
    <3>4. QED
      BY <1>1, <3>1, <3>2, <3>3
  <2>3. \A d, e \in Calls : 
          phase'[d] \in Lending /\ phase'[e] \in Lending /\ stmt'[d] = stmt'[e] => d = e
    BY <1>2, <2>2 DEF LoanInv, LentOnce
  <2>4. QED
    BY <1>2, <2>1, <2>2, <2>3 DEF LentOnce
<1>7. GrabbedByCursors'
  BY <1>1, <1>2 DEF LoanInv, GrabbedByCursors
<1>8. ASSUME NEW d \in Calls PROVE CursorState(d)'
  <2>1. CASE d = c
    <3>1. rows[c] = << >> /\ ended[c] = "no"
      BY <1>3 DEF LoanInv, FreshClean
    <3>2. QED
      BY <1>1, <1>2, <2>1, <3>1 DEF CursorState
  <2>2. CASE d # c
    BY <1>1, <1>2, <2>2 DEF LoanInv, CursorStates, CursorState
  <2>3. QED
    BY <2>1, <2>2
<1>9. OneSnapshot'
  <2>1. \A d \in Calls : phase[d] = "open" => phase'[d] = "open" /\ stmt'[d] = stmt[d]
    BY <1>1, <1>2
  <2>2. \A d \in Calls : phase'[d] \in Executing \cup WithCursor
                           => phase[d] \in Executing \cup WithCursor
    BY <1>1, <1>3
  <2>3. \A t \in Calls : reads'[t] # None =>
          \E d \in Calls : phase'[d] = "open" /\ stmt'[d] = t /\ ended'[d] = "no"
    BY <2>1 DEF LoanInv, OneSnapshot
  <2>4. \A d \in Calls \ shared', t \in Calls :
          phase'[d] \in Executing \cup WithCursor /\ iface'[t] = iface'[d]
            /\ reads'[t] # None
              => reads'[t] >= asked'[d]
    BY <2>2 DEF LoanInv, OneSnapshot
  <2>5. QED
    BY <2>3, <2>4 DEF LoanInv, OneSnapshot
<1>10. QED
  BY <1>4, <1>5, <1>6, <1>7, <1>8, <1>9 DEF LoanInv, CursorStates

\* A statement that is not lent is not active.
LEMMA UnlentIdle ==
  ASSUME LoanInv, NEW s \in Cached, s \notin lent
  PROVE  reads[s] = None
<1> SUFFICES ASSUME reads[s] # None PROVE FALSE
  OBVIOUS
<1>1. PICK d \in Calls : phase[d] = "open" /\ stmt[d] = s
  BY CallsAssumption DEF LoanInv, OneSnapshot
<1>2. QED
  BY <1>1 DEF LoanInv, LentOnce, Lending

LEMMA LoanReuse ==
  ASSUME PoolInv, LoanInv, NEW c \in Calls, NEW s \in Calls, Reuse(c, s)
  PROVE  LoanInv'
<1> DEFINE i == iface[c]
           q == cache[i]
<1>1. /\ phase[c] = "placed" /\ s \in Members(q) /\ s \notin lent
      /\ cache' = [cache EXCEPT ![i] = MovedLast(q, s)]
      /\ at' = [at EXCEPT ![s] = 0] /\ reads' = [reads EXCEPT ![s] = None]
      /\ bound' = [bound EXCEPT ![s] = None]
      /\ lent' = lent \cup {s} /\ stmt' = [stmt EXCEPT ![c] = s]
      /\ phase' = [phase EXCEPT ![c] = "prepared"]
      /\ UNCHANGED <<pool, grabbed, version, iface, cursors, history>>
  BY DEF Reuse, Hits
<1>2. i \in Calls
  BY <1>1 DEF PoolInv, PoolType, Used, Executing, Members
<1>3. /\ cache \in [Calls -> Seq(Calls)] /\ q \in Seq(Calls) /\ DOMAIN q = 1 .. Len(q)
  BY <1>2 DEF LoanInv, DataType
<1>4. PICK k \in DOMAIN q : q[k] = s
  BY <1>1 DEF Members
<1>5. s \in Cached /\ iface[s] = i /\ phase[s] \notin Fresh
  BY <1>2, <1>4, InCache
<1>6. at[s] = 0 /\ bound[s] = None
  BY <1>1, <1>2, <1>4 DEF LoanInv, TidyCaches, TidyCache
<1>7. reads[s] = None
  BY <1>1, <1>5, UnlentIdle
<1>8. UNCHANGED <<at, reads, bound>>
  BY <1>1, <1>6, <1>7 DEF LoanInv, DataType
<1> DEFINE r == MovedLast(q, s)
<1>9. /\ r \in Seq(Calls) /\ Len(r) = Len(q)
      /\ \E f \in [DOMAIN q -> DOMAIN q] :
           /\ \A j \in DOMAIN q : r[j] = q[f[j]]
           /\ \A j, m \in DOMAIN q : f[j] = f[m] => j = m
  BY <1>1, <1>3, MovedLastCache
<1>10. cache'[i] = r /\ \A j \in Calls : j # i => cache'[j] = cache[j]
  BY <1>1, <1>2, <1>3
<1>11. cache' \in [Calls -> Seq(Calls)]
  BY <1>1, <1>3, <1>9
<1>12. phase[c] \in Fresh /\ phase'[c] \notin Fresh
       /\ \A d \in Calls : d # c => phase'[d] = phase[d]
  <2>1. phase'[c] = "prepared" /\ \A d \in Calls : d # c => phase'[d] = phase[d]
    BY <1>1, PhaseChange
  <2>2. QED
    BY <1>1, <2>1 DEF Fresh
<1>13. ASSUME NEW j \in Calls PROVE TidyCache(j)'
  <2>1. /\ Len(cache[j]) <= MaxStatements
        /\ \A m \in DOMAIN cache[j] :
             LET t == cache[j][m]
             IN  /\ t \in Cached /\ iface'[t] = j /\ phase'[t] \notin Fresh
                 /\ t \notin lent' => at'[t] = 0 /\ bound'[t] = None
        /\ \A m, n \in DOMAIN cache[j] : m # n => ~SameText(cache[j][m], cache[j][n])
    <3>1. \A m \in DOMAIN cache[j] : cache[j][m] \in Calls
      BY InCache
    <3>2. QED
      BY <1>1, <1>8, <1>12, <3>1 DEF LoanInv, TidyCaches, TidyCache
  <2>2. CASE j # i
    BY <1>10, <2>1, <2>2 DEF TidyCache
  <2>3. CASE j = i
    <3>1. PICK f \in [DOMAIN q -> DOMAIN q] :
            /\ \A m \in DOMAIN q : r[m] = q[f[m]]
            /\ \A m, n \in DOMAIN q : f[m] = f[n] => m = n
      BY <1>9
    <3>2. DOMAIN r = DOMAIN q /\ cache'[j] = r /\ cache[j] = q
      BY <1>3, <1>9, <1>10, <2>3
    <3> HIDE DEF r, q
    <3>3. \A m \in DOMAIN q : f[m] \in DOMAIN q
      OBVIOUS
    <3>4. Len(r) <= MaxStatements
      BY <1>9, <2>1, <3>2
    <3>5. QED
      BY <2>1, <3>1, <3>2, <3>3, <3>4 DEF TidyCache
  <2>4. QED
    BY <2>2, <2>3
<1> HIDE DEF r, q, i
<1>14. QED
  BY <1>1, <1>5, <1>6, <1>7, <1>8, <1>11, <1>13, LoanTaken DEF TidyCaches, i

LEMMA LoanPrepare ==
  ASSUME PoolInv, LoanInv, NEW c \in Calls, Prepare(c)
  PROVE  LoanInv'
<1> DEFINE i == iface[c]
           q == cache[i]
           r == Inserted(q, c)
<1>1. /\ phase[c] = "placed"
      /\ cache' = IF c \in Cached /\ Hits(c) = {} THEN [cache EXCEPT ![i] = r] ELSE cache
      /\ lent' = IF c \in Cached THEN lent \cup {c} ELSE lent
      /\ stmt' = [stmt EXCEPT ![c] = c] /\ phase' = [phase EXCEPT ![c] = "prepared"]
      /\ UNCHANGED <<pool, grabbed, bound, at, reads, version, iface, cursors, history>>
  BY DEF Prepare
<1>2. i \in Calls
  BY <1>1 DEF PoolInv, PoolType, Used, Executing, Members
<1>3. /\ cache \in [Calls -> Seq(Calls)] /\ q \in Seq(Calls) /\ DOMAIN q = 1 .. Len(q)
      /\ Len(q) <= MaxStatements
  BY <1>2 DEF LoanInv, DataType, TidyCaches, TidyCache
<1>4. /\ r \in Seq(Calls)
      /\ Len(r) \in Nat \ {0} /\ Len(r) <= MaxStatements /\ r[Len(r)] = c
      /\ \E d \in {0, 1} : \A j \in 1 .. Len(r) - 1 :
           j + d \in DOMAIN q /\ r[j] = q[j + d]
  BY <1>3, InsertedCache
<1>5. phase[c] \in Fresh /\ phase'[c] \notin Fresh
      /\ \A d \in Calls : d # c => phase'[d] = phase[d]
  <2>1. phase'[c] = "prepared" /\ \A d \in Calls : d # c => phase'[d] = phase[d]
    BY <1>1, PhaseChange
  <2>2. QED
    BY <1>1, <2>1 DEF Fresh
<1>6. at[c] = 0 /\ reads[c] = None
  BY <1>5 DEF LoanInv, FreshClean
<1> HIDE DEF r
<1>7. cache' \in [Calls -> Seq(Calls)]
  BY <1>1, <1>3, <1>4
<1>8. ASSUME NEW j \in Calls PROVE TidyCache(j)'
  <2>1. /\ Len(cache[j]) <= MaxStatements
        /\ \A m \in DOMAIN cache[j] :
             LET t == cache[j][m]
             IN  /\ t \in Cached /\ iface'[t] = j /\ phase'[t] \notin Fresh
                 /\ t \notin lent' => at'[t] = 0 /\ bound'[t] = None
        /\ \A m, n \in DOMAIN cache[j] : m # n => ~SameText(cache[j][m], cache[j][n])
    <3>1. \A m \in DOMAIN cache[j] : cache[j][m] \in Calls
      BY InCache
    <3>2. \A t \in Calls : phase[t] \notin Fresh => phase'[t] \notin Fresh
      BY <1>5
    <3>3. \A t : t \notin lent' => t \notin lent
      BY <1>1
    <3>4. QED
      BY <1>1, <3>1, <3>2, <3>3 DEF LoanInv, TidyCaches, TidyCache
  <2>2. CASE cache'[j] = cache[j]
    BY <2>1, <2>2 DEF TidyCache
  <2>3. CASE j = i /\ c \in Cached /\ Hits(c) = {}
    <3>1. cache'[j] = r /\ cache[j] = q
      BY <1>1, <1>2, <1>3, <2>3
    <3>2. \A m \in DOMAIN q : ~SameText(q[m], c) /\ ~SameText(c, q[m])
      BY <2>3 DEF Hits, Members, SameText
    <3>3. c \in lent'
      BY <1>1, <2>3
    <3> HIDE DEF q
    <3>4. PICK d \in {0, 1} : \A m \in 1 .. Len(r) - 1 :
            m + d \in DOMAIN q /\ r[m] = q[m + d]
      BY <1>4
    <3>5. DOMAIN r = 1 .. Len(r) /\ \A m \in DOMAIN r : m = Len(r) \/ m \in 1 .. Len(r) - 1
      BY <1>4
    <3>6. \A m \in DOMAIN r :
            LET t == r[m]
            IN  /\ t \in Cached /\ iface'[t] = j /\ phase'[t] \notin Fresh
                /\ t \notin lent' => at'[t] = 0 /\ bound'[t] = None
      <4>1. iface'[c] = j
        BY <1>1, <2>3
      <4>2. QED
        BY <1>4, <1>5, <2>1, <2>3, <3>1, <3>3, <3>4, <3>5, <4>1
    <3>7. \A m, n \in DOMAIN r : m # n => ~SameText(r[m], r[n])
      <4> SUFFICES ASSUME NEW m \in DOMAIN r, NEW n \in DOMAIN r, m # n
                   PROVE  ~SameText(r[m], r[n])
        OBVIOUS
      <4>1. CASE m = Len(r)
        BY <1>4, <3>2, <3>4, <3>5, <4>1
      <4>2. CASE n = Len(r)
        BY <1>4, <3>2, <3>4, <3>5, <4>2
      <4>3. CASE m # Len(r) /\ n # Len(r)
        <5>1. /\ r[m] = q[m + d] /\ r[n] = q[n + d]
              /\ m + d \in DOMAIN q /\ n + d \in DOMAIN q
          BY <3>4, <3>5, <4>3
        <5>2. m + d # n + d
          BY <1>4, <3>5
        <5>3. QED
          BY <2>1, <3>1, <5>1, <5>2
      <4>4. QED
        BY <4>1, <4>2, <4>3
    <3>8. QED
      BY <1>4, <3>1, <3>6, <3>7 DEF TidyCache
  <2>4. QED
    BY <1>1, <1>2, <1>3, <2>2, <2>3
<1>9. lent' = lent \cup {c} \/ (lent' = lent /\ c = c /\ c \notin Cached)
  BY <1>1
<1> HIDE DEF q, i
<1>10. QED
  BY <1>1, <1>6, <1>7, <1>8, <1>9, LoanTaken DEF TidyCaches

-----------------------------------------------------------------------------
\* A call that has a statement concerns no other with what it does to it; it keeps it,
\* or lets it go: as a borrowed one, or clean.
LEMMA LoanHeld ==
  ASSUME LoanInv, NEW c \in Calls, phase[c] \in Lending,
         phase'[c] \in Lending \cup {"failed", "released"},
         \A d \in Calls : d # c =>
           /\ phase'[d] = phase[d] /\ rows'[d] = rows[d] /\ ended'[d] = ended[d],
         \A s \in Calls : s # stmt[c] =>
           /\ at'[s] = at[s] /\ reads'[s] = reads[s] /\ bound'[s] = bound[s],
         UNCHANGED <<cache, iface, stmt, asked, shared>>,
         \/ lent' = lent
         \/ /\ lent' = lent \ {stmt[c]} /\ phase'[c] \notin Lending
            /\ at'[stmt[c]] = 0 /\ bound'[stmt[c]] = None,
         DataType', GrabbedByCursors', CursorState(c)', OneSnapshot'
  PROVE  LoanInv'
<1>1. phase[c] \notin Fresh /\ phase'[c] \notin Fresh
  BY DEF Fresh, Lending
<1>2. /\ stmt[c] \in Calls /\ phase[stmt[c]] \notin Fresh
      /\ stmt[c] \in lent \/ stmt[c] \notin Cached
      /\ \A d \in Calls : phase[d] \in Lending /\ d # c => stmt[d] # stmt[c]
  BY DEF LoanInv, LentOnce
<1>3. FreshClean'
  BY <1>1, <1>2 DEF LoanInv, FreshClean
<1>4. LentOnce'
  <2>1. ASSUME NEW d \in Calls, phase'[d] \in Lending
        PROVE  /\ phase[d] \in Lending
               /\ stmt[d] \in Calls /\ phase'[stmt[d]] \notin Fresh /\ iface[stmt[d]] = iface[d]
               /\ stmt[d] \in lent' \/ (stmt[d] = d /\ d \notin Cached)
    <3>1. phase[d] \in Lending
      BY <2>1
    <3>2. /\ stmt[d] \in Calls /\ phase[stmt[d]] \notin Fresh /\ iface[stmt[d]] = iface[d]
          /\ stmt[d] \in lent \/ (stmt[d] = d /\ d \notin Cached)
      BY <3>1 DEF LoanInv, LentOnce
    <3>3. stmt[d] \in lent => stmt[d] \in lent'
      BY <1>2, <2>1, <3>1
    <3>4. QED
      BY <1>1, <3>1, <3>2, <3>3
  <2>2. QED
    BY <2>1 DEF LoanInv, LentOnce
<1>5. ASSUME NEW i \in Calls PROVE TidyCache(i)'
  <2>1. ASSUME NEW k \in DOMAIN cache[i]
        PROVE  LET s == cache[i][k]
               IN  /\ s \in Cached /\ iface'[s] = i /\ phase'[s] \notin Fresh
                   /\ s \notin lent' => at'[s] = 0 /\ bound'[s] = None
    <3> DEFINE s == cache[i][k]
    <3>1. s \in Calls /\ s \in Cached /\ iface[s] = i /\ phase[s] \notin Fresh
      BY InCache
    <3>2. s \notin lent => at[s] = 0 /\ bound[s] = None
      BY DEF LoanInv, TidyCaches, TidyCache
    <3> HIDE DEF s
    <3>3. phase'[s] \notin Fresh
      BY <1>1, <3>1
    <3>4. ASSUME s \notin lent' PROVE at'[s] = 0 /\ bound'[s] = None
      <4>1. CASE s = stmt[c]
        BY <1>2, <3>1, <3>4, <4>1
      <4>2. CASE s # stmt[c]
        BY <3>1, <3>2, <3>4, <4>2
      <4>3. QED
        BY <4>1, <4>2
    <3>5. QED
      BY <3>1, <3>3, <3>4 DEF s
  <2>2. QED
    BY <2>1 DEF LoanInv, TidyCaches, TidyCache
<1>6. ASSUME NEW d \in Calls, d # c PROVE CursorState(d)'
  <2>1. phase[d] \in Lending => stmt[d] \in Calls /\ stmt[d] # stmt[c]
    BY <1>2, <1>6 DEF LoanInv, LentOnce
  <2>2. phase[d] \in {"prepared", "bound", "started", "open"} => phase[d] \in Lending
    BY DEF Lending
  <2>3. CursorState(d)
    BY DEF LoanInv, CursorStates
  <2>4. CASE phase[d] \in Lending
    BY <1>6, <2>1, <2>3, <2>4 DEF CursorState
  <2>5. CASE phase[d] \notin Lending
    BY <1>6, <2>2, <2>5 DEF CursorState
  <2>6. QED
    BY <2>4, <2>5
<1>7. QED
  BY <1>3, <1>4, <1>5, <1>6 DEF LoanInv, TidyCaches, CursorStates

\* Steps with a statement that start or end no read.
LEMMA SameSnapshot ==
  ASSUME LoanInv, NEW c \in Calls,
         \A d \in Calls : d # c => phase'[d] = phase[d],
         phase[c] = "open" => phase'[c] = "open",
         phase'[c] \in Executing \cup WithCursor => phase[c] \in Executing \cup WithCursor,
         UNCHANGED <<reads, version, iface, stmt, ended, asked, shared>>
  PROVE  OneSnapshot'
<1>1. \A s \in Calls : reads'[s] # None =>
        \E d \in Calls : phase'[d] = "open" /\ stmt'[d] = s /\ ended'[d] = "no"
  BY DEF LoanInv, OneSnapshot
<1>2. \A d \in Calls \ shared', s \in Calls :
        phase'[d] \in Executing \cup WithCursor /\ iface'[s] = iface'[d] /\ reads'[s] # None
          => reads'[s] >= asked'[d]
  BY DEF LoanInv, OneSnapshot
<1>3. QED
  BY <1>1, <1>2 DEF LoanInv, OneSnapshot

LEMMA LoanStatement ==
  ASSUME PoolInv, LoanInv, NEW c \in Calls, Statement(c)
  PROVE  LoanInv'
<1>1. ASSUME NEW s \in Calls, Reuse(c, s) PROVE LoanInv'
  BY <1>1, LoanReuse
<1>2. CASE Prepare(c)
  BY <1>2, LoanPrepare
<1>3. CASE PrepareFails(c)
  <2>1. /\ phase[c] = "placed" /\ phase' = [phase EXCEPT ![c] = "failed"]
        /\ UNCHANGED <<statements, reads, version, iface, stmt, cursors, asked, shared,
                       releases>>
        /\ faults' \in Nat /\ releases \in Nat
    BY <1>3 DEF PrepareFails, Fault, LoanInv, DataType
  <2>2. QED
    BY <2>1, LoanGoesOn
<1>4. CASE Bind(c) \/ BindFails(c)
  <2>1. /\ phase[c] = "prepared"
        /\ \/ /\ bound' = [bound EXCEPT ![stmt[c]] = c]
              /\ phase' = [phase EXCEPT ![c] = "bound"]
           \/ /\ bound' \in {bound, [bound EXCEPT ![stmt[c]] = c]}
              /\ phase' = [phase EXCEPT ![c] = "failed"]
        /\ faults' \in Nat
        /\ UNCHANGED <<cache, lent, grabbed, at, reads, version, iface, stmt, cursors, asked,
                       shared, releases>>
    BY <1>4 DEF Bind, BindFails, Fault, LoanInv, DataType, history
  <2>2. /\ phase'[c] \in {"bound", "failed"} /\ \A d \in Calls : d # c => phase'[d] = phase[d]
        /\ phase'[c] = "bound" => bound' = [bound EXCEPT ![stmt[c]] = c]
    BY <2>1, PhaseChange
  <2>3. /\ phase[c] \in Lending /\ phase'[c] \in Lending \cup {"failed", "released"}
        /\ phase[c] \in Executing
    BY <2>1, <2>2 DEF Lending, Executing
  <2>4. stmt[c] \in Calls
    BY <2>3 DEF LoanInv, LentOnce
  <2> USE DEF cursors
  <2>5. DataType'
    BY <2>1, <2>4 DEF LoanInv, DataType
  <2>6. \A s \in Calls : s # stmt[c] => bound'[s] = bound[s]
    BY <2>1 DEF LoanInv, DataType
  <2>7. GrabbedByCursors'
    BY <2>1, <2>2 DEF LoanInv, GrabbedByCursors
  <2>8. CursorState(c)'
    <3>1. CursorState(c) /\ bound \in [Calls -> Calls \cup {None}]
      BY DEF LoanInv, CursorStates, DataType
    <3>2. phase'[c] = "bound" => bound'[stmt[c]] = c
      BY <2>2, <2>4, <3>1
    <3>3. QED
      BY <2>1, <2>2, <3>1, <3>2 DEF CursorState
  <2>9. OneSnapshot'
    BY <2>1, <2>2, <2>3, SameSnapshot
  <2>10. QED
    BY <2>1, <2>2, <2>3, <2>5, <2>6, <2>7, <2>8, <2>9, LoanHeld
<1>5. QED
  BY <1>1, <1>2, <1>3, <1>4 DEF Statement

\* The cursor of a call starts, and the call hands it out.
LEMMA LoanStarts ==
  ASSUME PoolInv, LoanInv, NEW c \in Calls, StartCursor(c) \/ EndExecute(c)
  PROVE  LoanInv'
<1>1. CASE phase[c] = "failed"
  <2>1. /\ phase' = [phase EXCEPT ![c] = "done"]
        /\ UNCHANGED <<statements, reads, version, iface, stmt, cursors, history>>
    <3>1. EndExecute(c)
      BY <1>1 DEF StartCursor
    <3>2. phase' = [phase EXCEPT ![c] = IF @ = "started" THEN "open" ELSE "done"]
      BY <3>1 DEF EndExecute
    <3>3. phase' = [phase EXCEPT ![c] = "done"]
      BY <1>1, <3>2
    <3>4. QED
      BY <3>1, <3>3 DEF EndExecute
  <2>2. releases' \in Nat /\ faults' \in Nat /\ UNCHANGED <<asked, shared>>
    BY <2>1 DEF LoanInv, DataType, history
  <2>3. QED
    BY <1>1, <2>1, <2>2, LoanGoesOn
<1>2. CASE phase[c] # "failed"
  <2>1. /\ \/ /\ phase[c] = "bound" /\ phase' = [phase EXCEPT ![c] = "started"]
              /\ grabbed' = grabbed \cup {stmt[c]}
           \/ /\ phase[c] = "started" /\ phase' = [phase EXCEPT ![c] = "open"]
              /\ grabbed' = grabbed
        /\ UNCHANGED <<cache, lent, bound, at, reads, version, iface, stmt, cursors, history>>
    <3>1. CASE StartCursor(c)
      BY <3>1 DEF StartCursor
    <3>2. CASE EndExecute(c)
      <4>1. phase[c] = "started"
        BY <1>2, <3>2 DEF EndExecute
      <4>2. phase' = [phase EXCEPT ![c] = "open"]
        BY <3>2, <4>1 DEF EndExecute
      <4>3. QED
        BY <3>2, <4>1, <4>2 DEF EndExecute, statements
    <3>3. QED
      BY <3>1, <3>2
  <2>2. /\ phase'[c] = IF phase[c] = "bound" THEN "started" ELSE "open"
        /\ \A d \in Calls : d # c => phase'[d] = phase[d]
    BY <2>1, PhaseChange
  <2>3. /\ phase[c] \in Lending /\ phase'[c] \in Lending /\ phase[c] # "open"
        /\ phase[c] \in Executing \cup WithCursor
    BY <2>1, <2>2 DEF Lending, Executing, WithCursor
  <2>4. stmt[c] \in Calls
    BY <2>3 DEF LoanInv, LentOnce
  <2> USE DEF cursors, history
  <2>5. DataType'
    BY <2>1, <2>4 DEF LoanInv, DataType
  <2>6. GrabbedByCursors'
    <3>1. \A d \in Calls : phase[d] \in {"started", "open"} => phase'[d] \in {"started", "open"}
      BY <2>1, <2>2
    <3>2. phase'[c] \in {"started", "open"}
      BY <2>2
    <3>3. QED
      BY <2>1, <3>1, <3>2 DEF LoanInv, GrabbedByCursors
  <2>7. CursorState(c)'
    <3>1. CursorState(c) /\ Len(<< >>) = 0 /\ DOMAIN << >> = {}
      BY DEF LoanInv, CursorStates
    <3>2. QED
      BY <2>1, <2>2, <3>1, BoundsAssumption DEF CursorState
  <2>8. OneSnapshot'
    BY <2>1, <2>2, <2>3, SameSnapshot
  <2>9. QED
    BY <2>1, <2>2, <2>3, <2>5, <2>6, <2>7, <2>8, LoanHeld
<1>3. QED
  BY <1>1, <1>2

\* What an open cursor that is not at its end may read next: what its statement and
\* the others of the interface read, and nothing older than its call may see.
LEMMA NextVersion ==
  ASSUME PoolInv, LoanInv, NEW c \in Calls, phase[c] = "open",
         NEW v \in IF Snapshots(iface[c]) = {} THEN {version} ELSE Snapshots(iface[c])
  PROVE  /\ v \in Nat
         /\ \A t \in Calls : iface[t] = iface[c] /\ reads[t] # None => reads[t] = v
         /\ \A d \in Calls \ shared :
              phase[d] \in Executing \cup WithCursor /\ iface[d] = iface[c] => v >= asked[d]
<1>1. version \in Nat /\ reads \in [Calls -> Nat \cup {None}]
  BY DEF LoanInv, DataType
<1>2. CASE Snapshots(iface[c]) = {}
  <2>1. v = version
    BY <1>2
  <2>2. \A t \in Calls : iface[t] = iface[c] => reads[t] = None
    BY <1>2 DEF Snapshots
  <2>3. QED
    BY <1>1, <2>1, <2>2 DEF LoanInv, OneSnapshot, DataType
<1>3. CASE Snapshots(iface[c]) # {}
  <2>1. v \in Snapshots(iface[c])
    BY <1>3
  <2>2. PICK x \in Calls : iface[x] = iface[c] /\ reads[x] = v /\ reads[x] # None
    BY <2>1 DEF Snapshots
  <2>3. QED
    BY <1>1, <2>2 DEF LoanInv, OneSnapshot
<1>4. QED
  BY <1>2, <1>3

\* The row is the next of the query, with the values of the call.
LEMMA LoanRow ==
  ASSUME PoolInv, LoanInv, NEW c \in Calls, IterNext(c), at[stmt[c]] < Rows
  PROVE  LoanInv'
<1> DEFINE s == stmt[c]
           R == [of : Calls \cup {None}, n : Nat, version : Nat]
<1>1. PICK v \in IF Snapshots(iface[c]) = {} THEN {version} ELSE Snapshots(iface[c]) :
        /\ reads' = [reads EXCEPT ![s] = v]
        /\ rows' = [rows EXCEPT ![c] =
                      Append(@, [of |-> bound[s], n |-> at[s] + 1, version |-> v])]
        /\ ended' = ended
  BY DEF IterNext
<1>2. /\ phase[c] = "open" /\ ended[c] = "no" /\ at' = [at EXCEPT ![s] = @ + 1]
      /\ UNCHANGED <<cache, lent, grabbed, bound, version, phase, iface, stmt, history>>
  BY DEF IterNext
<1> USE DEF history
<1>3. phase[c] \in Lending /\ phase[c] \in WithCursor
  BY <1>2 DEF Lending, WithCursor
<1>4. s \in Calls /\ iface[s] = iface[c]
  BY <1>3 DEF LoanInv, LentOnce
<1>5. /\ at \in [Calls -> Nat] /\ reads \in [Calls -> Nat \cup {None}]
      /\ rows \in [Calls -> Seq(R)]
      /\ bound \in [Calls -> Calls \cup {None}]
  BY DEF LoanInv, DataType
<1>6. /\ v \in Nat
      /\ \A t \in Calls : iface[t] = iface[c] /\ reads[t] # None => reads[t] = v
      /\ \A d \in Calls \ shared :
           phase[d] \in Executing \cup WithCursor /\ iface[d] = iface[c] => v >= asked[d]
  BY <1>1, <1>2, NextVersion
<1> DEFINE row == [of |-> bound[s], n |-> at[s] + 1, version |-> v]
           q == rows[c]
<1>7. /\ bound[s] = c /\ at[s] = Len(q) /\ Len(q) <= Rows
      /\ reads[s] = IF q = << >> THEN None ELSE q[1].version
      /\ \A k \in DOMAIN q :
           /\ q[k] = [of |-> c, n |-> k, version |-> q[1].version]
           /\ c \notin shared => q[k].version >= asked[c]
  BY <1>2 DEF LoanInv, CursorStates, CursorState
<1>8. row \in R
      /\ row = [of |-> c, n |-> Len(q) + 1, version |-> v]
  BY <1>4, <1>5, <1>6, <1>7
<1> HIDE DEF R
<1>9. q \in Seq(R) /\ Len(q) \in Nat
      /\ DOMAIN q = 1 .. Len(q) /\ \A k \in DOMAIN q : q[k] \in R
  BY <1>5
<1> DEFINE r == Append(q, row)
<1> HIDE DEF row
<1>10. /\ r \in Seq(R)
       /\ Len(r) = Len(q) + 1 /\ DOMAIN r = 1 .. Len(q) + 1 /\ r # << >>
       /\ \A k \in DOMAIN q : r[k] = q[k]
       /\ r[Len(q) + 1] = row
  BY <1>8, <1>9
<1> HIDE DEF r
<1>11. /\ rows'[c] = r /\ \A d \in Calls : d # c => rows'[d] = rows[d]
       /\ rows' \in [Calls -> Seq(R)]
  BY <1>1, <1>5, <1>10 DEF r, row
<1>12. /\ reads'[s] = v /\ \A t \in Calls : t # s => reads'[t] = reads[t]
       /\ at'[s] = Len(r) /\ \A t \in Calls : t # s => at'[t] = at[t]
  BY <1>1, <1>2, <1>4, <1>5, <1>7, <1>10
<1> HIDE DEF s
<1>13. DataType'
  <2>1. at' \in [Calls -> Nat]
    <3>1. at' = [at EXCEPT ![s] = at[s] + 1] /\ at \in [Calls -> Nat]
      BY <1>2, <1>5
    <3>2. at[s] + 1 \in Nat
      BY <1>4, <3>1
    <3>3. QED
      BY <3>1, <3>2
  <2>2. reads' \in [Calls -> Nat \cup {None}]
    <3>1. reads' = [reads EXCEPT ![s] = v]
      BY <1>1
    <3>2. QED
      BY <1>5, <1>6, <3>1
  <2>3. QED
    BY <1>1, <1>2, <1>11, <2>1, <2>2 DEF LoanInv, DataType, R
<1>14. GrabbedByCursors'
  BY <1>2 DEF LoanInv, GrabbedByCursors
<1>15. CursorState(c)'
  <2>1. v # None
    BY <1>6, CallsAssumption
  <2>2. r[1].version = v
    <3>1. CASE q = << >>
      <4>1. Len(q) = 0
        BY <3>1
      <4>2. QED
        BY <1>8, <1>10, <4>1
    <3>2. CASE q # << >>
      <4>1. 1 \in DOMAIN q
        BY <1>9, <3>2
      <4>2. reads[s] = q[1].version
        BY <1>7, <3>2
      <4>3. reads[s] # None
        <5>1. q[1] \in R
          BY <1>9, <4>1
        <5>2. q[1].version \in Nat
          BY <5>1 DEF R
        <5>3. QED
          BY <4>2, <5>2, CallsAssumption
      <4>4. reads[s] = v
        BY <1>4, <1>6, <4>3
      <4>5. QED
        BY <1>10, <4>1, <4>2, <4>4
    <3>3. QED
      BY <3>1, <3>2
  <2>3. \A k \in DOMAIN q : q[k].version = v
    <3> SUFFICES ASSUME NEW k \in DOMAIN q PROVE q[k].version = v
      OBVIOUS
    <3>1. 1 \in DOMAIN q
      BY <1>9
    <3>2. q[k] = [of |-> c, n |-> k, version |-> q[1].version]
      BY <1>7
    <3>3. q[k].version = q[1].version
      BY <3>2
    <3>4. QED
      BY <1>10, <2>2, <3>1, <3>3
  <2>4. c \notin shared => v >= asked[c]
    BY <1>3, <1>6
  <2>5. ASSUME NEW k \in DOMAIN r
        PROVE  /\ r[k] = [of |-> c, n |-> k, version |-> v]
               /\ c \notin shared => r[k].version >= asked[c]
    <3>1. CASE k = Len(q) + 1
      BY <1>8, <1>10, <2>4, <3>1
    <3>2. CASE k \in DOMAIN q
      <4>1. r[k] = q[k]
        BY <1>10, <3>2
      <4>2. q[k] = [of |-> c, n |-> k, version |-> q[1].version]
        BY <1>7, <3>2
      <4>3. q[1].version = q[k].version
        BY <4>2
      <4>4. q[k].version = v
        BY <2>3, <3>2
      <4>5. QED
        BY <2>4, <4>1, <4>2, <4>3, <4>4
    <3>3. QED
      BY <1>9, <1>10, <3>1, <3>2
  <2>6. Len(r) <= Rows
    BY <1>7, <1>9, <1>10, BoundsAssumption DEF s
  <2>7. bound'[s] = c /\ phase'[c] = "open" /\ ended'[c] = "no"
    BY <1>1, <1>2, <1>7
  <2>8. \A k \in DOMAIN r :
          /\ r[k] = [of |-> c, n |-> k, version |-> r[1].version]
          /\ c \notin shared' => r[k].version >= asked'[c]
    BY <1>2, <2>2, <2>5
  <2>9. s = stmt'[c]
    BY <1>2 DEF s
  <2>10. QED
    BY <1>10, <1>11, <1>12, <2>2, <2>6, <2>7, <2>8, <2>9 DEF CursorState
<1>16. OneSnapshot'
  <2>1. \A t \in Calls : reads'[t] # None =>
          \E d \in Calls : phase'[d] = "open" /\ stmt'[d] = t /\ ended'[d] = "no"
    BY <1>1, <1>2, <1>12 DEF LoanInv, OneSnapshot, s
  <2>2. \A t, u \in Calls :
          iface'[t] = iface'[u] /\ reads'[t] # None /\ reads'[u] # None
            => reads'[t] = reads'[u]
    <3>1. \A t \in Calls : iface[t] = iface[c] /\ reads'[t] # None => reads'[t] = v
      BY <1>6, <1>12
    <3>2. \A t \in Calls : iface[t] # iface[c] => reads'[t] = reads[t]
      BY <1>4, <1>12
    <3>3. QED
      BY <1>2, <3>1, <3>2 DEF LoanInv, OneSnapshot
  <2>3. \A d \in Calls \ shared', t \in Calls :
          phase'[d] \in Executing \cup WithCursor /\ iface'[t] = iface'[d]
            /\ reads'[t] # None
              => reads'[t] >= asked'[d]
    <3> SUFFICES ASSUME NEW d \in Calls, d \notin shared, NEW t \in Calls,
                        phase[d] \in Executing \cup WithCursor, iface[t] = iface[d],
                        reads'[t] # None
                 PROVE  reads'[t] >= asked[d]
      BY <1>2
    <3>1. CASE t = s
      BY <1>4, <1>6, <1>12, <3>1
    <3>2. CASE t # s
      BY <1>12, <3>2 DEF LoanInv, OneSnapshot
    <3>3. QED
      BY <3>1, <3>2
  <2>4. QED
    BY <1>2, <2>1, <2>2, <2>3 DEF LoanInv, OneSnapshot
<1>17. QED
  BY <1>1, <1>2, <1>3, <1>11, <1>12, <1>13, <1>14, <1>15, <1>16, LoanHeld DEF s

\* A statement that is reset, or at its end, is not active; others go on.
LEMMA StopsReading ==
  ASSUME LoanInv, NEW c \in Calls, phase[c] = "open", phase'[c] \in {"open", "released"},
         \A d \in Calls : d # c => phase'[d] = phase[d] /\ ended'[d] = ended[d],
         reads' = [reads EXCEPT ![stmt[c]] = None],
         UNCHANGED <<version, iface, stmt, asked, shared>>
  PROVE  OneSnapshot'
<1>1. \A s \in Calls : reads'[s] = IF s = stmt[c] THEN None ELSE reads[s]
  BY DEF LoanInv, DataType
<1>2. phase[c] \in Executing \cup WithCursor
  BY DEF WithCursor
<1>3. \A d \in Calls :
        phase'[d] \in Executing \cup WithCursor => phase[d] \in Executing \cup WithCursor
  BY <1>2
<1>4. \A s \in Calls : reads'[s] # None =>
        \E d \in Calls : phase'[d] = "open" /\ stmt'[d] = s /\ ended'[d] = "no"
  BY <1>1 DEF LoanInv, OneSnapshot
<1>5. \A d \in Calls \ shared', s \in Calls :
        phase'[d] \in Executing \cup WithCursor /\ iface'[s] = iface'[d] /\ reads'[s] # None
          => reads'[s] >= asked'[d]
  BY <1>1, <1>3 DEF LoanInv, OneSnapshot
<1>6. QED
  BY <1>1, <1>4, <1>5 DEF LoanInv, OneSnapshot

\* Steps that end the reading of an open cursor: its end, a failure, a rewind.
LEMMA LoanStops ==
  ASSUME PoolInv, LoanInv, NEW c \in Calls,
         IterFails(c) \/ Rewind(c) \/ (IterNext(c) /\ ~(at[stmt[c]] < Rows))
  PROVE  LoanInv'
<1> DEFINE s == stmt[c]
<1>1. /\ phase[c] = "open" /\ reads' = [reads EXCEPT ![s] = None]
      /\ \E n \in Nat : at' = [at EXCEPT ![s] = n]
      /\ \/ /\ ended' = [ended EXCEPT ![c] = "error"] /\ rows' = rows
         \/ /\ ended' = [ended EXCEPT ![c] = "yes"] /\ rows' = rows
            /\ ended[c] = "no" /\ ~(at[s] < Rows)
         \/ /\ ended' = [ended EXCEPT ![c] = "no"] /\ rows' = [rows EXCEPT ![c] = << >>]
            /\ at' = [at EXCEPT ![s] = 0]
      /\ UNCHANGED <<cache, lent, grabbed, bound, version, phase, iface, stmt, asked, shared,
                     releases>>
      /\ faults' \in Nat
  <2>1. faults \in Nat /\ Rows + 1 \in Nat /\ at[s] + 1 \in Nat
    <3>1. phase[c] = "open"
      BY DEF IterFails, Rewind, IterNext
    <3>2. s \in Calls
      BY <3>1 DEF LoanInv, LentOnce, Lending
    <3>3. QED
      BY <3>2, BoundsAssumption DEF LoanInv, DataType
  <2>2. CASE IterFails(c)
    BY <2>1, <2>2 DEF IterFails, Fault
  <2>3. CASE Rewind(c)
    BY <2>1, <2>3 DEF Rewind, history
  <2>4. CASE IterNext(c) /\ ~(at[s] < Rows)
    BY <2>1, <2>4 DEF IterNext, history
  <2>5. QED
    BY <2>2, <2>3, <2>4
<1>2. phase[c] \in Lending
  BY <1>1 DEF Lending
<1>3. s \in Calls
  BY <1>2 DEF LoanInv, LentOnce
<1>4. /\ at \in [Calls -> Nat] /\ reads \in [Calls -> Nat \cup {None}]
      /\ rows \in [Calls -> Seq([of : Calls \cup {None}, n : Nat, version : Nat])]
      /\ ended \in [Calls -> {"no", "yes", "error"}]
  BY DEF LoanInv, DataType
<1>5. /\ \A d \in Calls : d # c => rows'[d] = rows[d] /\ ended'[d] = ended[d]
      /\ \A t \in Calls : t # s => at'[t] = at[t] /\ reads'[t] = reads[t]
      /\ reads'[s] = None
  BY <1>1, <1>3, <1>4
<1>6. DataType'
  <2>1. at' \in [Calls -> Nat] /\ ended' \in [Calls -> {"no", "yes", "error"}]
    <3>1. PICK n \in Nat : at' = [at EXCEPT ![s] = n]
      BY <1>1
    <3>2. at' \in [Calls -> Nat]
      BY <1>4, <3>1
    <3>3. PICK e \in {"no", "yes", "error"} : ended' = [ended EXCEPT ![c] = e]
      BY <1>1
    <3>4. QED
      BY <1>4, <3>2, <3>3
  <2>2. reads' \in [Calls -> Nat \cup {None}]
    BY <1>1, <1>4
  <2>3. rows' \in [Calls -> Seq([of : Calls \cup {None}, n : Nat, version : Nat])]
    <3> DEFINE R == [of : Calls \cup {None}, n : Nat, version : Nat]
    <3> HIDE DEF R
    <3>1. << >> \in Seq(R)
      OBVIOUS
    <3>2. rows \in [Calls -> Seq(R)]
      BY <1>4 DEF R
    <3>3. rows' \in [Calls -> Seq(R)]
      BY <1>1, <3>1, <3>2
    <3>4. QED
      BY <3>3 DEF R
  <2>4. QED
    BY <1>1, <2>1, <2>2, <2>3 DEF LoanInv, DataType
<1>7. GrabbedByCursors'
  BY <1>1 DEF LoanInv, GrabbedByCursors
<1>8. CursorState(c)'
  <2>1. CursorState(c)
    BY DEF LoanInv, CursorStates
  <2>2. CASE ended' = [ended EXCEPT ![c] = "error"] /\ rows' = rows
    <3>1. ended'[c] = "error"
      BY <1>4, <2>2
    <3>2. QED
      BY <1>1, <2>1, <2>2, <3>1 DEF CursorState
  <2>3. CASE /\ ended' = [ended EXCEPT ![c] = "yes"] /\ rows' = rows
             /\ ended[c] = "no" /\ ~(at[s] < Rows)
    <3>1. ended'[c] = "yes"
      BY <1>4, <2>3
    <3>2. Len(rows[c]) = Rows
      <4>1. at[s] = Len(rows[c]) /\ Len(rows[c]) <= Rows /\ Len(rows[c]) \in Nat
        BY <1>1, <1>4, <2>1, <2>3 DEF CursorState
      <4>2. QED
        BY <2>3, <4>1, BoundsAssumption
    <3>3. QED
      BY <1>1, <2>1, <2>3, <3>1, <3>2 DEF CursorState
  <2>4. CASE /\ ended' = [ended EXCEPT ![c] = "no"] /\ rows' = [rows EXCEPT ![c] = << >>]
             /\ at' = [at EXCEPT ![s] = 0]
    <3>1. ended'[c] = "no" /\ rows'[c] = << >> /\ at'[s] = 0
      BY <1>3, <1>4, <2>4
    <3>2. Len(<< >>) = 0 /\ DOMAIN << >> = {}
      OBVIOUS
    <3>3. QED
      BY <1>1, <1>5, <2>1, <3>1, <3>2, BoundsAssumption DEF CursorState
  <2>5. QED
    BY <1>1, <2>2, <2>3, <2>4
<1>9. OneSnapshot'
  BY <1>1, <1>5, StopsReading
<1>10. QED
  BY <1>1, <1>2, <1>5, <1>6, <1>7, <1>8, <1>9, LoanHeld

LEMMA LoanRelease ==
  ASSUME PoolInv, LoanInv, NEW c \in Calls, Release(c)
  PROVE  LoanInv'
<1> DEFINE s == stmt[c]
<1>1. /\ phase[c] = "open" /\ phase' = [phase EXCEPT ![c] = "released"]
      /\ lent' = lent \ {s} /\ grabbed' = grabbed \ {s}
      /\ at' = [at EXCEPT ![s] = 0] /\ reads' = [reads EXCEPT ![s] = None]
      /\ bound' = [bound EXCEPT ![s] = None]
      /\ rows' = [rows EXCEPT ![c] = << >>] /\ ended' = [ended EXCEPT ![c] = "no"]
      /\ UNCHANGED <<cache, version, iface, stmt, asked, shared, releases, faults>>
  BY DEF Release, history
<1>2. phase[c] \in Lending
  BY <1>1 DEF Lending
<1>3. s \in Calls
  BY <1>2 DEF LoanInv, LentOnce
<1>4. /\ phase'[c] = "released" /\ phase'[c] \notin Lending
      /\ \A d \in Calls : d # c => phase'[d] = phase[d]
  <2>1. phase'[c] = "released" /\ \A d \in Calls : d # c => phase'[d] = phase[d]
    BY <1>1, PhaseChange
  <2>2. QED
    BY <2>1 DEF Lending
<1>5. DataType'
  <2> DEFINE R == [of : Calls \cup {None}, n : Nat, version : Nat]
  <2> HIDE DEF R
  <2>1. << >> \in Seq(R)
    OBVIOUS
  <2>2. rows' \in [Calls -> Seq(R)]
    BY <1>1, <2>1 DEF LoanInv, DataType, R
  <2>3. /\ bound' \in [Calls -> Calls \cup {None}] /\ at' \in [Calls -> Nat]
        /\ reads' \in [Calls -> Nat \cup {None}]
        /\ ended' \in [Calls -> {"no", "yes", "error"}]
        /\ lent' \subseteq Calls /\ grabbed' \subseteq Calls
    BY <1>1 DEF LoanInv, DataType
  <2>4. QED
    BY <1>1, <2>2, <2>3 DEF LoanInv, DataType, R
<1>6. /\ \A d \in Calls : d # c => rows'[d] = rows[d] /\ ended'[d] = ended[d]
      /\ \A t \in Calls : t # s =>
           at'[t] = at[t] /\ reads'[t] = reads[t] /\ bound'[t] = bound[t]
      /\ at'[s] = 0 /\ bound'[s] = None
  BY <1>1, <1>3 DEF LoanInv, DataType
<1>7. GrabbedByCursors'
  BY <1>1, <1>4 DEF LoanInv, GrabbedByCursors
<1>8. CursorState(c)'
  BY <1>4 DEF CursorState
<1>9. OneSnapshot'
  BY <1>1, <1>4, <1>6, StopsReading
<1>10. QED
  BY <1>1, <1>2, <1>4, <1>5, <1>6, <1>7, <1>8, <1>9, LoanHeld

LEMMA LoanUnuse ==
  ASSUME PoolInv, LoanInv, NEW c \in Calls, Unuse(c)
  PROVE  LoanInv'
<1>1. /\ phase[c] = "released" /\ phase' = [phase EXCEPT ![c] = "done"]
      /\ asked' = [asked EXCEPT ![c] = 0] /\ shared' = shared \ {c}
      /\ UNCHANGED <<statements, reads, version, iface, stmt, cursors, releases, faults>>
  BY DEF Unuse
<1>2. phase'[c] = "done" /\ \A d \in Calls : d # c => phase'[d] = phase[d]
  BY <1>1, PhaseChange
<1>3. /\ \A d \in Calls : (phase'[d] \in Fresh <=> phase[d] \in Fresh)
                          /\ (phase'[d] \in Lending <=> phase[d] \in Lending)
      /\ phase'[c] \notin Executing \cup WithCursor
  BY <1>1, <1>2 DEF Fresh, Lending, Executing, WithCursor
<1>4. \A d \in Calls : asked[d] \in Nat /\ asked'[d] = IF d = c THEN 0 ELSE asked[d]
  BY <1>1 DEF LoanInv, DataType
<1> USE DEF statements, cursors
<1>5. DataType'
  BY <1>1 DEF LoanInv, DataType
<1>6. FreshClean' /\ LentOnce'
  BY <1>1, <1>3 DEF LoanInv, FreshClean, LentOnce
<1>7. GrabbedByCursors'
  BY <1>1, <1>2 DEF LoanInv, GrabbedByCursors
<1>8. TidyCaches'
  <2>1. \A i \in Calls : \A k \in DOMAIN cache[i] : cache[i][k] \in Calls
    BY InCache
  <2>2. QED
    BY <1>1, <1>3, <2>1 DEF LoanInv, TidyCaches, TidyCache
<1>9. ASSUME NEW d \in Calls PROVE CursorState(d)'
  <2>1. CASE d = c
    BY <1>2, <2>1 DEF CursorState
  <2>2. CASE d # c
    <3>1. phase'[d] = phase[d] /\ asked'[d] = asked[d] /\ (d \in shared' <=> d \in shared)
      BY <1>1, <1>2, <1>4, <2>2
    <3>2. QED
      BY <1>1, <3>1 DEF LoanInv, CursorStates, CursorState
  <2>3. QED
    BY <2>1, <2>2
<1>10. OneSnapshot'
  <2>1. version \in Nat
    BY DEF LoanInv, DataType
  <2>2. \A s \in Calls : reads'[s] # None =>
          \E d \in Calls : phase'[d] = "open" /\ stmt'[d] = s /\ ended'[d] = "no"
    BY <1>1, <1>2 DEF LoanInv, OneSnapshot
  <2>3. \A d \in Calls \ shared', s \in Calls :
          phase'[d] \in Executing \cup WithCursor /\ iface'[s] = iface'[d]
            /\ reads'[s] # None
              => reads'[s] >= asked'[d]
    BY <1>1, <1>2, <1>3, <1>4 DEF LoanInv, OneSnapshot
  <2>4. QED
    BY <1>1, <1>4, <2>1, <2>2, <2>3 DEF LoanInv, OneSnapshot
<1>11. QED
  BY <1>5, <1>6, <1>7, <1>8, <1>9, <1>10 DEF LoanInv, CursorStates

LEMMA LoanCursor ==
  ASSUME PoolInv, LoanInv, NEW c \in Calls, Cursor(c)
  PROVE  LoanInv'
  BY LoanStarts, LoanRow, LoanStops, LoanRelease, LoanUnuse DEF Cursor

LEMMA LoanStep == PoolInv /\ LoanInv /\ [Next]_vars => LoanInv'
<1> SUFFICES ASSUME PoolInv, LoanInv, [Next]_vars PROVE LoanInv'
  OBVIOUS
<1>1. version \in Nat /\ releases \in Nat /\ faults \in Nat
  BY DEF LoanInv, DataType
<1>2. CASE PassOver \/ StartRelease \/ EndRelease \/ Update \/ UNCHANGED vars
  <2>1. /\ UNCHANGED <<statements, reads, phase, iface, stmt, cursors, asked, shared>>
        /\ version' \in Nat /\ version <= version' /\ releases' \in Nat /\ faults' \in Nat
    BY <1>1, <1>2 DEF PassOver, StartRelease, EndRelease, Update, vars, history
  <2>2. QED
    BY <2>1, LoanQuiet
<1>3. CASE FreeInterface
  BY <1>3, LoanFree
<1>4. ASSUME NEW c \in Calls, Place(c) \/ Statement(c) \/ Cursor(c) PROVE LoanInv'
  BY <1>4, LoanPlace, LoanStatement, LoanCursor
<1>5. QED
  BY <1>2, <1>3, <1>4 DEF Next, ReleaseMemory

\* Every variable keeps its type, for any calls, pool and caches.
THEOREM InterfacesTypes == Spec => []TypeOK
<1>1. PoolInv /\ LoanInv => TypeOK
  <2> SUFFICES ASSUME PoolInv, LoanInv PROVE TypeOK
    OBVIOUS
  <2>1. users \in [Calls -> Nat]
    <3>1. \A i \in Calls : users[i] \in Nat
      BY OnFinite DEF PoolInv, Counted, UsersOf
    <3>2. QED
      BY <3>1 DEF PoolInv, PoolType
  <2>2. QED
    BY <2>1 DEF PoolInv, PoolType, LoanInv, DataType, TypeOK
<1>2. QED
  BY <1>1, PoolInit, PoolStep, LoanInit, LoanStep, PTL DEF Spec

\* A cursor returns the rows of its query with the values of its call, in order and all
\* of one version, which is none older than its call when it has an interface for
\* itself: whatever others do with the interface, its cache and its statements.
THEOREM CursorsExact == Spec => []CursorExact
<1>1. LoanInv => CursorExact
  BY DEF LoanInv, CursorStates, CursorState, CursorExact
<1>2. QED
  BY <1>1, PoolInit, PoolStep, LoanInit, LoanStep, PTL DEF Spec

\* The statements of a cache have different texts, are no more than it may have, and
\* hold nothing of earlier calls unless they are lent, for a cache of any size.
THEOREM CachesTidy == Spec => []CacheTidy
<1>1. PoolInv /\ LoanInv => CacheTidy
  <2> SUFFICES ASSUME PoolInv, LoanInv, NEW i \in Members(queue)
               PROVE  /\ Len(cache[i]) <= MaxStatements
                      /\ \A k, m \in DOMAIN cache[i] :
                           k # m => ~SameText(cache[i][k], cache[i][m])
                      /\ \A s \in Members(cache[i]) \ lent : at[s] = 0 /\ bound[s] = None
    BY DEF CacheTidy
  <2>1. TidyCache(i)
    BY DEF PoolInv, PoolType, Members, LoanInv, TidyCaches
  <2>2. QED
    BY <2>1 DEF TidyCache, Members
<1>2. QED
  BY <1>1, PoolInit, PoolStep, LoanInit, LoanStep, PTL DEF Spec

\* A statement that values are bound to, or that a cursor is made of, is not in use by
\* another, as tracker_db_statement_bind_int and tracker_db_statement_sqlite_grab assert.
NotUsedTwice ==
  \A c \in Calls : phase[c] \in {"prepared", "bound"} => stmt[c] \notin grabbed

THEOREM AssertionsHold == Spec => []NotUsedTwice
<1>1. LoanInv => NotUsedTwice
  <2> SUFFICES ASSUME LoanInv, NEW c \in Calls, phase[c] \in {"prepared", "bound"},
                      stmt[c] \in grabbed
               PROVE  FALSE
    BY DEF NotUsedTwice
  <2>1. PICK d \in Calls : phase[d] \in {"started", "open"} /\ stmt[d] = stmt[c]
    BY DEF LoanInv, GrabbedByCursors
  <2>2. QED
    BY <2>1 DEF LoanInv, LentOnce, Lending
<1>2. QED
  BY <1>1, PoolInit, PoolStep, LoanInit, LoanStep, PTL DEF Spec
=============================================================================
