------------------------- MODULE PeerDeliveryProofs -------------------------
(***************************************************************************)
(* Proofs about PeerDelivery for every number of messages, connections,    *)
(* cuts, outages and calls, and every size of the dead-letter queue: no    *)
(* message vanishes, none is multiplied, none is stranded.                 *)
(***************************************************************************)
EXTENDS PeerDelivery, SequenceTheorems, FiniteSetTheorems, TLAPS

-----------------------------------------------------------------------------
(* The dead-letter queue *)

NoRepeats(q) == \A i, j \in DOMAIN q : q[i] = q[j] => i = j

\* The elements of a sequence, by position.
LEMMA ElemsOfSeq ==
    ASSUME NEW S, NEW q \in Seq(S)
    PROVE  /\ Elems(q) \subseteq S
           /\ DOMAIN q = 1..Len(q) /\ Len(q) \in Nat
           /\ \A x : x \in Elems(q) <=> \E i \in 1..Len(q) : q[i] = x
BY LenProperties DEF Elems

\* Appending adds one element and, if it is new, no repetition.
LEMMA ElemsOfAppend ==
    ASSUME NEW S, NEW q \in Seq(S), NEW m \in S
    PROVE  /\ Append(q, m) \in Seq(S) /\ Len(Append(q, m)) = Len(q) + 1
           /\ Elems(Append(q, m)) = Elems(q) \cup {m}
           /\ NoRepeats(q) /\ m \notin Elems(q) => NoRepeats(Append(q, m))
<1> DEFINE a == Append(q, m)
<1>1. /\ a \in Seq(S) /\ Len(a) = Len(q) + 1 /\ a[Len(q) + 1] = m
      /\ \A i \in 1..Len(q) : a[i] = q[i]
  BY AppendProperties
<1>2. /\ DOMAIN a = 1..(Len(q) + 1) /\ DOMAIN q = 1..Len(q) /\ Len(q) \in Nat
  BY <1>1, LenProperties
<1> HIDE DEF a
<1>3. Elems(a) = Elems(q) \cup {m}
  <2>1. \A x \in Elems(a) : x \in Elems(q) \cup {m}
    BY <1>1, <1>2 DEF Elems
  <2>2. \A x \in Elems(q) \cup {m} : x \in Elems(a)
    BY <1>1, <1>2 DEF Elems
  <2> QED BY <2>1, <2>2
<1>4. ASSUME NoRepeats(q), m \notin Elems(q) PROVE NoRepeats(a)
  BY <1>1, <1>2, <1>4 DEF NoRepeats, Elems
<1> QED BY <1>1, <1>3, <1>4 DEF a

\* A queue is its oldest message and the rest.
LEMMA ElemsOfTail ==
    ASSUME NEW S, NEW q \in Seq(S), q # <<>>
    PROVE  /\ Tail(q) \in Seq(S) /\ Len(Tail(q)) = Len(q) - 1 /\ Head(q) \in S
           /\ Elems(q) = {Head(q)} \cup Elems(Tail(q))
           /\ NoRepeats(q) => NoRepeats(Tail(q)) /\ Head(q) \notin Elems(Tail(q))
<1> DEFINE t == Tail(q)
<1>1. /\ t \in Seq(S) /\ Len(t) = Len(q) - 1 /\ Head(q) \in S
      /\ \A i \in 1..Len(t) : t[i] = q[i + 1]
  BY HeadTailProperties
<1>2. /\ DOMAIN t = 1..(Len(q) - 1) /\ DOMAIN q = 1..Len(q) /\ Len(q) \in Nat \ {0}
      /\ Head(q) = q[1]
  BY <1>1, LenProperties, EmptySeq
<1> HIDE DEF t
<1>3. Elems(q) = {Head(q)} \cup Elems(t)
  <2>1. ASSUME NEW i \in DOMAIN q PROVE q[i] \in {Head(q)} \cup Elems(t)
    <3>1. CASE i = 1
      BY <1>2, <3>1
    <3>2. CASE i # 1
      <4>1. i - 1 \in DOMAIN t /\ t[i - 1] = q[i]
        BY <1>1, <1>2, <3>2
      <4> QED BY <4>1 DEF Elems
    <3> QED BY <3>1, <3>2
  <2>2. \A x \in {Head(q)} \cup Elems(t) : x \in Elems(q)
    BY <1>1, <1>2 DEF Elems
  <2> QED BY <2>1, <2>2 DEF Elems
<1>4. ASSUME NoRepeats(q) PROVE NoRepeats(t) /\ Head(q) \notin Elems(t)
  <2>1. \A i \in DOMAIN t : i \in Int /\ i + 1 \in DOMAIN q /\ i + 1 # 1 /\ t[i] = q[i + 1]
    BY <1>1, <1>2
  <2>2. NoRepeats(t)
    BY <1>4, <2>1 DEF NoRepeats
  <2>3. 1 \in DOMAIN q
    BY <1>2
  <2> QED BY <1>2, <1>4, <2>1, <2>2, <2>3 DEF NoRepeats, Elems
<1> QED BY <1>1, <1>3, <1>4 DEF t

\* A queue is all but its newest message, and that one.
LEMMA ElemsOfFront ==
    ASSUME NEW S, NEW q \in Seq(S), q # <<>>
    PROVE  LET f == SubSeq(q, 1, Len(q) - 1) IN
           /\ f \in Seq(S) /\ Len(f) = Len(q) - 1 /\ q[Len(q)] \in S
           /\ Elems(q) = Elems(f) \cup {q[Len(q)]}
           /\ NoRepeats(q) => NoRepeats(f)
<1> DEFINE f == SubSeq(q, 1, Len(q) - 1)
<1>1. DOMAIN q = 1..Len(q) /\ Len(q) \in Nat \ {0} /\ \A i \in 1..Len(q) : q[i] \in S
  BY LenProperties, EmptySeq, ElementOfSeq
<1>2. /\ f \in Seq(S) /\ Len(f) = Len(q) - 1
      /\ \A i \in 1..(Len(q) - 1) : f[i] = q[i]
  <2>1. \A i \in 1..(Len(q) - 1) : q[i] \in S
    BY <1>1
  <2>2. /\ f \in Seq(S)
        /\ Len(f) = IF 1 <= Len(q) - 1 THEN Len(q) - 1 - 1 + 1 ELSE 0
        /\ \A i \in 1..(Len(q) - 1 - 1 + 1) : f[i] = q[1 + i - 1]
    BY <1>1, <2>1, SubSeqProperties
  <2>3. Len(q) - 1 - 1 + 1 = Len(q) - 1 /\ \A i \in 1..(Len(q) - 1) : 1 + i - 1 = i
    BY <1>1
  <2>4. Len(f) = Len(q) - 1
    BY <1>1, <2>2
  <2>5. \A i \in 1..(Len(q) - 1) : f[i] = q[i]
    BY <2>2, <2>3
  <2> QED BY <2>2, <2>4, <2>5
<1>3. DOMAIN f = 1..(Len(q) - 1)
  BY <1>2, LenProperties
<1> HIDE DEF f
<1>4. Elems(q) = Elems(f) \cup {q[Len(q)]}
  <2>1. \A n \in Nat \ {0} : \A i \in 1..n : i \in 1..(n - 1) \/ i = n
    OBVIOUS
  <2>2. \A x \in Elems(q) : x \in Elems(f) \cup {q[Len(q)]}
    BY <1>1, <1>2, <1>3, <2>1 DEF Elems
  <2>3. \A x \in Elems(f) \cup {q[Len(q)]} : x \in Elems(q)
    BY <1>1, <1>2, <1>3 DEF Elems
  <2> QED BY <2>2, <2>3
<1>5. ASSUME NoRepeats(q) PROVE NoRepeats(f)
  BY <1>1, <1>2, <1>3, <1>5 DEF NoRepeats
<1> QED BY <1>1, <1>2, <1>4, <1>5 DEF f

\* A message put before a queue.
LEMMA ElemsOfPrepend ==
    ASSUME NEW S, NEW q \in Seq(S), NEW m \in S
    PROVE  /\ <<m>> \o q \in Seq(S) /\ Len(<<m>> \o q) = Len(q) + 1
           /\ Elems(<<m>> \o q) = Elems(q) \cup {m}
           /\ NoRepeats(q) /\ m \notin Elems(q) => NoRepeats(<<m>> \o q)
<1> DEFINE p == <<m>> \o q
<1>1. <<m>> \in Seq(S) /\ Len(<<m>>) = 1 /\ <<m>>[1] = m
  OBVIOUS
<1>2. /\ p \in Seq(S) /\ Len(p) = Len(q) + 1 /\ Len(q) \in Nat
      /\ p[1] = m /\ \A i \in 2..(Len(q) + 1) : p[i] = q[i - 1]
  <2>1. /\ p \in Seq(S) /\ Len(p) = 1 + Len(q) /\ Len(q) \in Nat
        /\ \A i \in 1..(1 + Len(q)) : p[i] = IF i <= 1 THEN <<m>>[i] ELSE q[i - 1]
    BY <1>1, ConcatProperties, LenProperties
  <2> HIDE DEF p
  <2> QED BY <1>1, <2>1
<1>3. DOMAIN p = 1..(Len(q) + 1) /\ DOMAIN q = 1..Len(q)
  BY <1>2, LenProperties
<1> HIDE DEF p
<1>4. \A i \in 1..Len(q) : i + 1 \in 2..(Len(q) + 1) /\ p[i + 1] = q[i]
  BY <1>2
<1>5. Elems(p) = Elems(q) \cup {m}
  <2>1. ASSUME NEW i \in DOMAIN p PROVE p[i] \in Elems(q) \cup {m}
    <3>1. CASE i = 1
      BY <1>2, <3>1
    <3>2. CASE i # 1
      <4>1. i - 1 \in DOMAIN q /\ p[i] = q[i - 1]
        BY <1>2, <1>3, <3>2
      <4> QED BY <4>1 DEF Elems
    <3> QED BY <3>1, <3>2
  <2>2. \A i \in DOMAIN q : q[i] \in Elems(p)
    BY <1>2, <1>3, <1>4 DEF Elems
  <2>3. m \in Elems(p)
    BY <1>2, <1>3 DEF Elems
  <2> QED BY <2>1, <2>2, <2>3 DEF Elems
<1>6. ASSUME NoRepeats(q), m \notin Elems(q) PROVE NoRepeats(p)
  <2> SUFFICES ASSUME NEW i \in DOMAIN p, NEW j \in DOMAIN p, p[i] = p[j] PROVE i = j
    BY DEF NoRepeats
  <2>1. \A k \in DOMAIN p : k = 1 \/ (k - 1 \in DOMAIN q /\ p[k] = q[k - 1] /\ p[k] \in Elems(q))
    BY <1>2, <1>3 DEF Elems
  <2>2. CASE i = 1 \/ j = 1
    BY <1>2, <1>6, <2>1, <2>2
  <2>3. CASE i # 1 /\ j # 1
    BY <1>3, <1>6, <2>1, <2>3 DEF NoRepeats
  <2> QED BY <2>2, <2>3
<1> QED BY <1>2, <1>5, <1>6 DEF p

\* enqueue: the queue keeps to its size, and what it does not hold afterwards
\* it has evicted.
LEMMA EnqueueKeeps ==
    ASSUME NEW q \in Seq(Msg), Len(q) <= MaxSize, NEW m \in Msg
    PROVE  /\ Enqueue(q, m) \in Seq(Msg) /\ Len(Enqueue(q, m)) <= MaxSize
           /\ EnqueueEvicts(q) \subseteq Elems(q)
           /\ Elems(Enqueue(q, m)) \subseteq Elems(q) \cup {m}
           /\ m \in Elems(Enqueue(q, m))
           /\ Elems(q) \subseteq Elems(Enqueue(q, m)) \cup EnqueueEvicts(q)
           /\ NoRepeats(q) /\ m \notin Elems(q) => NoRepeats(Enqueue(q, m))
           /\ EnqueueEvicts(q) # {} => Len(q) = MaxSize
           /\ Enqueue(q, m) # <<>>
<1>1. MaxSize \in Nat \ {0} /\ Len(q) \in Nat
  BY MaxSizeAssumption, LenProperties
<1>2. CASE Full(q)
  <2>1. Len(q) = MaxSize /\ q # <<>>
    BY <1>1, <1>2, EmptySeq DEF Full
  <2>2. /\ Tail(q) \in Seq(Msg) /\ Len(Tail(q)) = Len(q) - 1 /\ Head(q) \in Msg
        /\ Elems(q) = {Head(q)} \cup Elems(Tail(q))
        /\ NoRepeats(q) => NoRepeats(Tail(q))
    BY <2>1, ElemsOfTail
  <2>3. /\ Append(Tail(q), m) \in Seq(Msg) /\ Len(Append(Tail(q), m)) = Len(Tail(q)) + 1
        /\ Elems(Append(Tail(q), m)) = Elems(Tail(q)) \cup {m}
        /\ NoRepeats(Tail(q)) /\ m \notin Elems(Tail(q)) => NoRepeats(Append(Tail(q), m))
        /\ Append(Tail(q), m) # <<>>
    <3> DEFINE t == Tail(q)
    <3>1. t \in Seq(Msg)
      BY <2>2
    <3> HIDE DEF t
    <3>2. Append(t, m) # <<>>
      BY <3>1, AppendProperties
    <3>3. /\ Append(t, m) \in Seq(Msg) /\ Len(Append(t, m)) = Len(t) + 1
          /\ Elems(Append(t, m)) = Elems(t) \cup {m}
          /\ NoRepeats(t) /\ m \notin Elems(t) => NoRepeats(Append(t, m))
      BY <3>1, ElemsOfAppend
    <3> QED BY <3>2, <3>3 DEF t
  <2>4. Enqueue(q, m) = Append(Tail(q), m) /\ EnqueueEvicts(q) = {Head(q)}
    BY <1>2 DEF Enqueue, EnqueueEvicts
  <2> QED BY <1>1, <2>1, <2>2, <2>3, <2>4
<1>3. CASE ~Full(q)
  <2>1. Enqueue(q, m) = Append(q, m) /\ EnqueueEvicts(q) = {} /\ Len(q) < MaxSize
    BY <1>1, <1>3 DEF Enqueue, EnqueueEvicts, Full
  <2>2. Append(q, m) # <<>>
    BY AppendProperties
  <2> QED BY <1>1, <2>1, <2>2, ElemsOfAppend
<1> QED BY <1>2, <1>3

\* enqueue_front: likewise, from the other end.
LEMMA EnqueueFrontKeeps ==
    ASSUME NEW q \in Seq(Msg), Len(q) <= MaxSize, NEW m \in Msg
    PROVE  /\ EnqueueFront(q, m) \in Seq(Msg) /\ Len(EnqueueFront(q, m)) <= MaxSize
           /\ EnqueueFrontEvicts(q) \subseteq Elems(q)
           /\ Elems(EnqueueFront(q, m)) \subseteq Elems(q) \cup {m}
           /\ m \in Elems(EnqueueFront(q, m))
           /\ Elems(q) \subseteq Elems(EnqueueFront(q, m)) \cup EnqueueFrontEvicts(q)
           /\ NoRepeats(q) /\ m \notin Elems(q) => NoRepeats(EnqueueFront(q, m))
           /\ EnqueueFrontEvicts(q) # {} => Len(q) = MaxSize
<1>1. MaxSize \in Nat \ {0} /\ Len(q) \in Nat
  BY MaxSizeAssumption, LenProperties
<1>2. CASE Full(q)
  <2> DEFINE f == SubSeq(q, 1, Len(q) - 1)
  <2>1. Len(q) = MaxSize /\ q # <<>>
    BY <1>1, <1>2, EmptySeq DEF Full
  <2>2. /\ f \in Seq(Msg) /\ Len(f) = Len(q) - 1 /\ q[Len(q)] \in Msg
        /\ Elems(q) = Elems(f) \cup {q[Len(q)]}
        /\ NoRepeats(q) => NoRepeats(f)
    BY <2>1, ElemsOfFront
  <2>3. EnqueueFront(q, m) = <<m>> \o f /\ EnqueueFrontEvicts(q) = {q[Len(q)]}
    BY <1>2 DEF EnqueueFront, EnqueueFrontEvicts
  <2> HIDE DEF f
  <2>4. /\ <<m>> \o f \in Seq(Msg) /\ Len(<<m>> \o f) = Len(f) + 1
        /\ Elems(<<m>> \o f) = Elems(f) \cup {m}
        /\ NoRepeats(f) /\ m \notin Elems(f) => NoRepeats(<<m>> \o f)
    BY <2>2, ElemsOfPrepend
  <2> QED BY <1>1, <2>1, <2>2, <2>3, <2>4
<1>3. CASE ~Full(q)
  <2>1. EnqueueFront(q, m) = <<m>> \o q /\ EnqueueFrontEvicts(q) = {} /\ Len(q) < MaxSize
    BY <1>1, <1>3 DEF EnqueueFront, EnqueueFrontEvicts, Full
  <2> QED BY <1>1, <2>1, ElemsOfPrepend
<1> QED BY <1>2, <1>3

-----------------------------------------------------------------------------
(* Types *)

\* A task at a program point, with or without a message.
LEMMA TaskType ==
    ASSUME NEW points, NEW p \in points
    PROVE  /\ At(p) \in Task(points)
           /\ \A c \in Conn \cup {NoConn}, m \in Msg : On(p, c, m) \in Task(points)
BY DEF At, On, Task

\* What a task holds are messages, on connections.
LEMMA HeldType ==
    ASSUME TypeOK, NEW m \in Msg
    PROVE  /\ send[m].has \subseteq Msg /\ drain[m].has \subseteq Msg
           /\ send[m].on \in Conn \cup {NoConn} /\ drain[m].on \in Conn \cup {NoConn}
<1>1. /\ send[m] \in Task({"idle", "connecting", "flushing", "done"})
      /\ drain[m] \in Task({"off", "starting", "connecting", "flushing", "refused", "sleeping"})
  BY DEF TypeOK
<1>2. ASSUME NEW points, NEW r \in Task(points)
      PROVE  r.has \subseteq Msg /\ r.on \in Conn \cup {NoConn}
  <2>1. r.has \in {{}} \cup {{k} : k \in Msg} /\ r.on \in Conn \cup {NoConn}
    BY DEF Task
  <2> QED BY <2>1
<1> QED BY <1>1, <1>2

\* A node just constructed.
LEMMA TypeInit == Init => TypeOK
<1> SUFFICES ASSUME Init PROVE TypeOK
  OBVIOUS
<1>1. queue \in Seq(Msg) /\ Len(queue) <= MaxSize /\ wire \in [Conn -> Seq(Msg)]
  BY MaxSizeAssumption DEF Init
<1>2. /\ send \in [Msg -> Task({"idle", "connecting", "flushing", "done"})]
      /\ drain \in [Msg -> Task({"off", "starting", "connecting", "flushing", "refused", "sleeping"})]
  BY TaskType DEF Init
<1>3. breaks \in 0..MaxBreaks /\ outages \in 0..MaxOutages /\ churn \in 0..MaxChurn
  BY BoundAssumption DEF Init
<1>4. /\ cached \in Conn \cup {NoConn}
      /\ conn \in [Conn -> {"free", "open", "closing", "broken", "closed"}]
      /\ delivered \subseteq Msg /\ twice \subseteq delivered
      /\ evicted \in SUBSET Msg /\ cut \in SUBSET Msg
  BY DEF Init
<1>5. registered \in BOOLEAN /\ running \in BOOLEAN /\ stopping \in BOOLEAN /\ peerUp \in BOOLEAN
  BY DEF Init
<1> QED BY <1>1, <1>2, <1>3, <1>4, <1>5 DEF TypeOK

\* ws.send() adds one frame to one connection, or to what was cut.
LEMMA WriteType ==
    ASSUME TypeOK, NEW c \in Conn \cup {NoConn}, NEW m \in Msg, Write(c, m)
    PROVE  wire' \in [Conn -> Seq(Msg)] /\ cut' \in SUBSET Msg
<1>1. ASSUME c \in Conn PROVE Append(wire[c], m) \in Seq(Msg)
  BY <1>1, AppendProperties DEF TypeOK
<1>2. wire' = wire \/ wire' = [wire EXCEPT ![c] = Append(wire[c], m)]
  BY DEF Write
<1>3. wire' \in [Conn -> Seq(Msg)]
  BY <1>1, <1>2 DEF TypeOK
<1> QED BY <1>3 DEF TypeOK, Write

LEMMA OpensType ==
    ASSUME TypeOK, NEW c \in Conn, NEW q \in Seq(Msg), Opens(c, q)
    PROVE  /\ wire' \in [Conn -> Seq(Msg)] /\ cached' \in Conn \cup {NoConn}
           /\ conn' \in [Conn -> {"free", "open", "closing", "broken", "closed"}]
BY DEF TypeOK, Opens

LEMMA ToQueueType ==
    ASSUME TypeOK, NEW m \in Msg, ToQueue(m)
    PROVE  queue' \in Seq(Msg) /\ Len(queue') <= MaxSize /\ evicted' \in SUBSET Msg
<1>1. queue \in Seq(Msg) /\ Len(queue) <= MaxSize /\ evicted \in SUBSET Msg
  BY DEF TypeOK
<1>2. Elems(queue) \subseteq Msg
  BY <1>1, ElemsOfSeq
<1> QED BY <1>1, <1>2, EnqueueKeeps DEF ToQueue

LEMMA FallbackType ==
    ASSUME TypeOK, NEW m \in Msg, Fallback(m)
    PROVE  /\ queue' \in Seq(Msg) /\ Len(queue') <= MaxSize /\ evicted' \in SUBSET Msg
           /\ send' \in [Msg -> Task({"idle", "connecting", "flushing", "done"})]
           /\ drain' \in [Msg -> Task({"off", "starting", "connecting", "flushing", "refused", "sleeping"})]
BY ToQueueType, TaskType DEF TypeOK, Fallback

LEMMA TakesType ==
    ASSUME TypeOK, NEW d \in Msg, NEW c \in Conn \cup {NoConn},
           NEW p \in {"flushing", "refused"}, Takes(d, c, p)
    PROVE  /\ queue' \in Seq(Msg) /\ Len(queue') <= MaxSize
           /\ drain' \in [Msg -> Task({"off", "starting", "connecting", "flushing", "refused", "sleeping"})]
           /\ HasMessages(queue) => Head(queue) \in Msg
<1>1. queue \in Seq(Msg) /\ Len(queue) <= MaxSize /\ Len(queue) \in Nat /\ MaxSize \in Nat
  BY MaxSizeAssumption, LenProperties DEF TypeOK
<1>2. CASE HasMessages(queue)
  <2>1. Tail(queue) \in Seq(Msg) /\ Len(Tail(queue)) = Len(queue) - 1 /\ Head(queue) \in Msg
    BY <1>1, <1>2, HeadTailProperties DEF HasMessages
  <2>2. queue' = Tail(queue) /\ drain' = [drain EXCEPT ![d] = On(p, c, Head(queue))]
    BY <1>2 DEF Takes, DequeueOne
  <2>3. drain' \in [Msg -> Task({"off", "starting", "connecting", "flushing", "refused", "sleeping"})]
    BY <2>1, <2>2, TaskType DEF TypeOK
  <2> QED BY <1>1, <2>1, <2>2, <2>3
<1>3. CASE ~HasMessages(queue)
  BY <1>1, <1>3, TaskType DEF TypeOK, Takes
<1> QED BY <1>2, <1>3

\* Every step between two awaits of node.py keeps the shapes, and the queue its
\* size.
LEMMA TypeStep == TypeOK /\ [Next]_vars => TypeOK'
<1> SUFFICES ASSUME TypeOK, [Next]_vars PROVE TypeOK'
  OBVIOUS
<1> DEFINE SendType == [Msg -> Task({"idle", "connecting", "flushing", "done"})]
           DrainType == [Msg -> Task({"off", "starting", "connecting", "flushing", "refused", "sleeping"})]
<1>0. send \in SendType /\ drain \in DrainType
  BY DEF TypeOK
<1>1. ASSUME NEW m \in Msg, NEW r \in Task({"idle", "connecting", "flushing", "done"})
      PROVE  [send EXCEPT ![m] = r] \in SendType
  BY <1>0
<1>2. ASSUME NEW m \in Msg,
             NEW r \in Task({"off", "starting", "connecting", "flushing", "refused", "sleeping"})
      PROVE  [drain EXCEPT ![m] = r] \in DrainType
  BY <1>0
<1>3. ASSUME NEW m \in Msg, DispatchUnregistered(m) PROVE TypeOK'
  <2>1. send' \in SendType
    BY <1>1, <1>3, TaskType DEF DispatchUnregistered
  <2>2. queue' \in Seq(Msg) /\ Len(queue') <= MaxSize /\ evicted' \in SUBSET Msg
    BY <1>3, ToQueueType DEF DispatchUnregistered
  <2> QED BY <1>3, <2>1, <2>2 DEF DispatchUnregistered, pool, node, net, arrived, TypeOK
<1>4. ASSUME NEW m \in Msg, DispatchCached(m) PROVE TypeOK'
  <2>1. send' \in SendType
    BY <1>1, <1>4, TaskType DEF DispatchCached, TypeOK
  <2>2. wire' \in [Conn -> Seq(Msg)] /\ cut' \in SUBSET Msg
    BY <1>4, WriteType DEF DispatchCached, TypeOK
  <2> QED BY <1>4, <2>1, <2>2 DEF DispatchCached, dlq, node, arrived, TypeOK
<1>5. ASSUME NEW m \in Msg, DispatchConnect(m) PROVE TypeOK'
  <2>1. send' \in SendType
    BY <1>1, <1>5, TaskType DEF DispatchConnect
  <2> QED BY <1>5, <2>1 DEF DispatchConnect, dlq, node, net, arrived, TypeOK
<1>6. ASSUME NEW m \in Msg, NEW c \in Conn, SendConnected(m, c) PROVE TypeOK'
  <2>1. send' \in SendType
    BY <1>1, <1>6, TaskType DEF SendConnected
  <2>2. <<m>> \in Seq(Msg)
    OBVIOUS
  <2> QED BY <1>6, <2>1, <2>2, OpensType DEF SendConnected, dlq, node, net, arrived, TypeOK
<1>7. ASSUME NEW m \in Msg, SendRefused(m) PROVE TypeOK'
  BY <1>7, FallbackType DEF SendRefused, pool, node, net, arrived, TypeOK
<1>8. ASSUME NEW m \in Msg, SendFlushed(m) PROVE TypeOK'
  <2>1. send' \in SendType
    BY <1>1, <1>8, TaskType DEF SendFlushed
  <2> QED BY <1>8, <2>1 DEF SendFlushed, dlq, pool, node, net, arrived, TypeOK
<1>9. ASSUME NEW m \in Msg, SendFailed(m) PROVE TypeOK'
  BY <1>9, FallbackType DEF SendFailed, node, net, arrived, TypeOK
<1>10. ASSUME NEW d \in Msg, DrainStart(d) PROVE TypeOK'
  <2>1. drain' \in DrainType
    BY <1>2, <1>10, TaskType DEF DrainStart, NextRound
  <2> QED BY <1>10, <2>1 DEF DrainStart, dlq, pool, node, net, arrived, TypeOK
<1>11. ASSUME NEW d \in Msg, NEW c \in Conn, DrainConnected(d, c) PROVE TypeOK'
  <2> DEFINE q == IF HasMessages(queue) THEN <<Head(queue)>> ELSE <<>>
  <2>1. /\ queue' \in Seq(Msg) /\ Len(queue') <= MaxSize /\ drain' \in DrainType
        /\ HasMessages(queue) => Head(queue) \in Msg
    BY <1>11, TakesType DEF DrainConnected
  <2>2. q \in Seq(Msg) /\ Opens(c, q)
    BY <1>11, <2>1 DEF DrainConnected
  <2> HIDE DEF q
  <2> QED BY <1>11, <2>1, <2>2, OpensType DEF DrainConnected, node, net, arrived, TypeOK
<1>12. ASSUME NEW d \in Msg, DrainRefused(d) PROVE TypeOK'
  <2>1. drain' \in DrainType
    BY <1>2, <1>12, TaskType DEF DrainRefused
  <2> QED BY <1>12, <2>1 DEF DrainRefused, dlq, pool, node, net, arrived, TypeOK
<1>13. ASSUME NEW d \in Msg, DrainFlushed(d) PROVE TypeOK'
  <2> DEFINE c == drain[d].on
             p == IF conn[c] = "closed" THEN "refused" ELSE "flushing"
  <2>1. c \in Conn \cup {NoConn} /\ p \in {"flushing", "refused"} /\ Takes(d, c, p)
    BY <1>13, HeldType DEF DrainFlushed
  <2> HIDE DEF p
  <2>2. /\ queue' \in Seq(Msg) /\ Len(queue') <= MaxSize /\ drain' \in DrainType
        /\ HasMessages(queue) => Head(queue) \in Msg
    BY <2>1, TakesType
  <2>3. wire' \in [Conn -> Seq(Msg)] /\ cut' \in SUBSET Msg
    BY <1>13, <2>1, <2>2, WriteType DEF DrainFlushed, TypeOK
  <2> QED BY <1>13, <2>2, <2>3 DEF DrainFlushed, node, arrived, TypeOK
<1>14. ASSUME NEW d \in Msg, DrainFailed(d) PROVE TypeOK'
  <2>1. drain' \in DrainType
    BY <1>2, <1>14, TaskType DEF DrainFailed
  <2>2. PICK m \in drain[d].has : queue' = EnqueueFront(queue, m)
    BY <1>14 DEF DrainFailed
  <2>3. m \in Msg /\ queue \in Seq(Msg) /\ Len(queue) <= MaxSize /\ Elems(queue) \subseteq Msg
    BY HeldType, ElemsOfSeq DEF TypeOK
  <2>4. /\ queue' \in Seq(Msg) /\ Len(queue') <= MaxSize
        /\ EnqueueFrontEvicts(queue) \subseteq Msg
    BY <2>2, <2>3, EnqueueFrontKeeps
  <2> QED BY <1>14, <2>1, <2>4 DEF DrainFailed, pool, node, net, arrived, TypeOK
<1>15. ASSUME NEW d \in Msg, DrainWake(d) PROVE TypeOK'
  <2>1. drain' \in DrainType
    BY <1>2, <1>15, TaskType DEF DrainWake, NextRound
  <2> QED BY <1>15, <2>1 DEF DrainWake, dlq, pool, node, net, arrived, TypeOK
<1>16. CASE RegisterPeer \/ RemovePeer \/ StopBegin \/ StopEnd \/ Start
  <2> USE DEF RegisterPeer, RemovePeer, StopBegin, StopEnd, Start
  <2>1. churn' \in 0..MaxChurn
    BY <1>16, BoundAssumption DEF Churns, TypeOK
  <2>2. registered' \in BOOLEAN /\ running' \in BOOLEAN /\ stopping' \in BOOLEAN
    BY <1>16 DEF TypeOK
  <2>3. /\ cached' \in Conn \cup {NoConn}
        /\ conn' \in [Conn -> {"free", "open", "closing", "broken", "closed"}]
    BY <1>16 DEF TypeOK, pool
  <2>4. UNCHANGED <<queue, evicted, wire, send, drain, net>>
    BY <1>16 DEF dlq, pool, tasks
  <2> QED BY <2>1, <2>2, <2>3, <2>4 DEF net, arrived, TypeOK
<1>17. ASSUME NEW c \in Conn, Receive(c) PROVE TypeOK'
  <2>1. wire[c] \in Seq(Msg) /\ wire[c] # <<>>
    BY <1>17 DEF Receive, TypeOK
  <2>2. Head(wire[c]) \in Msg /\ Tail(wire[c]) \in Seq(Msg)
    BY <2>1, HeadTailProperties
  <2> QED BY <1>17, <2>2 DEF Receive, dlq, tasks, node, TypeOK
<1>18. ASSUME NEW c \in Conn, Break(c) PROVE TypeOK'
  <2>1. Elems(wire[c]) \subseteq Msg /\ <<>> \in Seq(Msg)
    BY ElemsOfSeq DEF TypeOK
  <2> QED BY <1>18, <2>1, BoundAssumption DEF Break, dlq, tasks, node, arrived, TypeOK
<1>19. ASSUME NEW c \in Conn, Notice(c) PROVE TypeOK'
  BY <1>19 DEF Notice, dlq, tasks, node, net, arrived, TypeOK
<1>20. CASE PeerDown \/ PeerBack
  <2>1. outages' \in 0..MaxOutages
    BY <1>20, BoundAssumption DEF PeerDown, PeerBack, TypeOK
  <2>2. peerUp' \in BOOLEAN
    BY <1>20 DEF PeerDown, PeerBack
  <2>3. UNCHANGED <<arrived, cut, breaks, dlq, pool, tasks, node>>
    BY <1>20 DEF PeerDown, PeerBack
  <2> QED BY <2>1, <2>2, <2>3 DEF arrived, dlq, pool, tasks, node, TypeOK
<1>21. CASE UNCHANGED vars
  BY <1>21 DEF vars, TypeOK
<1> QED BY <1>3, <1>4, <1>5, <1>6, <1>7, <1>8, <1>9, <1>10, <1>11, <1>12, <1>13, <1>14, <1>15,
           <1>16, <1>17, <1>18, <1>19, <1>20, <1>21 DEF Next, SendStep, DrainStep

\* The state of one peer's connections, queue and tasks keeps its shape, and the
\* queue never exceeds max_size_per_peer (queue.py).
THEOREM DeliveryTypeOK == Spec => []TypeOK
BY TypeInit, TypeStep, PTL DEF Spec

-----------------------------------------------------------------------------
(* What the tasks hold *)

\* What a task holds follows from where it is: a call of send_message holds its
\* own message while it connects and flushes, a drain task what it has taken
\* off the queue; and the drain task of a failed send starts after it.
Hands ==
    /\ \A m \in Msg :
           /\ send[m].has = IF send[m].pc \in {"connecting", "flushing"} THEN {m} ELSE {}
           /\ send[m].pc = "flushing" => send[m].on \in Conn
           /\ send[m].pc # "done" => drain[m].pc = "off"
    /\ \A d \in Msg :
           /\ drain[d].has # {} => drain[d].pc \in {"flushing", "refused"}
           /\ drain[d].pc = "flushing" => drain[d].on \in Conn

\* No message is in two places where it could be sent from.
Owned ==
    /\ NoRepeats(queue)
    /\ \A m \in Msg : send[m].pc # "done" =>
           m \notin Elems(queue) /\ \A d \in Msg : m \notin drain[d].has
    /\ \A d \in Msg : drain[d].has \cap Elems(queue) = {}
    /\ \A d, e \in Msg : d # e => drain[d].has \cap drain[e].has = {}

\* A send moves on: idle to connecting or flushing, or flushing to done.
SendMoves(m) ==
    /\ \/ send[m].pc \in {"idle", "connecting"} /\ send' = [send EXCEPT ![m] = On("connecting", NoConn, m)]
       \/ /\ send[m].pc \in {"idle", "connecting"}
          /\ \E c \in Conn : send' = [send EXCEPT ![m] = On("flushing", c, m)]
       \/ send[m].pc = "flushing" /\ send' = [send EXCEPT ![m] = At("done")]
    /\ UNCHANGED <<queue, drain, evicted>>

\* A send leaves its message to the queue, perhaps with a drain task.
SendQueues(m) ==
    /\ send[m].pc # "done"
    /\ ToQueue(m)
    /\ send' = [send EXCEPT ![m] = At("done")]
    /\ drain' \in {drain, [drain EXCEPT ![m] = At("starting")]}

\* A drain task with nothing in hand goes on to another point.
DrainMoves(d) ==
    /\ drain[d].pc \in {"starting", "connecting", "sleeping"}
    /\ \E p \in {"off", "connecting", "sleeping"} : drain' = [drain EXCEPT ![d] = At(p)]
    /\ UNCHANGED <<queue, send, evicted>>

\* A drain task takes the next message, if any, for a connection.
DrainTakes(d) ==
    /\ drain[d].pc \in {"connecting", "flushing"}
    /\ \E c \in Conn, p \in {"flushing", "refused"} : Takes(d, c, p)
    /\ UNCHANGED <<send, evicted>>

\* A drain task puts its message back.
DrainReturns(d) ==
    /\ drain[d].pc \in {"flushing", "refused"}
    /\ \E m \in drain[d].has : queue' = EnqueueFront(queue, m)
    /\ evicted' = evicted \cup EnqueueFrontEvicts(queue)
    /\ drain' = [drain EXCEPT ![d] = At("sleeping")]
    /\ UNCHANGED send

\* Every step is of one of these kinds, as far as messages in the agent are
\* concerned.
LEMMA StepKinds ==
    ASSUME TypeOK, Hands, [Next]_vars
    PROVE  \/ \E m \in Msg : SendMoves(m) \/ SendQueues(m) \/ DrainMoves(m) \/ DrainTakes(m) \/ DrainReturns(m)
           \/ UNCHANGED <<queue, send, drain, evicted>>
<1>1. ASSUME NEW m \in Msg, DispatchUnregistered(m) PROVE SendQueues(m)
  BY <1>1 DEF DispatchUnregistered, Calls, SendQueues
<1>2. ASSUME NEW m \in Msg, DispatchCached(m) PROVE SendMoves(m)
  BY <1>2 DEF DispatchCached, Calls, SendMoves, dlq, TypeOK
<1>3. ASSUME NEW m \in Msg, DispatchConnect(m) PROVE SendMoves(m)
  BY <1>3 DEF DispatchConnect, Calls, SendMoves, dlq
<1>4. ASSUME NEW m \in Msg, NEW c \in Conn, SendConnected(m, c) PROVE SendMoves(m)
  BY <1>4 DEF SendConnected, SendMoves, dlq
<1>5. ASSUME NEW m \in Msg, SendRefused(m) \/ SendFailed(m) PROVE SendQueues(m)
  BY <1>5 DEF SendRefused, SendFailed, Fallback, SendQueues
<1>6. ASSUME NEW m \in Msg, SendFlushed(m) PROVE SendMoves(m)
  BY <1>6 DEF SendFlushed, SendMoves, dlq
<1>7. ASSUME NEW d \in Msg, DrainStart(d) \/ DrainRefused(d) \/ DrainWake(d) PROVE DrainMoves(d)
  BY <1>7 DEF DrainStart, DrainRefused, DrainWake, NextRound, DrainMoves, dlq
<1>8. ASSUME NEW d \in Msg, NEW c \in Conn, DrainConnected(d, c) PROVE DrainTakes(d)
  BY <1>8 DEF DrainConnected, DrainTakes
<1>9. ASSUME NEW d \in Msg, DrainFlushed(d) PROVE DrainTakes(d)
  <2>1. drain[d].on \in Conn
    BY <1>9 DEF DrainFlushed, Hands
  <2> QED BY <1>9, <2>1 DEF DrainFlushed, DrainTakes
<1>10. ASSUME NEW d \in Msg, DrainFailed(d) PROVE DrainReturns(d)
  BY <1>10 DEF DrainFailed, DrainSendRaises, DrainReturns
<1>11. CASE RegisterPeer \/ RemovePeer \/ StopBegin \/ StopEnd \/ Start \/ PeerDown \/ PeerBack
  BY <1>11 DEF RegisterPeer, RemovePeer, StopBegin, StopEnd, Start, PeerDown, PeerBack, dlq, tasks
<1>12. ASSUME NEW c \in Conn, Receive(c) \/ Break(c) \/ Notice(c)
       PROVE  UNCHANGED <<queue, send, drain, evicted>>
  BY <1>12 DEF Receive, Break, Notice, dlq, tasks
<1>13. CASE UNCHANGED vars
  BY <1>13 DEF vars
<1> QED BY <1>1, <1>2, <1>3, <1>4, <1>5, <1>6, <1>7, <1>8, <1>9, <1>10, <1>11, <1>12, <1>13
        DEF Next, SendStep, DrainStep

LEMMA HandsStep == TypeOK /\ Hands /\ [Next]_vars => Hands'
<1> SUFFICES ASSUME TypeOK, Hands, [Next]_vars PROVE Hands'
  OBVIOUS
<1> USE DEF Hands, At, On
<1>0. DOMAIN send = Msg /\ DOMAIN drain = Msg
  BY DEF TypeOK
<1>1. ASSUME NEW m \in Msg, SendMoves(m) PROVE Hands'
  <2>1. /\ send[m].pc # "done" /\ drain' = drain
        /\ \A k \in Msg \ {m} : send'[k] = send[k]
    BY <1>0, <1>1 DEF SendMoves
  <2>2. \/ send'[m] = On("connecting", NoConn, m)
        \/ \E c \in Conn : send'[m] = On("flushing", c, m)
        \/ send'[m] = At("done")
    BY <1>0, <1>1 DEF SendMoves
  <2>3. CASE send'[m] = On("connecting", NoConn, m)
    <3>1. send'[m].pc = "connecting" /\ send'[m].has = {m}
      BY <2>3
    <3> QED BY <2>1, <3>1
  <2>4. ASSUME NEW c \in Conn, send'[m] = On("flushing", c, m) PROVE Hands'
    <3>1. send'[m].pc = "flushing" /\ send'[m].on = c /\ send'[m].has = {m}
      BY <2>4
    <3> QED BY <2>1, <3>1
  <2>5. CASE send'[m] = At("done")
    <3>1. send'[m].pc = "done" /\ send'[m].has = {}
      BY <2>5
    <3> QED BY <2>1, <3>1
  <2> QED BY <2>2, <2>3, <2>4, <2>5
<1>2. ASSUME NEW m \in Msg, SendQueues(m) PROVE Hands'
  BY <1>0, <1>2 DEF SendQueues
<1>3. ASSUME NEW m \in Msg, DrainMoves(m) PROVE Hands'
  BY <1>0, <1>3 DEF DrainMoves
<1>4. ASSUME NEW m \in Msg, DrainTakes(m) PROVE Hands'
  <2>1. send' = send /\ send[m].pc = "done"
    BY <1>4 DEF DrainTakes
  <2>2. \E c \in Conn, p \in {"flushing", "refused"} :
            drain'[m] \in {On(p, c, Head(queue)), At("off")}
    BY <1>0, <1>4 DEF DrainTakes, Takes
  <2>3. \A d \in Msg \ {m} : drain'[d] = drain[d]
    BY <1>0, <1>4 DEF DrainTakes, Takes
  <2> QED BY <2>1, <2>2, <2>3
<1>5. ASSUME NEW m \in Msg, DrainReturns(m) PROVE Hands'
  BY <1>0, <1>5 DEF DrainReturns
<1>6. CASE UNCHANGED <<queue, send, drain, evicted>>
  BY <1>6
<1> QED BY <1>1, <1>2, <1>3, <1>4, <1>5, <1>6, StepKinds

LEMMA OwnedStep == TypeOK /\ Hands /\ Owned /\ [Next]_vars => Owned'
<1> SUFFICES ASSUME TypeOK, Hands, Owned, [Next]_vars PROVE Owned'
  OBVIOUS
<1>0. /\ DOMAIN send = Msg /\ DOMAIN drain = Msg
      /\ queue \in Seq(Msg) /\ Len(queue) <= MaxSize
  BY DEF TypeOK
<1>1. ASSUME NEW m \in Msg, SendMoves(m) PROVE Owned'
  <2>1. /\ send[m].pc # "done" /\ UNCHANGED <<drain, queue>>
        /\ \A k \in Msg \ {m} : send'[k] = send[k]
    BY <1>0, <1>1 DEF SendMoves
  <2> QED BY <2>1 DEF Owned
<1>2. ASSUME NEW m \in Msg, SendQueues(m) PROVE Owned'
  <2>1. /\ send[m].pc # "done" /\ send'[m].pc = "done"
        /\ \A k \in Msg \ {m} : send'[k] = send[k]
    BY <1>0, <1>2 DEF SendQueues, At
  <2>2. \A d \in Msg : drain'[d].has \subseteq drain[d].has
    BY <1>0, <1>2 DEF SendQueues, At
  <2>3. Elems(queue') \subseteq Elems(queue) \cup {m} /\ NoRepeats(queue')
    BY <1>0, <1>2, <2>1, EnqueueKeeps DEF SendQueues, ToQueue, Owned
  <2>4. \A k \in Msg : send'[k].pc # "done" =>
            k \notin Elems(queue') /\ \A d \in Msg : k \notin drain'[d].has
    BY <2>1, <2>2, <2>3 DEF Owned
  <2>5. \A d \in Msg : drain'[d].has \cap Elems(queue') = {}
    BY <2>1, <2>2, <2>3 DEF Owned
  <2>6. \A d, e \in Msg : d # e => drain'[d].has \cap drain'[e].has = {}
    BY <2>2 DEF Owned
  <2> QED BY <2>3, <2>4, <2>5, <2>6 DEF Owned
<1>3. ASSUME NEW m \in Msg, DrainMoves(m) PROVE Owned'
  <2>1. \A d \in Msg : drain'[d].has \subseteq drain[d].has
    BY <1>0, <1>3 DEF DrainMoves, At
  <2> QED BY <1>3, <2>1 DEF DrainMoves, Owned
<1>4. ASSUME NEW m \in Msg, DrainTakes(m) PROVE Owned'
  <2>1. send' = send /\ \A d \in Msg \ {m} : drain'[d] = drain[d]
    BY <1>0, <1>4 DEF DrainTakes, Takes
  <2>2. CASE HasMessages(queue)
    <3>1. drain'[m].has = {Head(queue)} /\ queue' = Tail(queue)
      BY <1>0, <1>4, <2>2 DEF DrainTakes, Takes, On, DequeueOne
    <3>2. /\ Elems(queue) = {Head(queue)} \cup Elems(queue')
          /\ NoRepeats(queue') /\ Head(queue) \notin Elems(queue')
      BY <1>0, <2>2, <3>1, ElemsOfTail DEF HasMessages, Owned
    <3> DEFINE h == Head(queue)
    <3>3. h \in Elems(queue)
      BY <3>2
    <3> HIDE DEF h
    <3>4. \A k \in Msg : send'[k].pc # "done" =>
              k \notin Elems(queue') /\ \A d \in Msg : k \notin drain'[d].has
      BY <2>1, <3>1, <3>2, <3>3 DEF Owned, h
    <3>5. \A d \in Msg : drain'[d].has \cap Elems(queue') = {}
      BY <2>1, <3>1, <3>2 DEF Owned
    <3>6. \A d \in Msg \ {m} : drain'[d].has \cap drain'[m].has = {}
      BY <2>1, <3>1, <3>3 DEF Owned, h
    <3>7. \A d, e \in Msg : d # e => drain'[d].has \cap drain'[e].has = {}
      BY <2>1, <3>6 DEF Owned
    <3> QED BY <3>2, <3>4, <3>5, <3>7 DEF Owned
  <2>3. CASE ~HasMessages(queue)
    <3>1. drain'[m].has = {} /\ queue' = queue
      BY <1>0, <1>4, <2>3 DEF DrainTakes, Takes, At
    <3>2. \A d \in Msg : drain'[d].has \subseteq drain[d].has
      BY <2>1, <3>1
    <3> QED BY <2>1, <3>1, <3>2 DEF Owned
  <2> QED BY <2>2, <2>3
<1>5. ASSUME NEW m \in Msg, DrainReturns(m) PROVE Owned'
  <2>1. PICK k \in drain[m].has : queue' = EnqueueFront(queue, k)
    BY <1>5 DEF DrainReturns
  <2>2. /\ send' = send /\ drain'[m].has = {}
        /\ \A d \in Msg \ {m} : drain'[d] = drain[d]
    BY <1>0, <1>5 DEF DrainReturns, At
  <2>3. k \in Msg /\ k \notin Elems(queue)
    BY HeldType DEF Owned
  <2>4. Elems(queue') \subseteq Elems(queue) \cup {k} /\ NoRepeats(queue')
    BY <1>0, <2>1, <2>3, EnqueueFrontKeeps DEF Owned
  <2>5. \A d \in Msg : drain'[d].has \subseteq drain[d].has /\ k \notin drain'[d].has
    BY <2>2 DEF Owned
  <2>6. \A j \in Msg : send'[j].pc # "done" =>
            j \notin Elems(queue') /\ \A d \in Msg : j \notin drain'[d].has
    BY <2>2, <2>4, <2>5 DEF Owned
  <2>7. \A d \in Msg : drain'[d].has \cap Elems(queue') = {}
    BY <2>4, <2>5 DEF Owned
  <2>8. \A d, e \in Msg : d # e => drain'[d].has \cap drain'[e].has = {}
    BY <2>5 DEF Owned
  <2> QED BY <2>4, <2>6, <2>7, <2>8 DEF Owned
<1>6. CASE UNCHANGED <<queue, send, drain, evicted>>
  BY <1>6 DEF Owned
<1> QED BY <1>1, <1>2, <1>3, <1>4, <1>5, <1>6, StepKinds

LEMMA OwnedInit == Init => Hands /\ Owned
<1> SUFFICES ASSUME Init PROVE Hands /\ Owned
  OBVIOUS
<1>1. /\ \A m \in Msg : send[m].pc = "idle" /\ send[m].has = {} /\ drain[m].pc = "off" /\ drain[m].has = {}
      /\ DOMAIN queue = {} /\ Elems(queue) = {}
  BY DEF Init, At, Elems
<1>2. Hands
  BY <1>1 DEF Hands
<1>3. Owned
  BY <1>1 DEF Owned, NoRepeats
<1> QED BY <1>2, <1>3

\* Where every message is, after every step.
LEMMA OwnedInvariant == Spec => [](TypeOK /\ Hands /\ Owned)
BY TypeInit, TypeStep, HandsStep, OwnedStep, OwnedInit, PTL DEF Spec

\* send_message, several drain tasks of a peer and its queue never hold the same
\* message: dequeue_one takes it out before it is sent, enqueue_front puts it
\* back once, so that reconnecting cannot multiply it.
THEOREM DeliveryOneOwner == Spec => []OneOwner
<1>1. TypeOK /\ Hands /\ Owned => OneOwner
  <2> SUFFICES ASSUME TypeOK, Hands, Owned PROVE OneOwner
    OBVIOUS
  <2>1. \A m \in Msg : /\ send[m].has \subseteq {m}
                       /\ send[m].has # {} => send[m].pc # "done"
    BY DEF Hands
  <2>2. \A m, d \in Msg : send[m].has \cap drain[d].has = {}
    BY <2>1 DEF Owned
  <2>3. \A m, d \in Msg : m # d => send[m].has \cap send[d].has = {}
    BY <2>1
  <2>4. \A m \in Msg : send[m].has \cap Elems(queue) = {}
    BY <2>1 DEF Owned
  <2>5. Elems(queue) \cap InHand = {}
    BY <2>4 DEF InHand, Owned
  <2>6. \A i, j \in DOMAIN queue : queue[i] = queue[j] => i = j
    BY DEF Owned, NoRepeats
  <2> QED BY <2>2, <2>3, <2>5, <2>6 DEF OneOwner, Owned
<1> QED BY <1>1, OwnedInvariant, PTL

-----------------------------------------------------------------------------
(* Nothing vanishes *)

\* The message has left the agent: the peer has it, it is on a connection, or
\* the network lost it there.
Out(m) == m \in delivered \cup cut \/ \E c \in Conn : m \in Elems(wire[c])

\* A message that is being flushed has been written; one whose call is over has
\* left the agent, was given up, or is with the queue or a drain task.
Kept ==
    /\ \A m \in Msg : send[m].pc = "flushing" => Out(m)
    /\ \A d \in Msg : drain[d].pc = "flushing" => \A m \in drain[d].has : Out(m)
    /\ \A m \in Msg : send[m].pc = "done" =>
           m \in Elems(queue) \cup evicted \/ Out(m) \/ \E d \in Msg : m \in drain[d].has

\* What is out stays out when a frame is written, and the frame is out.
LEMMA WriteOut ==
    ASSUME TypeOK, NEW c \in Conn, NEW k \in Msg, Write(c, k), UNCHANGED delivered
    PROVE  Out(k)' /\ \A m \in Msg : Out(m) => Out(m)'
<1>1. CASE conn[c] = "broken"
  BY <1>1 DEF Write, Out
<1>2. CASE conn[c] # "broken"
  <2>1. wire[c] \in Seq(Msg) /\ wire' = [wire EXCEPT ![c] = Append(wire[c], k)] /\ cut' = cut
    BY <1>2 DEF Write, TypeOK
  <2>2. Elems(wire'[c]) = Elems(wire[c]) \cup {k}
    BY <2>1, ElemsOfAppend DEF TypeOK
  <2>3. \A e \in Conn \ {c} : wire'[e] = wire[e]
    BY <2>1 DEF TypeOK
  <2>4. \A e \in Conn : Elems(wire[e]) \subseteq Elems(wire'[e])
    BY <2>2, <2>3
  <2> QED BY <2>1, <2>2, <2>4 DEF Out
<1> QED BY <1>1, <1>2

\* A new connection takes the name of one that carries nothing.
LEMMA OpensOut ==
    ASSUME TypeOK, NEW c \in Conn, NEW q \in Seq(Msg), Opens(c, q), UNCHANGED <<delivered, cut>>
    PROVE  /\ \A m \in Msg : Out(m) => Out(m)'
           /\ \A m \in Elems(q) : Out(m)'
<1>1. wire[c] = <<>> /\ wire' = [wire EXCEPT ![c] = q]
  BY DEF Opens, Fresh
<1>2. Elems(wire[c]) = {} /\ wire'[c] = q /\ \A e \in Conn \ {c} : wire'[e] = wire[e]
  BY <1>1 DEF TypeOK, Elems
<1>3. \A e \in Conn : Elems(wire[e]) \subseteq Elems(wire'[e])
  BY <1>2
<1> QED BY <1>2, <1>3 DEF Out

\* No step takes back what has left the agent, and a call or a drain task that
\* begins to flush has written its message.
LEMMA OutGrows ==
    ASSUME TypeOK, Hands, [Next]_vars
    PROVE  /\ \A m \in Msg : Out(m) => Out(m)'
           /\ \A m \in Msg : send'[m].pc = "flushing" => send[m].pc = "flushing" \/ Out(m)'
           /\ \A d \in Msg : drain'[d].pc = "flushing" =>
                  drain'[d] = drain[d] \/ \A m \in drain'[d].has : Out(m)'
<1> DEFINE Grows == \A m \in Msg : Out(m) => Out(m)'
           Sends == \A m \in Msg : send'[m].pc = "flushing" => send[m].pc = "flushing" \/ Out(m)'
           Drains == \A d \in Msg : drain'[d].pc = "flushing" =>
                         drain'[d] = drain[d] \/ \A m \in drain'[d].has : Out(m)'
<1>0. DOMAIN send = Msg /\ DOMAIN drain = Msg /\ queue \in Seq(Msg)
  BY DEF TypeOK
<1>1. ASSUME UNCHANGED <<wire, delivered, cut>> PROVE Grows
  BY <1>1 DEF Out
<1>2. ASSUME UNCHANGED send PROVE Sends
  BY <1>2
<1>3. ASSUME UNCHANGED drain PROVE Drains
  BY <1>3
<1>4. ASSUME NEW m \in Msg, DispatchCached(m) PROVE Grows /\ Sends /\ Drains
  <2>1. cached \in Conn /\ Write(cached, m) /\ UNCHANGED <<delivered, drain>>
    BY <1>4 DEF DispatchCached, TypeOK, arrived
  <2>2. Out(m)' /\ Grows
    BY <2>1, WriteOut
  <2>3. \A k \in Msg \ {m} : send'[k] = send[k]
    BY <1>0, <1>4 DEF DispatchCached
  <2> HIDE DEF Out
  <2> QED BY <1>3, <2>1, <2>2, <2>3
<1>5. ASSUME NEW m \in Msg, NEW c \in Conn, SendConnected(m, c) PROVE Grows /\ Sends /\ Drains
  <2>1. <<m>> \in Seq(Msg) /\ m \in Elems(<<m>>)
    BY DEF Elems
  <2>2. Opens(c, <<m>>) /\ UNCHANGED <<delivered, cut, drain>>
    BY <1>5 DEF SendConnected, net, arrived
  <2>3. Out(m)' /\ Grows
    BY <2>1, <2>2, OpensOut
  <2>4. \A k \in Msg \ {m} : send'[k] = send[k]
    BY <1>0, <1>5 DEF SendConnected
  <2> QED BY <1>3, <2>2, <2>3, <2>4
<1>6. ASSUME NEW m \in Msg,
             DispatchUnregistered(m) \/ DispatchConnect(m) \/ SendRefused(m) \/ SendFlushed(m) \/ SendFailed(m)
      PROVE  Grows /\ Sends /\ Drains
  <2>1. UNCHANGED <<wire, delivered, cut>>
    BY <1>6 DEF DispatchUnregistered, DispatchConnect, SendRefused, SendFlushed, SendFailed,
                pool, net, arrived
  <2>2. \A k \in Msg : send'[k].pc = "flushing" => send[k].pc = "flushing"
    BY <1>0, <1>6 DEF DispatchUnregistered, DispatchConnect, SendRefused, SendFlushed, SendFailed,
                Fallback, At, On
  <2>3. \A d \in Msg : drain'[d].pc = "flushing" => drain'[d] = drain[d]
    BY <1>0, <1>6 DEF DispatchUnregistered, DispatchConnect, SendRefused, SendFlushed, SendFailed,
                Fallback, At
  <2> QED BY <1>1, <2>1, <2>2, <2>3
<1>7. ASSUME NEW d \in Msg, DrainStart(d) \/ DrainRefused(d) \/ DrainFailed(d) \/ DrainWake(d)
      PROVE  Grows /\ Sends /\ Drains
  <2>1. UNCHANGED <<wire, delivered, cut, send>>
    BY <1>7 DEF DrainStart, DrainRefused, DrainFailed, DrainWake, pool, net, arrived
  <2>2. \A e \in Msg : drain'[e].pc = "flushing" => drain'[e] = drain[e]
    BY <1>0, <1>7 DEF DrainStart, DrainRefused, DrainFailed, DrainWake, NextRound, At
  <2> QED BY <1>1, <1>2, <2>1, <2>2
<1>8. ASSUME NEW d \in Msg, NEW c \in Conn, DrainConnected(d, c) PROVE Grows /\ Sends /\ Drains
  <2> DEFINE q == IF HasMessages(queue) THEN <<Head(queue)>> ELSE <<>>
  <2>1. Opens(c, q) /\ UNCHANGED <<delivered, cut, send>>
    BY <1>8 DEF DrainConnected, net, arrived
  <2>2. q \in Seq(Msg)
    BY <1>0, HeadTailProperties DEF HasMessages
  <2>3. drain'[d].has \subseteq Elems(q) /\ \A e \in Msg \ {d} : drain'[e] = drain[e]
    BY <1>0, <1>8 DEF DrainConnected, Takes, At, On, Elems
  <2> HIDE DEF q
  <2>4. Grows /\ \A m \in Elems(q) : Out(m)'
    BY <2>1, <2>2, OpensOut
  <2> QED BY <1>2, <2>1, <2>3, <2>4
<1>9. ASSUME NEW d \in Msg, DrainFlushed(d) PROVE Grows /\ Sends /\ Drains
  <2> DEFINE c == drain[d].on
  <2>0. c \in Conn
    BY <1>9 DEF DrainFlushed, Hands
  <2>1. UNCHANGED <<delivered, send>> /\ \A e \in Msg \ {d} : drain'[e] = drain[e]
    BY <1>0, <1>9 DEF DrainFlushed, Takes, arrived
  <2>2. CASE HasMessages(queue) /\ conn[c] # "closed"
    <3>0. PICK h \in Msg : h = Head(queue)
      BY <1>0, <2>2, HeadTailProperties DEF HasMessages
    <3>1. Write(c, h) /\ drain'[d].has = {h}
      BY <1>0, <1>9, <2>2, <3>0 DEF DrainFlushed, Takes, On
    <3>2. Out(h)' /\ Grows
      BY <2>0, <2>1, <3>1, WriteOut
    <3> HIDE DEF c
    <3>3. \A m \in drain'[d].has : Out(m)'
      BY <3>1, <3>2
    <3> QED BY <1>2, <2>1, <3>2, <3>3
  <2>3. CASE ~(HasMessages(queue) /\ conn[c] # "closed")
    <3>1. UNCHANGED <<wire, cut>> /\ drain'[d].pc # "flushing"
      BY <1>0, <1>9, <2>3 DEF DrainFlushed, Takes, On, At
    <3> QED BY <1>1, <1>2, <2>1, <3>1
  <2> QED BY <2>2, <2>3
<1>10. CASE RegisterPeer \/ RemovePeer \/ StopBegin \/ StopEnd \/ Start \/ PeerDown \/ PeerBack
  <2>1. UNCHANGED <<wire, delivered, cut, send, drain>>
    BY <1>10 DEF RegisterPeer, RemovePeer, StopBegin, StopEnd, Start, PeerDown, PeerBack,
                 pool, tasks, net, arrived
  <2> QED BY <1>1, <1>2, <1>3, <2>1
<1>11. ASSUME NEW c \in Conn, Receive(c) PROVE Grows /\ Sends /\ Drains
  <2>1. wire[c] \in Seq(Msg) /\ wire[c] # <<>>
    BY <1>11 DEF Receive, TypeOK
  <2>2. /\ delivered' = delivered \cup {Head(wire[c])} /\ UNCHANGED <<cut, send, drain>>
        /\ wire' = [wire EXCEPT ![c] = Tail(wire[c])]
    BY <1>11 DEF Receive, tasks
  <2>3. Elems(wire[c]) = {Head(wire[c])} \cup Elems(wire'[c]) /\ \A e \in Conn \ {c} : wire'[e] = wire[e]
    BY <2>1, <2>2, ElemsOfTail DEF TypeOK
  <2>4. \A e \in Conn : Elems(wire[e]) \subseteq Elems(wire'[e]) \cup delivered'
    BY <2>2, <2>3
  <2>5. Grows
    BY <2>2, <2>4 DEF Out
  <2> QED BY <1>2, <1>3, <2>2, <2>5
<1>12. ASSUME NEW c \in Conn, Break(c) PROVE Grows /\ Sends /\ Drains
  <2>1. /\ cut' = cut \cup Elems(wire[c]) /\ UNCHANGED <<delivered, send, drain>>
        /\ \A e \in Conn \ {c} : wire'[e] = wire[e]
    BY <1>12 DEF Break, tasks, arrived, TypeOK
  <2>2. Grows
    BY <2>1 DEF Out
  <2> QED BY <1>2, <1>3, <2>1, <2>2
<1>13. ASSUME NEW c \in Conn, Notice(c) PROVE Grows /\ Sends /\ Drains
  <2>1. UNCHANGED <<wire, delivered, cut, send, drain>>
    BY <1>13 DEF Notice, tasks, net, arrived
  <2> QED BY <1>1, <1>2, <1>3, <2>1
<1>14. CASE UNCHANGED vars
  BY <1>1, <1>2, <1>3, <1>14 DEF vars
<1> QED BY <1>4, <1>5, <1>6, <1>7, <1>8, <1>9, <1>10, <1>11, <1>12, <1>13, <1>14
        DEF Next, SendStep, DrainStep

LEMMA KeptStep == TypeOK /\ Hands /\ Owned /\ Kept /\ [Next]_vars => Kept'
<1> SUFFICES ASSUME TypeOK, Hands, Owned, Kept, [Next]_vars PROVE Kept'
  OBVIOUS
<1>0. /\ DOMAIN send = Msg /\ DOMAIN drain = Msg
      /\ queue \in Seq(Msg) /\ Len(queue) <= MaxSize
  BY DEF TypeOK
<1>1. \A m \in Msg : Out(m) => Out(m)'
  BY OutGrows
<1>2. \A m \in Msg : send'[m].pc = "flushing" => Out(m)'
  BY <1>1, OutGrows DEF Kept
<1>3. ASSUME NEW d \in Msg, drain'[d].pc = "flushing", NEW m \in drain'[d].has PROVE Out(m)'
  <2>1. CASE drain'[d] = drain[d]
    <3>1. m \in Msg /\ Out(m)
      BY <1>3, <2>1, HeldType DEF Kept
    <3> QED BY <1>1, <3>1
  <2>2. CASE drain'[d] # drain[d]
    BY <1>3, <2>2, OutGrows
  <2> QED BY <2>1, <2>2
<1>4. ASSUME NEW m \in Msg, send'[m].pc = "done", ~Out(m)'
      PROVE  m \in Elems(queue') \cup evicted' \/ \E d \in Msg : m \in drain'[d].has
  <2>0. ~Out(m)
    BY <1>1, <1>4
  <2>1. send[m].pc = "done" => m \in Elems(queue) \cup evicted \/ \E d \in Msg : m \in drain[d].has
    BY <2>0 DEF Kept
  <2>2. ASSUME NEW k \in Msg, SendMoves(k)
        PROVE  m \in Elems(queue') \cup evicted' \/ \E d \in Msg : m \in drain'[d].has
    <3>1. send[m].pc = "done"
      BY <1>0, <1>4, <2>0, <2>2 DEF SendMoves, On, Kept
    <3> QED BY <2>1, <2>2, <3>1 DEF SendMoves
  <2>3. ASSUME NEW k \in Msg, SendQueues(k)
        PROVE  m \in Elems(queue') \cup evicted' \/ \E d \in Msg : m \in drain'[d].has
    <3>1. /\ k \in Elems(queue') /\ Elems(queue) \cup evicted \subseteq Elems(queue') \cup evicted'
          /\ m # k => send'[m] = send[m]
      BY <1>0, <2>3, EnqueueKeeps DEF SendQueues, ToQueue
    <3>2. \A d \in Msg : drain'[d].has = drain[d].has
      <4>1. drain[k].pc = "off" /\ drain[k].has = {}
        BY <2>3 DEF SendQueues, Hands
      <4>2. drain'[k] = drain[k] \/ drain'[k].has = {}
        BY <1>0, <2>3 DEF SendQueues, At
      <4>3. \A d \in Msg \ {k} : drain'[d] = drain[d]
        BY <1>0, <2>3 DEF SendQueues
      <4> QED BY <4>1, <4>2, <4>3
    <3> QED BY <1>4, <2>1, <3>1, <3>2
  <2>4. ASSUME NEW k \in Msg, DrainMoves(k)
        PROVE  m \in Elems(queue') \cup evicted' \/ \E d \in Msg : m \in drain'[d].has
    <3>1. \A d \in Msg : drain'[d].has = drain[d].has
      <4>1. drain[k].has = {}
        BY <2>4 DEF DrainMoves, Hands
      <4>2. drain'[k].has = {}
        BY <1>0, <2>4 DEF DrainMoves, At
      <4>3. \A d \in Msg \ {k} : drain'[d] = drain[d]
        BY <1>0, <2>4 DEF DrainMoves
      <4> QED BY <4>1, <4>2, <4>3
    <3> QED BY <1>4, <2>1, <2>4, <3>1 DEF DrainMoves
  <2>5. ASSUME NEW k \in Msg, DrainTakes(k)
        PROVE  m \in Elems(queue') \cup evicted' \/ \E d \in Msg : m \in drain'[d].has
    <3>1. /\ UNCHANGED <<send, evicted>> /\ \A d \in Msg \ {k} : drain'[d] = drain[d]
      BY <1>0, <2>5 DEF DrainTakes, Takes
    <3>2. m \notin drain[k].has
      BY <2>0, <2>5 DEF DrainTakes, Hands, Kept
    <3>3. CASE HasMessages(queue)
      <4>1. queue' = Tail(queue) /\ drain'[k].has = {Head(queue)}
        BY <1>0, <2>5, <3>3 DEF DrainTakes, Takes, DequeueOne, On
      <4>2. Elems(queue) = {Head(queue)} \cup Elems(queue')
        BY <1>0, <3>3, <4>1, ElemsOfTail DEF HasMessages
      <4> QED BY <1>4, <2>1, <3>1, <3>2, <4>1, <4>2
    <3>4. CASE ~HasMessages(queue)
      BY <1>4, <2>1, <2>5, <3>1, <3>2, <3>4 DEF DrainTakes, Takes
    <3> QED BY <3>3, <3>4
  <2>6. ASSUME NEW k \in Msg, DrainReturns(k)
        PROVE  m \in Elems(queue') \cup evicted' \/ \E d \in Msg : m \in drain'[d].has
    <3>1. PICK j \in drain[k].has : queue' = EnqueueFront(queue, j)
      BY <2>6 DEF DrainReturns
    <3>2. j \in Msg /\ drain[k].has = {j}
      <4>1. drain[k].has \in {{}} \cup {{i} : i \in Msg}
        BY DEF TypeOK, Task
      <4> QED BY <4>1
    <3>3. /\ j \in Elems(queue') /\ Elems(queue) \cup evicted \subseteq Elems(queue') \cup evicted'
      BY <1>0, <2>6, <3>1, <3>2, EnqueueFrontKeeps DEF DrainReturns
    <3>4. UNCHANGED send /\ \A d \in Msg \ {k} : drain'[d] = drain[d]
      BY <1>0, <2>6 DEF DrainReturns
    <3> QED BY <1>4, <2>1, <3>2, <3>3, <3>4
  <2>7. CASE UNCHANGED <<queue, send, drain, evicted>>
    BY <1>4, <2>1, <2>7
  <2> QED BY <2>2, <2>3, <2>4, <2>5, <2>6, <2>7, StepKinds
<1> HIDE DEF Out
<1> QED BY <1>2, <1>3, <1>4 DEF Kept

LEMMA KeptInit == Init => Kept
BY DEF Init, Kept, At

\* Where every message is, and that it is somewhere.
LEMMA KeptInvariant == Spec => []Kept
BY OwnedInvariant, KeptInit, KeptStep, PTL DEF Spec

\* Across refused connections, failed and half-done sends, concurrent drain
\* tasks, stops and restarts of the node, a message given to send_message is with
\* a task, in the queue, on a connection or with the peer, unless the full queue
\* gave it up or the network cut the connection under it.
THEOREM DeliveryNothingVanishes == Spec => []NothingVanishes
<1>1. TypeOK /\ Hands /\ Kept => NothingVanishes
  <2> SUFFICES ASSUME TypeOK, Hands, Kept, NEW m \in Msg, send[m].pc # "idle"
               PROVE  m \in InHand \cup Elems(queue) \cup OnWire \cup delivered \cup evicted \cup cut
    BY DEF NothingVanishes, Sent
  <2>1. Out(m) => m \in OnWire \cup delivered \cup cut
    BY DEF Out, OnWire
  <2>2. \A d \in Msg : send[d].has \cup drain[d].has \subseteq InHand
    BY DEF InHand
  <2>3. CASE send[m].pc \in {"connecting", "flushing"}
    <3>1. m \in send[m].has
      BY <2>3 DEF Hands
    <3> QED BY <2>2, <3>1
  <2>4. CASE send[m].pc = "done"
    BY <2>1, <2>2, <2>4 DEF Kept
  <2>5. send[m].pc \in {"idle", "connecting", "flushing", "done"}
    BY DEF TypeOK, Task
  <2> QED BY <2>3, <2>4, <2>5
<1> QED BY <1>1, OwnedInvariant, KeptInvariant, PTL

-----------------------------------------------------------------------------
(* Eviction *)

\* A queue without repetitions holds as many messages as it is long.
LEMMA CountOfSeq ==
    ASSUME NEW S, NEW q \in Seq(S), NoRepeats(q)
    PROVE  IsFiniteSet(Elems(q)) /\ Cardinality(Elems(q)) = Len(q)
<1>1. Len(q) \in Nat /\ q \in [1..Len(q) -> S] /\ DOMAIN q = 1..Len(q)
  BY LenProperties
<1>2. q \in [1..Len(q) -> Elems(q)]
  BY <1>1 DEF Elems
<1>3. \A i, j \in 1..Len(q) : q[i] = q[j] => i = j
  BY <1>1 DEF NoRepeats
<1>4. \A x \in Elems(q) : \E i \in 1..Len(q) : q[i] = x
  BY <1>1 DEF Elems
<1>5. q \in Injection(1..Len(q), Elems(q))
  BY <1>2, <1>3 DEF Injection, IsInjective
<1>6. q \in Surjection(1..Len(q), Elems(q))
  BY <1>2, <1>4 DEF Surjection
<1>7. IsFiniteSet(1..Len(q)) /\ Cardinality(1..Len(q)) = Len(q)
  BY <1>1, FS_Interval
<1> QED BY <1>5, <1>6, <1>7, FS_Surjection

\* A call of send_message, once made, stays made; there are finitely many.
LEMMA SentGrows ==
    ASSUME TypeOK, Hands, [Next]_vars
    PROVE  /\ Sent \subseteq Sent'
           /\ IsFiniteSet(Sent) /\ IsFiniteSet(Sent') /\ Cardinality(Sent) <= Cardinality(Sent')
           /\ Cardinality(Sent) \in Nat /\ Cardinality(Sent') \in Nat
<1>0. DOMAIN send = Msg
  BY DEF TypeOK
<1>1. \A m \in Msg : send[m].pc # "idle" => send'[m].pc # "idle"
  <2>1. ASSUME NEW k \in Msg, SendMoves(k) PROVE \A m \in Msg : send[m].pc # "idle" => send'[m].pc # "idle"
    BY <1>0, <2>1 DEF SendMoves, At, On
  <2>2. ASSUME NEW k \in Msg, SendQueues(k) PROVE \A m \in Msg : send[m].pc # "idle" => send'[m].pc # "idle"
    BY <1>0, <2>2 DEF SendQueues, At
  <2>3. ASSUME NEW k \in Msg, DrainMoves(k) \/ DrainTakes(k) \/ DrainReturns(k) PROVE send' = send
    BY <2>3 DEF DrainMoves, DrainTakes, DrainReturns
  <2> QED BY <2>1, <2>2, <2>3, StepKinds
<1>2. Sent \subseteq Sent' /\ Sent' \subseteq Msg
  BY <1>1 DEF Sent
<1>3. IsFiniteSet(Msg)
  BY BoundAssumption, FS_Interval DEF Msg
<1>4. IsFiniteSet(Sent') /\ IsFiniteSet(Sent) /\ Cardinality(Sent) <= Cardinality(Sent')
  BY <1>2, <1>3, FS_Subset
<1> QED BY <1>2, <1>4, FS_CardinalityType

\* A queue that is full and one more message are more calls than the queue holds.
LEMMA FullIsMany ==
    ASSUME TypeOK, Owned, NEW m \in Msg, m \notin Elems(queue), Len(queue) = MaxSize,
           NEW T, IsFiniteSet(T), m \in T, Sent \subseteq T
    PROVE  Cardinality(T) > MaxSize
<1>1. queue \in Seq(Msg)
  BY DEF TypeOK
<1>2. IsFiniteSet(Elems(queue)) /\ Cardinality(Elems(queue)) = MaxSize
  BY <1>1, CountOfSeq DEF Owned
<1>3. IsFiniteSet(Elems(queue) \cup {m}) /\ Cardinality(Elems(queue) \cup {m}) = MaxSize + 1
  BY <1>2, FS_AddElement
<1>4. Elems(queue) \subseteq Sent
  <2>1. Elems(queue) \subseteq Msg
    BY <1>1, ElemsOfSeq
  <2>2. \A k \in Elems(queue) : send[k].pc = "done"
    BY <2>1 DEF Owned
  <2> QED BY <2>1, <2>2 DEF Sent
<1>5. Elems(queue) \cup {m} \subseteq T
  BY <1>4
<1>6. Cardinality(Elems(queue) \cup {m}) <= Cardinality(T) /\ Cardinality(T) \in Nat
  BY <1>5, FS_Subset, FS_CardinalityType
<1> QED BY <1>3, <1>6, MaxSizeAssumption

\* A message is given up only when more messages than the queue holds are
\* undelivered: re-queueing at the front never evicts needlessly.
EvictsOnlyWhenFull == evicted # {} => Cardinality(Sent) > MaxSize

LEMMA EvictsStep ==
    TypeOK /\ Hands /\ Owned /\ EvictsOnlyWhenFull /\ [Next]_vars => EvictsOnlyWhenFull'
<1> SUFFICES ASSUME TypeOK, Hands, Owned, EvictsOnlyWhenFull, [Next]_vars, evicted' # {}
             PROVE  Cardinality(Sent') > MaxSize
  BY DEF EvictsOnlyWhenFull
<1>0. DOMAIN send = Msg /\ queue \in Seq(Msg) /\ Len(queue) <= MaxSize /\ MaxSize \in Nat
  BY MaxSizeAssumption DEF TypeOK
<1>1. CASE evicted # {}
  BY <1>0, <1>1, SentGrows DEF EvictsOnlyWhenFull
<1>2. ASSUME evicted = {}, NEW m \in Msg, SendQueues(m) PROVE Cardinality(Sent') > MaxSize
  <2>1. EnqueueEvicts(queue) # {} /\ send'[m].pc = "done"
    BY <1>0, <1>2 DEF SendQueues, ToQueue, At
  <2>2. Len(queue) = MaxSize
    BY <1>0, <2>1, EnqueueKeeps
  <2>3. m \in Sent' /\ m \notin Elems(queue)
    BY <1>2, <2>1 DEF Sent, SendQueues, Owned
  <2> QED BY <2>2, <2>3, SentGrows, FullIsMany
<1>3. ASSUME evicted = {}, NEW d \in Msg, DrainReturns(d) PROVE Cardinality(Sent') > MaxSize
  <2>1. PICK m \in drain[d].has : queue' = EnqueueFront(queue, m)
    BY <1>3 DEF DrainReturns
  <2>2. m \in Msg /\ m \notin Elems(queue) /\ send[m].pc = "done"
    BY HeldType DEF Owned
  <2>3. EnqueueFrontEvicts(queue) # {}
    BY <1>3 DEF DrainReturns
  <2>4. Len(queue) = MaxSize
    BY <1>0, <2>2, <2>3, EnqueueFrontKeeps
  <2>5. m \in Sent'
    BY <2>2, SentGrows DEF Sent
  <2> QED BY <2>2, <2>4, <2>5, SentGrows, FullIsMany
<1>4. ASSUME NEW m \in Msg, SendMoves(m) \/ DrainMoves(m) \/ DrainTakes(m) PROVE evicted' = evicted
  BY <1>4 DEF SendMoves, DrainMoves, DrainTakes
<1> QED BY <1>1, <1>2, <1>3, <1>4, StepKinds

\* Neither enqueue nor enqueue_front gives a message up while the queue could
\* hold every message sent so far: a drain task that puts its message back never
\* pushes out another one for no reason.
THEOREM DeliveryEvictsOnlyWhenFull == Spec => []EvictsOnlyWhenFull
<1>1. Init => EvictsOnlyWhenFull
  BY DEF Init, EvictsOnlyWhenFull
<1> QED BY <1>1, EvictsStep, OwnedInvariant, PTL DEF Spec

-----------------------------------------------------------------------------
(* Stranded messages *)

\* Until the first call of remove_peer or stop_listening the peer stays
\* registered and the node running.
Steady == churn = 0 => registered /\ running

LEMMA SteadyStep == TypeOK /\ Steady /\ [Next]_vars => Steady'
<1> SUFFICES ASSUME TypeOK, Steady, [Next]_vars PROVE Steady'
  OBVIOUS
<1>1. CASE RegisterPeer \/ RemovePeer \/ StopBegin \/ Start
  <2>1. churn' = churn + 1 /\ churn \in Nat
    BY <1>1, BoundAssumption DEF RegisterPeer, RemovePeer, StopBegin, Start, Churns, TypeOK
  <2> QED BY <2>1 DEF Steady
<1>2. ASSUME NEW m \in Msg,
             DispatchUnregistered(m) \/ DispatchCached(m) \/ DispatchConnect(m) \/ SendStep(m)
      PROVE  UNCHANGED node
  BY <1>2 DEF DispatchUnregistered, DispatchCached, DispatchConnect, SendStep, SendRefused,
              SendFlushed, SendFailed, SendConnected
<1>3. ASSUME NEW d \in Msg, DrainStep(d) PROVE UNCHANGED node
  BY <1>3 DEF DrainStep, DrainStart, DrainRefused, DrainFlushed, DrainFailed, DrainWake, DrainConnected
<1>4. ASSUME NEW c \in Conn, Receive(c) \/ Break(c) \/ Notice(c) PROVE UNCHANGED node
  BY <1>4 DEF Receive, Break, Notice
<1>5. CASE PeerDown \/ PeerBack
  BY <1>5 DEF PeerDown, PeerBack, node, Steady
<1>6. CASE StopEnd
  BY <1>6 DEF StopEnd, Steady
<1>7. CASE UNCHANGED vars
  BY <1>7 DEF vars, Steady
<1>8. ASSUME UNCHANGED node PROVE Steady'
  BY <1>8 DEF node, Steady
<1> QED BY <1>1, <1>2, <1>3, <1>4, <1>5, <1>6, <1>7, <1>8 DEF Next

LEMMA StrandedStep ==
    TypeOK /\ Hands /\ Steady /\ NeverStranded /\ [Next]_vars => NeverStranded'
<1> SUFFICES ASSUME TypeOK, Hands, Steady, NeverStranded, [Next]_vars,
                    churn' = 0, HasMessages(queue')
             PROVE  \E d \in Msg : drain'[d].pc # "off"
  BY DEF NeverStranded
<1>0. DOMAIN drain = Msg
  BY DEF TypeOK
<1>1. CASE RegisterPeer \/ RemovePeer \/ StopBegin \/ Start
  <2>1. churn' = churn + 1 /\ churn \in Nat
    BY <1>1, BoundAssumption DEF RegisterPeer, RemovePeer, StopBegin, Start, Churns, TypeOK
  <2> QED BY <2>1
<1>2. ASSUME UNCHANGED <<churn, queue, drain>> PROVE \E d \in Msg : drain'[d].pc # "off"
  BY <1>2 DEF NeverStranded
<1>3. ASSUME NEW m \in Msg, DispatchUnregistered(m) PROVE FALSE
  BY <1>3 DEF DispatchUnregistered, node, Steady
<1>4. ASSUME NEW m \in Msg, DispatchCached(m) \/ DispatchConnect(m) \/ SendFlushed(m)
      PROVE  UNCHANGED <<churn, queue, drain>>
  BY <1>4 DEF DispatchCached, DispatchConnect, SendFlushed, node, dlq
<1>5. ASSUME NEW m \in Msg, NEW c \in Conn, SendConnected(m, c) PROVE UNCHANGED <<churn, queue, drain>>
  BY <1>5 DEF SendConnected, node, dlq
<1>6. ASSUME NEW m \in Msg, SendRefused(m) \/ SendFailed(m) PROVE drain'[m].pc = "starting"
  BY <1>0, <1>6 DEF SendRefused, SendFailed, Fallback, At
<1>7. ASSUME NEW d \in Msg, DrainStart(d) \/ DrainWake(d) PROVE drain'[d].pc = "connecting"
  <2>1. registered /\ running /\ HasMessages(queue)
    BY <1>7 DEF DrainStart, DrainWake, dlq, node, Steady
  <2>2. NextRound(d)
    BY <1>7, <2>1 DEF DrainStart, DrainWake
  <2> QED BY <1>0, <2>1, <2>2 DEF NextRound, At
<1>8. ASSUME NEW d \in Msg, DrainRefused(d) \/ DrainFailed(d) PROVE drain'[d].pc = "sleeping"
  BY <1>0, <1>8 DEF DrainRefused, DrainFailed, At
<1>9. ASSUME NEW d \in Msg, DrainFlushed(d) \/ \E c \in Conn : DrainConnected(d, c)
      PROVE  drain'[d].pc \in {"flushing", "refused"}
  <2>1. DrainTakes(d)
    BY <1>9 DEF DrainTakes, DrainFlushed, DrainConnected, Hands
  <2>2. HasMessages(queue)
    BY <2>1 DEF DrainTakes, Takes
  <2> QED BY <1>0, <2>1, <2>2 DEF DrainTakes, Takes, On
<1>10. ASSUME NEW c \in Conn, Receive(c) \/ Break(c) \/ Notice(c) PROVE UNCHANGED <<churn, queue, drain>>
  BY <1>10 DEF Receive, Break, Notice, node, dlq, tasks
<1>11. ASSUME StopEnd \/ PeerDown \/ PeerBack \/ UNCHANGED vars PROVE UNCHANGED <<churn, queue, drain>>
  BY <1>11 DEF StopEnd, PeerDown, PeerBack, node, dlq, tasks, vars
<1> QED BY <1>1, <1>2, <1>3, <1>4, <1>5, <1>6, <1>7, <1>8, <1>9, <1>10, <1>11
        DEF Next, SendStep, DrainStep

\* With the peer registered and the node running throughout, a queued message
\* never waits without a drain task: one starts with every failed send, backs off
\* instead of ending, and ends only on an empty queue.
THEOREM DeliveryNeverStranded == Spec => []NeverStranded
<1>1. Init => Steady /\ NeverStranded
  BY DEF Init, Steady, NeverStranded, HasMessages
<1> QED BY <1>1, SteadyStep, StrandedStep, OwnedInvariant, PTL DEF Spec
-----------------------------------------------------------------------------
(* Duplicates *)

\* A message that has still to be written: not yet on a connection, or queued.
Pending(m) == send[m].pc \in {"idle", "connecting"} \/ m \in Elems(queue)

Unsent(m) == m \notin delivered /\ \A c \in Conn : m \notin Elems(wire[c])

\* A message is written once: what is pending was never written, and what was
\* written is in one frame of one connection, or read.
WrittenOnce ==
    /\ \A c \in Conn : NoRepeats(wire[c]) /\ Elems(wire[c]) \cap delivered = {}
    /\ \A c, e \in Conn : c # e => Elems(wire[c]) \cap Elems(wire[e]) = {}
    /\ \A m \in Msg : Pending(m) => Unsent(m)

\* So it is as long as no connection was lost.
Calm ==
    breaks = 0 /\ churn = 0 =>
        /\ \A c \in Conn : conn[c] \in {"free", "open"}
        /\ \A d \in Msg : drain[d].pc # "refused"
        /\ twice = {}
        /\ WrittenOnce

\* Nothing is written and nothing becomes pending.
LEMMA OnceUnmoved ==
    ASSUME WrittenOnce, UNCHANGED <<wire, delivered>>,
           \A k \in Msg : Pending(k)' => Pending(k)
    PROVE  WrittenOnce'
BY DEF WrittenOnce, Unsent

\* A pending message is written, and is pending no more.
LEMMA OnceWritten ==
    ASSUME TypeOK, WrittenOnce, NEW c \in Conn, NEW m \in Msg, Unsent(m), NEW w,
           UNCHANGED delivered, wire' = [wire EXCEPT ![c] = w],
           NoRepeats(w), Elems(w) = Elems(wire[c]) \cup {m},
           \A k \in Msg : Pending(k)' => Pending(k) /\ k # m
    PROVE  WrittenOnce'
<1>1. wire'[c] = w /\ \A e \in Conn \ {c} : wire'[e] = wire[e]
  BY DEF TypeOK
<1>2. \A e \in Conn : Elems(wire'[e]) \subseteq Elems(wire[e]) \cup {m}
  BY <1>1
<1>3. \A e \in Conn : NoRepeats(wire'[e])
  BY <1>1 DEF WrittenOnce
<1>4. \A e \in Conn : Elems(wire'[e]) \cap delivered' = {}
  BY <1>2 DEF WrittenOnce, Unsent
<1>5. \A e, f \in Conn : e # f => Elems(wire'[e]) \cap Elems(wire'[f]) = {}
  <2> SUFFICES ASSUME NEW e \in Conn, NEW f \in Conn, e # f, NEW x \in Elems(wire'[e]), x \in Elems(wire'[f])
               PROVE  FALSE
    OBVIOUS
  <2>1. CASE x = m
    <3>1. e = c /\ f = c
      BY <1>1, <2>1 DEF Unsent
    <3> QED BY <3>1
  <2>2. CASE x # m
    BY <1>2, <2>2 DEF WrittenOnce
  <2> QED BY <2>1, <2>2
<1>6. ASSUME NEW k \in Msg, Pending(k)' PROVE Unsent(k)'
  <2>1. Unsent(k) /\ k # m
    BY <1>6 DEF WrittenOnce
  <2> QED BY <1>2, <2>1 DEF Unsent
<1> QED BY <1>3, <1>4, <1>5, <1>6 DEF WrittenOnce

\* The peer reads a frame.
LEMMA OnceRead ==
    ASSUME TypeOK, WrittenOnce, NEW c \in Conn, Receive(c)
    PROVE  WrittenOnce' /\ twice' = twice
<1>0. PICK h : h = Head(wire[c])
  OBVIOUS
<1>1. wire[c] \in Seq(Msg) /\ wire[c] # <<>>
  BY DEF Receive, TypeOK
<1>2. /\ delivered' = delivered \cup {h} /\ UNCHANGED <<queue, send>>
      /\ wire' = [wire EXCEPT ![c] = Tail(wire[c])]
      /\ twice' = IF h \in delivered THEN twice \cup {h} ELSE twice
  BY <1>0 DEF Receive, tasks, dlq
<1>3. wire'[c] = Tail(wire[c]) /\ \A e \in Conn \ {c} : wire'[e] = wire[e]
  BY <1>2 DEF TypeOK
<1>4. /\ Elems(wire[c]) = {h} \cup Elems(wire'[c])
      /\ NoRepeats(wire'[c]) /\ h \notin Elems(wire'[c])
  BY <1>0, <1>1, <1>3, ElemsOfTail DEF WrittenOnce
<1>5. \A e \in Conn : Elems(wire'[e]) \subseteq Elems(wire[e]) /\ h \notin Elems(wire'[e])
  BY <1>3, <1>4 DEF WrittenOnce
<1>6. \A e \in Conn : NoRepeats(wire'[e])
  BY <1>3, <1>4 DEF WrittenOnce
<1>7. \A e \in Conn : Elems(wire'[e]) \cap delivered' = {}
  BY <1>2, <1>5 DEF WrittenOnce
<1>8. \A e, f \in Conn : e # f => Elems(wire'[e]) \cap Elems(wire'[f]) = {}
  BY <1>5 DEF WrittenOnce
<1>9. ASSUME NEW k \in Msg, Pending(k)' PROVE Unsent(k)'
  <2>1. Pending(k)
    BY <1>2, <1>9 DEF Pending
  <2>2. Unsent(k)
    BY <2>1 DEF WrittenOnce
  <2>3. k # h
    BY <1>4, <2>2 DEF Unsent
  <2> QED BY <1>2, <1>5, <2>2, <2>3 DEF Unsent
<1>10. h \notin delivered
  BY <1>4 DEF WrittenOnce
<1>11. twice' = twice
  BY <1>2, <1>10
<1> QED BY <1>6, <1>7, <1>8, <1>9, <1>11 DEF WrittenOnce

LEMMA CalmStep == TypeOK /\ Hands /\ Owned /\ Steady /\ Calm /\ [Next]_vars => Calm'
<1> SUFFICES ASSUME TypeOK, Hands, Owned, Steady, Calm, [Next]_vars, breaks' = 0, churn' = 0
             PROVE  /\ \A c \in Conn : conn'[c] \in {"free", "open"}
                    /\ \A d \in Msg : drain'[d].pc # "refused"
                    /\ twice' = {}
                    /\ WrittenOnce'
  BY DEF Calm
<1> DEFINE Goal == /\ \A c \in Conn : conn'[c] \in {"free", "open"}
                   /\ \A d \in Msg : drain'[d].pc # "refused"
                   /\ twice' = {}
                   /\ WrittenOnce'
<1>0. /\ DOMAIN send = Msg /\ DOMAIN drain = Msg /\ DOMAIN conn = Conn
      /\ queue \in Seq(Msg) /\ Len(queue) <= MaxSize
  BY DEF TypeOK
<1>1. breaks' = 0 /\ churn' = 0 => breaks = 0 /\ churn = 0
  <2>1. breaks \in Nat /\ churn \in Nat
    BY BoundAssumption DEF TypeOK
  <2>2. breaks' = breaks \/ breaks' = breaks + 1
    BY DEF Next, SendStep, DrainStep, DispatchUnregistered, DispatchCached, DispatchConnect,
           SendRefused, SendFlushed, SendFailed, SendConnected, DrainStart, DrainRefused, DrainFlushed,
           DrainFailed, DrainWake, DrainConnected, RegisterPeer, RemovePeer, StopBegin, StopEnd, Start,
           Receive, Break, Notice, PeerDown, PeerBack, net, vars
  <2>3. churn' = churn \/ churn' = churn + 1
    BY DEF Next, SendStep, DrainStep, DispatchUnregistered, DispatchCached, DispatchConnect,
           SendRefused, SendFlushed, SendFailed, SendConnected, DrainStart, DrainRefused, DrainFlushed,
           DrainFailed, DrainWake, DrainConnected, RegisterPeer, RemovePeer, StopBegin, StopEnd, Start,
           Receive, Break, Notice, PeerDown, PeerBack, node, vars, Churns
  <2> QED BY <2>1, <2>2, <2>3
<1>2. /\ \A c \in Conn : conn[c] \in {"free", "open"}
      /\ \A d \in Msg : drain[d].pc # "refused"
      /\ twice = {}
      /\ WrittenOnce
      /\ registered /\ running
  BY <1>1 DEF Calm, Steady
<1>3. ASSUME UNCHANGED <<conn, drain, wire, delivered, twice, queue, send>> PROVE Goal
  <2>1. \A k \in Msg : Pending(k)' => Pending(k)
    BY <1>3 DEF Pending
  <2> QED BY <1>2, <1>3, <2>1, OnceUnmoved
<1>4. ASSUME NEW m \in Msg, DispatchUnregistered(m) PROVE FALSE
  BY <1>2, <1>4 DEF DispatchUnregistered
<1>5. ASSUME NEW m \in Msg, send[m].pc \in {"idle", "connecting"}, UNCHANGED queue,
             NEW c \in Conn, send' = [send EXCEPT ![m] = On("flushing", c, m)]
      PROVE  Unsent(m) /\ \A k \in Msg : Pending(k)' => Pending(k) /\ k # m
  <2>1. send'[m].pc = "flushing" /\ \A k \in Msg \ {m} : send'[k] = send[k]
    BY <1>0, <1>5 DEF On
  <2>2. m \notin Elems(queue) /\ Pending(m)
    BY <1>5 DEF Owned, Pending
  <2>3. \A k \in Msg : Pending(k)' => Pending(k) /\ k # m
    BY <1>5, <2>1, <2>2 DEF Pending
  <2>4. Unsent(m)
    BY <1>2, <2>2 DEF WrittenOnce
  <2> QED BY <2>3, <2>4
<1>6. ASSUME NEW m \in Msg, DispatchCached(m) PROVE Goal
  <2>1. /\ cached \in Conn /\ send[m].pc = "idle" /\ send' = [send EXCEPT ![m] = On("flushing", cached, m)]
        /\ UNCHANGED <<drain, queue, conn, delivered, twice>> /\ Write(cached, m)
    BY <1>6 DEF DispatchCached, Calls, dlq, arrived, TypeOK
  <2>2. PICK c \in Conn : c = cached
    BY <2>1
  <2>3. Unsent(m) /\ \A k \in Msg : Pending(k)' => Pending(k) /\ k # m
    BY <1>5, <2>1
  <2>4. wire' = [wire EXCEPT ![c] = Append(wire[c], m)] /\ wire[c] \in Seq(Msg)
    BY <1>2, <2>1, <2>2 DEF Write, TypeOK
  <2>5. NoRepeats(Append(wire[c], m)) /\ Elems(Append(wire[c], m)) = Elems(wire[c]) \cup {m}
    BY <1>2, <2>3, <2>4, ElemsOfAppend DEF WrittenOnce, Unsent
  <2>6. WrittenOnce'
    BY <1>2, <2>1, <2>3, <2>4, <2>5, OnceWritten
  <2> QED BY <1>2, <2>1, <2>6
<1>7. ASSUME NEW m \in Msg, NEW c \in Conn, Opens(c, <<m>>), UNCHANGED delivered, Unsent(m),
             \A k \in Msg : Pending(k)' => Pending(k) /\ k # m
      PROVE  WrittenOnce' /\ \A e \in Conn : conn'[e] \in {"free", "open"}
  <2>1. wire' = [wire EXCEPT ![c] = <<m>>] /\ Elems(wire[c]) = {}
    BY <1>7 DEF Opens, Fresh, Elems
  <2>2. NoRepeats(<<m>>) /\ Elems(<<m>>) = {m}
    BY DEF NoRepeats, Elems
  <2>3. WrittenOnce'
    BY <1>2, <1>7, <2>1, <2>2, OnceWritten
  <2> QED BY <1>0, <1>2, <1>7, <2>3 DEF Opens
<1>8. ASSUME NEW m \in Msg, NEW c \in Conn, SendConnected(m, c) PROVE Goal
  <2>1. /\ Opens(c, <<m>>) /\ UNCHANGED <<delivered, twice, drain, queue>>
        /\ send[m].pc = "connecting" /\ send' = [send EXCEPT ![m] = On("flushing", c, m)]
    BY <1>8 DEF SendConnected, net, arrived, dlq
  <2>2. Unsent(m) /\ \A k \in Msg : Pending(k)' => Pending(k) /\ k # m
    BY <1>5, <2>1
  <2>3. WrittenOnce' /\ \A e \in Conn : conn'[e] \in {"free", "open"}
    BY <1>7, <2>1, <2>2
  <2> QED BY <1>2, <2>1, <2>3
<1>9. ASSUME NEW m \in Msg, DispatchConnect(m) \/ SendFlushed(m) PROVE Goal
  <2>1. UNCHANGED <<wire, delivered, twice, queue, drain, conn>>
    BY <1>9 DEF DispatchConnect, SendFlushed, dlq, net, arrived, pool
  <2>2. \A k \in Msg : send'[k].pc \in {"idle", "connecting"} => send[k].pc \in {"idle", "connecting"}
    BY <1>0, <1>9 DEF DispatchConnect, Calls, SendFlushed, On, At
  <2>3. WrittenOnce'
    BY <1>2, <2>1, <2>2, OnceUnmoved DEF Pending
  <2> QED BY <1>2, <2>1, <2>3
<1>10. ASSUME NEW m \in Msg, SendRefused(m) PROVE Goal
  <2>1. UNCHANGED <<wire, delivered, twice, conn>> /\ Fallback(m) /\ send[m].pc = "connecting"
    BY <1>10 DEF SendRefused, net, arrived, pool
  <2>2. Elems(queue') \subseteq Elems(queue) \cup {m}
    BY <1>0, <2>1, EnqueueKeeps DEF Fallback, ToQueue
  <2>3. \A k \in Msg : send'[k].pc \in {"idle", "connecting"} => send[k].pc \in {"idle", "connecting"}
    BY <1>0, <2>1 DEF Fallback, At
  <2>4. \A k \in Msg : Pending(k)' => Pending(k)
    BY <2>1, <2>2, <2>3 DEF Pending
  <2>5. \A d \in Msg : drain'[d].pc # "refused"
    BY <1>0, <1>2, <2>1 DEF Fallback, At
  <2> QED BY <1>2, <2>1, <2>4, <2>5, OnceUnmoved
<1>11. ASSUME NEW m \in Msg, SendFailed(m) PROVE FALSE
  BY <1>2, <1>11 DEF SendFailed, Hands
<1>12. ASSUME NEW d \in Msg, DrainFailed(d) PROVE FALSE
  BY <1>2, <1>12 DEF DrainFailed, DrainSendRaises, Hands
<1>13. ASSUME NEW d \in Msg, DrainStart(d) \/ DrainRefused(d) \/ DrainWake(d) PROVE Goal
  <2>1. UNCHANGED <<wire, delivered, twice, conn, queue, send>>
    BY <1>13 DEF DrainStart, DrainRefused, DrainWake, dlq, pool, net, arrived
  <2>2. \A e \in Msg : drain'[e].pc # "refused"
    BY <1>0, <1>2, <1>13 DEF DrainStart, DrainRefused, DrainWake, NextRound, At
  <2>3. \A k \in Msg : Pending(k)' => Pending(k)
    BY <2>1 DEF Pending
  <2> QED BY <1>2, <2>1, <2>2, <2>3, OnceUnmoved
<1>14. ASSUME NEW d \in Msg, NEW c \in Conn, Takes(d, c, "flushing"), UNCHANGED send,
              NEW h \in Msg, HasMessages(queue), h = Head(queue)
       PROVE  /\ \A e \in Msg : drain'[e].pc # "refused"
              /\ Unsent(h) /\ \A k \in Msg : Pending(k)' => Pending(k) /\ k # h
  <2>1. queue' = Tail(queue) /\ drain' = [drain EXCEPT ![d] = On("flushing", c, h)]
    BY <1>14 DEF Takes, DequeueOne
  <2>2. Elems(queue) = {h} \cup Elems(queue') /\ h \notin Elems(queue')
    BY <1>0, <1>14, <2>1, ElemsOfTail DEF HasMessages, Owned
  <2>3. send[h].pc = "done" /\ Pending(h)
    BY <2>2 DEF Owned, Pending
  <2>4. Unsent(h)
    BY <1>2, <2>3 DEF WrittenOnce
  <2>5. \A k \in Msg : Pending(k)' => Pending(k) /\ k # h
    BY <1>14, <2>2, <2>3 DEF Pending
  <2>6. \A e \in Msg : drain'[e].pc # "refused"
    BY <1>0, <1>2, <2>1 DEF On
  <2> QED BY <2>4, <2>5, <2>6
<1>15. ASSUME NEW d \in Msg, NEW c \in Conn, Takes(d, c, "flushing"), ~HasMessages(queue)
       PROVE  queue' = queue /\ \A e \in Msg : drain'[e].pc # "refused"
  BY <1>0, <1>2, <1>15 DEF Takes, At
<1>16. ASSUME NEW d \in Msg, NEW c \in Conn, DrainConnected(d, c) PROVE Goal
  <2>1. UNCHANGED <<send, delivered, twice>> /\ Takes(d, c, "flushing")
    BY <1>16 DEF DrainConnected, net, arrived
  <2>2. CASE HasMessages(queue)
    <3>1. PICK h \in Msg : h = Head(queue)
      BY <1>0, <2>2, HeadTailProperties DEF HasMessages
    <3>2. Opens(c, <<h>>)
      BY <1>16, <2>2, <3>1 DEF DrainConnected
    <3>3. /\ \A e \in Msg : drain'[e].pc # "refused"
          /\ Unsent(h) /\ \A k \in Msg : Pending(k)' => Pending(k) /\ k # h
      BY <1>14, <2>1, <2>2, <3>1
    <3> QED BY <1>2, <1>7, <2>1, <3>2, <3>3
  <2>3. CASE ~HasMessages(queue)
    <3>1. wire[c] = <<>> /\ wire' = [wire EXCEPT ![c] = <<>>] /\ conn' = [conn EXCEPT ![c] = "open"]
      BY <1>16, <2>3 DEF DrainConnected, Opens, Fresh
    <3>2. wire' = wire
      BY <3>1 DEF TypeOK
    <3>3. queue' = queue /\ \A e \in Msg : drain'[e].pc # "refused"
      BY <1>15, <2>1, <2>3
    <3>4. \A k \in Msg : Pending(k)' => Pending(k)
      BY <2>1, <3>3 DEF Pending
    <3>5. WrittenOnce'
      BY <1>2, <2>1, <3>2, <3>4, OnceUnmoved
    <3> QED BY <1>0, <1>2, <2>1, <3>1, <3>3, <3>5
  <2> QED BY <2>2, <2>3
<1>17. ASSUME NEW d \in Msg, DrainFlushed(d) PROVE Goal
  <2>1. PICK c \in Conn : c = drain[d].on
    BY <1>17 DEF DrainFlushed, Hands
  <2>2. /\ UNCHANGED <<send, delivered, twice, conn>> /\ Takes(d, c, "flushing")
        /\ IF HasMessages(queue) THEN Write(c, Head(queue)) ELSE UNCHANGED wire
    BY <1>2, <1>17, <2>1 DEF DrainFlushed, arrived
  <2>3. CASE HasMessages(queue)
    <3>1. PICK h \in Msg : h = Head(queue)
      BY <1>0, <2>3, HeadTailProperties DEF HasMessages
    <3>2. wire' = [wire EXCEPT ![c] = Append(wire[c], h)] /\ wire[c] \in Seq(Msg)
      BY <1>2, <2>2, <2>3, <3>1 DEF Write, TypeOK
    <3>3. /\ \A e \in Msg : drain'[e].pc # "refused"
          /\ Unsent(h) /\ \A k \in Msg : Pending(k)' => Pending(k) /\ k # h
      BY <1>14, <2>2, <2>3, <3>1
    <3>4. NoRepeats(Append(wire[c], h)) /\ Elems(Append(wire[c], h)) = Elems(wire[c]) \cup {h}
      BY <1>2, <3>2, <3>3, ElemsOfAppend DEF WrittenOnce, Unsent
    <3>5. WrittenOnce'
      BY <1>2, <2>2, <3>2, <3>3, <3>4, OnceWritten
    <3> QED BY <1>2, <2>2, <3>3, <3>5
  <2>4. CASE ~HasMessages(queue)
    <3>1. queue' = queue /\ \A e \in Msg : drain'[e].pc # "refused"
      BY <1>15, <2>2, <2>4
    <3>2. \A k \in Msg : Pending(k)' => Pending(k)
      BY <2>2, <3>1 DEF Pending
    <3> QED BY <1>2, <2>2, <2>4, <3>1, <3>2, OnceUnmoved
  <2> QED BY <2>3, <2>4
<1>18. ASSUME RegisterPeer \/ RemovePeer \/ StopBegin \/ Start PROVE FALSE
  <2>1. churn' = churn + 1
    BY <1>18 DEF RegisterPeer, RemovePeer, StopBegin, Start, Churns
  <2> QED BY <1>1, <2>1
<1>19. ASSUME StopEnd \/ PeerDown \/ PeerBack \/ UNCHANGED vars
       PROVE  UNCHANGED <<conn, drain, wire, delivered, twice, queue, send>>
  BY <1>19 DEF StopEnd, PeerDown, PeerBack, dlq, tasks, net, arrived, pool, vars
<1>20. ASSUME NEW c \in Conn, Receive(c) PROVE Goal
  <2>1. UNCHANGED <<conn, drain>> /\ WrittenOnce' /\ twice' = twice
    BY <1>2, <1>20, OnceRead DEF Receive, tasks
  <2> QED BY <1>2, <2>1
<1>21. ASSUME NEW c \in Conn, Break(c) PROVE FALSE
  BY <1>1, <1>21 DEF Break
<1>22. ASSUME NEW c \in Conn, Notice(c) PROVE FALSE
  BY <1>2, <1>22 DEF Notice
<1> HIDE DEF Goal
<1>23. Goal
  BY <1>3, <1>4, <1>6, <1>8, <1>9, <1>10, <1>11, <1>12, <1>13, <1>16, <1>17, <1>18, <1>19, <1>20, <1>21, <1>22
     DEF Next, SendStep, DrainStep
<1> QED BY <1>23 DEF Goal

\* As long as no connection is lost under the agent (cut, or closed by
\* remove_peer or stop_listening), a message is written to one connection, once,
\* whatever send_message calls and drain tasks race: the peer never reads it
\* twice, and its duplicate check is needed for lost connections only.
THEOREM DeliveryDuplicateOnlyAfterLoss == Spec => []DuplicateOnlyAfterLoss
<1>1. Init => Steady /\ Calm
  <2> SUFFICES ASSUME Init PROVE Steady /\ Calm
    OBVIOUS
  <2>1. \A c \in Conn : DOMAIN wire[c] = {} /\ Elems(wire[c]) = {} /\ conn[c] = "free"
    BY DEF Init, Elems
  <2>2. WrittenOnce
    BY <2>1 DEF WrittenOnce, NoRepeats, Unsent, Init
  <2>3. \A d \in Msg : drain[d].pc # "refused"
    BY DEF Init, At
  <2> QED BY <2>1, <2>2, <2>3 DEF Init, Steady, Calm
<1>2. TypeOK /\ Calm => DuplicateOnlyAfterLoss
  <2>1. TypeOK => breaks \in Nat /\ churn \in Nat
    BY BoundAssumption DEF TypeOK
  <2> QED BY <2>1 DEF Calm, DuplicateOnlyAfterLoss
<1> QED BY <1>1, <1>2, SteadyStep, CalmStep, OwnedInvariant, PTL DEF Spec

-----------------------------------------------------------------------------
(* What sending promises *)

\* The messages that a step accepts.
Accepted == Sent' \ Sent

\* A step accepts one message, if any, and only a call of send_message does.
LEMMA AcceptsOne ==
    ASSUME TypeOK, Hands, [Next]_vars
    PROVE  Sent' = Sent \/ \E m \in Msg : m \notin Sent /\ Sent' = Sent \cup {m}
<1>0. DOMAIN send = Msg
  BY DEF TypeOK
<1>1. ASSUME NEW m \in Msg, SendMoves(m) \/ SendQueues(m)
      PROVE  Sent' = Sent \/ (m \notin Sent /\ Sent' = Sent \cup {m})
  <2>1. send'[m].pc # "idle" /\ \A k \in Msg \ {m} : send'[k] = send[k]
    BY <1>0, <1>1 DEF SendMoves, SendQueues, At, On
  <2> QED BY <2>1 DEF Sent
<1>2. ASSUME send' = send PROVE Sent' = Sent
  BY <1>2 DEF Sent
<1>3. ASSUME NEW d \in Msg, DrainMoves(d) \/ DrainTakes(d) \/ DrainReturns(d) PROVE send' = send
  BY <1>3 DEF DrainMoves, DrainTakes, DrainReturns
<1> QED BY <1>1, <1>2, <1>3, StepKinds

\* What the tasks and the queue hold after a step they held before, or it has just
\* been accepted.
LEMMA InsideFrom ==
    ASSUME TypeOK, Hands, Owned, [Next]_vars
    PROVE  InHand' \cup Elems(queue') \subseteq InHand \cup Elems(queue) \cup Accepted
<1> DEFINE had == InHand \cup Elems(queue) \cup Accepted
<1>0. /\ DOMAIN send = Msg /\ DOMAIN drain = Msg /\ queue \in Seq(Msg) /\ Len(queue) <= MaxSize
  BY DEF TypeOK
<1>1. \A k \in Msg : send[k].has \subseteq had /\ drain[k].has \subseteq had
  BY DEF InHand
<1>2. ASSUME \A k \in Msg : send'[k].has \subseteq had /\ drain'[k].has \subseteq had,
             Elems(queue') \subseteq had
      PROVE  InHand' \cup Elems(queue') \subseteq had
  BY <1>2 DEF InHand
<1>3. ASSUME NEW m \in Msg, SendMoves(m) \/ SendQueues(m) PROVE m \in had
  <2>1. CASE send[m].pc = "idle"
    <3>1. send'[m].pc # "idle"
      BY <1>0, <1>3 DEF SendMoves, SendQueues, At, On
    <3> QED BY <2>1, <3>1 DEF Accepted, Sent
  <2>2. CASE send[m].pc # "idle"
    <3>1. send[m].pc \in {"connecting", "flushing"}
      <4>1. send[m].pc \in {"idle", "connecting", "flushing", "done"}
        BY DEF TypeOK, Task
      <4>2. send[m].pc # "done"
        BY <1>3 DEF SendMoves, SendQueues
      <4> QED BY <2>2, <4>1, <4>2
    <3>2. m \in send[m].has
      BY <3>1 DEF Hands
    <3> QED BY <1>1, <3>2
  <2> QED BY <2>1, <2>2
<1> HIDE DEF had
<1>4. ASSUME NEW m \in Msg, SendMoves(m) PROVE InHand' \cup Elems(queue') \subseteq had
  <2>1. send'[m].has \subseteq {m} /\ \A k \in Msg \ {m} : send'[k] = send[k]
    BY <1>0, <1>4 DEF SendMoves, At, On
  <2>2. UNCHANGED <<queue, drain>>
    BY <1>4 DEF SendMoves
  <2>3. Elems(queue) \subseteq had
    BY DEF had
  <2> QED BY <1>1, <1>2, <1>3, <1>4, <2>1, <2>2, <2>3
<1>5. ASSUME NEW m \in Msg, SendQueues(m) PROVE InHand' \cup Elems(queue') \subseteq had
  <2>1. send'[m].has = {} /\ \A k \in Msg \ {m} : send'[k] = send[k]
    BY <1>0, <1>5 DEF SendQueues, At
  <2>2. \A k \in Msg : drain'[k].has \in {{}, drain[k].has}
    BY <1>0, <1>5 DEF SendQueues, At
  <2>3. queue' = Enqueue(queue, m)
    BY <1>5 DEF SendQueues, ToQueue
  <2>4. Elems(queue') \subseteq Elems(queue) \cup {m}
    BY <1>0, <2>3, EnqueueKeeps
  <2>5. Elems(queue) \subseteq had
    BY DEF had
  <2> QED BY <1>1, <1>2, <1>3, <1>5, <2>1, <2>2, <2>4, <2>5
<1>6. ASSUME NEW d \in Msg, DrainMoves(d) PROVE InHand' \cup Elems(queue') \subseteq had
  <2>1. drain'[d].has = {} /\ \A k \in Msg \ {d} : drain'[k] = drain[k]
    BY <1>0, <1>6 DEF DrainMoves, At
  <2>2. UNCHANGED <<queue, send>> /\ Elems(queue) \subseteq had
    BY <1>6 DEF DrainMoves, had
  <2> QED BY <1>1, <1>2, <2>1, <2>2
<1>7. ASSUME NEW d \in Msg, DrainTakes(d) PROVE InHand' \cup Elems(queue') \subseteq had
  <2>1. send' = send /\ \A k \in Msg \ {d} : drain'[k] = drain[k]
    BY <1>0, <1>7 DEF DrainTakes, Takes
  <2>2. CASE HasMessages(queue)
    <3>1. queue' = Tail(queue) /\ drain'[d].has = {Head(queue)}
      BY <1>0, <1>7, <2>2 DEF DrainTakes, Takes, DequeueOne, On
    <3>2. Elems(queue) = {Head(queue)} \cup Elems(queue')
      BY <1>0, <2>2, <3>1, ElemsOfTail DEF HasMessages
    <3>3. Elems(queue) \subseteq had
      BY DEF had
    <3> QED BY <1>1, <1>2, <2>1, <3>1, <3>2, <3>3
  <2>3. CASE ~HasMessages(queue)
    <3>1. queue' = queue /\ drain'[d].has = {} /\ Elems(queue) \subseteq had
      BY <1>0, <1>7, <2>3 DEF DrainTakes, Takes, At, had
    <3> QED BY <1>1, <1>2, <2>1, <3>1
  <2> QED BY <2>2, <2>3
<1>8. ASSUME NEW d \in Msg, DrainReturns(d) PROVE InHand' \cup Elems(queue') \subseteq had
  <2>1. PICK m \in drain[d].has : queue' = EnqueueFront(queue, m)
    BY <1>8 DEF DrainReturns
  <2>2. m \in Msg /\ m \in had
    BY <1>1, HeldType
  <2>3. Elems(queue') \subseteq Elems(queue) \cup {m}
    BY <1>0, <2>1, <2>2, EnqueueFrontKeeps
  <2>4. send' = send /\ drain'[d].has = {} /\ \A k \in Msg \ {d} : drain'[k] = drain[k]
    BY <1>0, <1>8 DEF DrainReturns, At
  <2>5. Elems(queue) \subseteq had
    BY DEF had
  <2> QED BY <1>1, <1>2, <2>2, <2>3, <2>4, <2>5
<1>9. CASE UNCHANGED <<queue, send, drain, evicted>>
  BY <1>9 DEF InHand, had
<1> QED BY <1>4, <1>5, <1>6, <1>7, <1>8, <1>9, StepKinds DEF had

\* A frame is written to a connection while a task has the message in hand; and
\* only what is on a connection, or is being written to one, is cut.
Wires ==
    /\ OnWire' \subseteq OnWire \cup InHand'
    /\ cut \subseteq cut' /\ cut' \subseteq cut \cup OnWire \cup InHand'

LEMMA WriteWires ==
    ASSUME TypeOK, NEW c \in Conn, NEW m \in Msg, Write(c, m), m \in InHand'
    PROVE  Wires
<1>1. CASE conn[c] = "broken"
  BY <1>1 DEF Write, Wires, OnWire
<1>2. CASE conn[c] # "broken"
  <2>1. wire[c] \in Seq(Msg) /\ wire' = [wire EXCEPT ![c] = Append(wire[c], m)] /\ cut' = cut
    BY <1>2 DEF Write, TypeOK
  <2>2. Elems(wire'[c]) = Elems(wire[c]) \cup {m} /\ \A e \in Conn \ {c} : wire'[e] = wire[e]
    BY <2>1, ElemsOfAppend DEF TypeOK
  <2>3. OnWire' \subseteq OnWire \cup {m}
    BY <2>2 DEF OnWire
  <2> QED BY <2>1, <2>3 DEF Wires
<1> QED BY <1>1, <1>2

LEMMA OpensWires ==
    ASSUME TypeOK, NEW c \in Conn, NEW q, Opens(c, q), UNCHANGED cut, Elems(q) \subseteq InHand'
    PROVE  Wires
<1>1. wire'[c] = q /\ \A e \in Conn \ {c} : wire'[e] = wire[e]
  BY DEF Opens, TypeOK
<1>2. OnWire' \subseteq OnWire \cup Elems(q)
  BY <1>1 DEF OnWire
<1> QED BY <1>2 DEF Wires

LEMMA WiresFrom ==
    ASSUME TypeOK, Hands, [Next]_vars, \A c \in Conn : ~Receive(c)
    PROVE  Wires /\ delivered' = delivered
<1>0. DOMAIN send = Msg /\ DOMAIN drain = Msg /\ queue \in Seq(Msg)
  BY DEF TypeOK
<1>1. ASSUME UNCHANGED <<wire, cut>> PROVE Wires
  BY <1>1 DEF Wires, OnWire
<1>2. \A k \in Msg : send'[k].has \subseteq InHand' /\ drain'[k].has \subseteq InHand'
  BY DEF InHand
<1>3. ASSUME NEW m \in Msg, DispatchCached(m) PROVE Wires /\ delivered' = delivered
  <2>1. cached \in Conn /\ Write(cached, m) /\ delivered' = delivered
    BY <1>3 DEF DispatchCached, TypeOK, arrived
  <2>2. send'[m].has = {m}
    BY <1>0, <1>3 DEF DispatchCached, On
  <2> QED BY <1>2, <2>1, <2>2, WriteWires
<1>4. ASSUME NEW m \in Msg, NEW c \in Conn, SendConnected(m, c) PROVE Wires /\ delivered' = delivered
  <2>1. Opens(c, <<m>>) /\ UNCHANGED <<delivered, cut>>
    BY <1>4 DEF SendConnected, net, arrived
  <2>2. send'[m].has = {m} /\ Elems(<<m>>) = {m}
    BY <1>0, <1>4 DEF SendConnected, On, Elems
  <2> QED BY <1>2, <2>1, <2>2, OpensWires
<1>5. ASSUME NEW d \in Msg, NEW c \in Conn, DrainConnected(d, c) PROVE Wires /\ delivered' = delivered
  <2>1. PICK q : /\ q = IF HasMessages(queue) THEN <<Head(queue)>> ELSE <<>>
                 /\ Opens(c, q) /\ UNCHANGED <<delivered, cut>>
    BY <1>5 DEF DrainConnected, net, arrived
  <2>2. Elems(q) \subseteq drain'[d].has
    BY <1>0, <1>5, <2>1 DEF DrainConnected, Takes, On, Elems
  <2> QED BY <1>2, <2>1, <2>2, OpensWires
<1>6. ASSUME NEW d \in Msg, DrainFlushed(d) PROVE Wires /\ delivered' = delivered
  <2>1. PICK c \in Conn : c = drain[d].on
    BY <1>6 DEF DrainFlushed, Hands
  <2>2. delivered' = delivered
    BY <1>6 DEF DrainFlushed, arrived
  <2>3. CASE HasMessages(queue) /\ conn[c] # "closed"
    <3>1. PICK h \in Msg : h = Head(queue)
      BY <1>0, <2>3, HeadTailProperties DEF HasMessages
    <3>2. Write(c, h) /\ drain'[d].has = {h}
      BY <1>0, <1>6, <2>1, <2>3, <3>1 DEF DrainFlushed, Takes, On
    <3> QED BY <1>2, <2>2, <3>2, WriteWires
  <2>4. CASE ~(HasMessages(queue) /\ conn[c] # "closed")
    <3>1. UNCHANGED <<wire, cut>>
      BY <1>6, <2>1, <2>4 DEF DrainFlushed
    <3> QED BY <1>1, <2>2, <3>1
  <2> QED BY <2>3, <2>4
<1>7. ASSUME NEW c \in Conn, Break(c) PROVE Wires /\ delivered' = delivered
  <2>1. /\ cut' = cut \cup Elems(wire[c]) /\ delivered' = delivered
        /\ wire'[c] = <<>> /\ \A e \in Conn \ {c} : wire'[e] = wire[e]
    BY <1>7 DEF Break, TypeOK, arrived
  <2>2. Elems(wire[c]) \subseteq OnWire /\ Elems(<<>>) = {}
    BY DEF OnWire, Elems
  <2>3. OnWire' \subseteq OnWire
    BY <2>1, <2>2 DEF OnWire
  <2> QED BY <2>1, <2>2, <2>3 DEF Wires
<1>8. ASSUME NEW m \in Msg,
             \/ DispatchUnregistered(m) \/ DispatchConnect(m) \/ SendRefused(m) \/ SendFlushed(m) \/ SendFailed(m)
             \/ DrainStart(m) \/ DrainRefused(m) \/ DrainFailed(m) \/ DrainWake(m)
      PROVE  UNCHANGED <<wire, cut, delivered>>
  BY <1>8 DEF DispatchUnregistered, DispatchConnect, SendRefused, SendFlushed, SendFailed,
              DrainStart, DrainRefused, DrainFailed, DrainWake, pool, net, arrived
<1>9. CASE \/ RegisterPeer \/ RemovePeer \/ StopBegin \/ StopEnd \/ Start \/ PeerDown \/ PeerBack
           \/ \E c \in Conn : Notice(c)
  <2>1. UNCHANGED <<wire, cut, delivered>>
    BY <1>9 DEF RegisterPeer, RemovePeer, StopBegin, StopEnd, Start, PeerDown, PeerBack, Notice,
                pool, net, arrived
  <2> QED BY <1>1, <2>1
<1>10. CASE UNCHANGED vars
  BY <1>1, <1>10 DEF vars
<1> QED BY <1>1, <1>3, <1>4, <1>5, <1>6, <1>7, <1>8, <1>9, <1>10 DEF Next, SendStep, DrainStep

\* The queue gives up one message, and only when it is full and another message is
\* in the hand of a task or has just been accepted.
LEMMA EvictsFrom ==
    ASSUME TypeOK, Hands, Owned, [Next]_vars,
           NEW had, IsFiniteSet(had), InHand \cup Elems(queue) \cup Accepted \subseteq had
    PROVE  \/ evicted' = evicted
           \/ Cardinality(had) > MaxSize /\ \E m \in had : evicted' = evicted \cup {m}
<1>0. /\ DOMAIN send = Msg /\ queue \in Seq(Msg) /\ Len(queue) <= MaxSize /\ MaxSize \in Nat \ {0}
      /\ Len(queue) \in Nat
  BY MaxSizeAssumption, LenProperties DEF TypeOK
<1>1. ASSUME NEW m \in had, m \notin Elems(queue), Len(queue) = MaxSize
      PROVE  Cardinality(had) > MaxSize
  <2>1. IsFiniteSet(Elems(queue)) /\ Cardinality(Elems(queue)) = MaxSize
    BY <1>0, <1>1, CountOfSeq DEF Owned
  <2>2. Cardinality(Elems(queue) \cup {m}) = MaxSize + 1
    BY <1>1, <2>1, FS_AddElement
  <2>3. Elems(queue) \cup {m} \subseteq had
    OBVIOUS
  <2>4. Cardinality(Elems(queue) \cup {m}) <= Cardinality(had) /\ Cardinality(had) \in Nat
    BY <2>3, FS_Subset, FS_CardinalityType
  <2> QED BY <1>0, <2>2, <2>4
<1>2. Full(queue) => Len(queue) = MaxSize /\ Head(queue) \in Elems(queue) /\ queue[Len(queue)] \in Elems(queue)
  <2>1. Full(queue) => Len(queue) = MaxSize /\ queue # <<>>
    BY <1>0, EmptySeq DEF Full
  <2>2. queue # <<>> => Head(queue) \in Elems(queue)
    BY <1>0, ElemsOfTail
  <2>3. queue # <<>> => queue[Len(queue)] \in Elems(queue)
    BY <1>0, ElemsOfFront
  <2> QED BY <2>1, <2>2, <2>3
<1>3. InHand' \cup Elems(queue') \subseteq had
  BY InsideFrom
<1>4. ASSUME NEW m \in Msg, SendQueues(m), evicted' # evicted
      PROVE  Cardinality(had) > MaxSize /\ \E e \in had : evicted' = evicted \cup {e}
  <2>1. m \notin Elems(queue)
    BY <1>4 DEF SendQueues, Owned
  <2>2. m \in had
    <3>1. m \in Elems(queue')
      BY <1>0, <1>4, EnqueueKeeps DEF SendQueues, ToQueue
    <3> QED BY <1>3, <3>1
  <2>3. Full(queue) /\ evicted' = evicted \cup {Head(queue)}
    BY <1>4 DEF SendQueues, ToQueue, EnqueueEvicts
  <2>4. Head(queue) \in had /\ Len(queue) = MaxSize
    BY <1>2, <2>3
  <2> QED BY <1>1, <2>1, <2>2, <2>3, <2>4
<1>5. ASSUME NEW d \in Msg, DrainReturns(d), evicted' # evicted
      PROVE  Cardinality(had) > MaxSize /\ \E e \in had : evicted' = evicted \cup {e}
  <2>1. PICK m \in drain[d].has : queue' = EnqueueFront(queue, m)
    BY <1>5 DEF DrainReturns
  <2>2. m \notin Elems(queue) /\ m \in had
    BY DEF Owned, InHand
  <2>3. Full(queue) /\ evicted' = evicted \cup {queue[Len(queue)]}
    BY <1>5 DEF DrainReturns, EnqueueFrontEvicts
  <2>4. queue[Len(queue)] \in had /\ Len(queue) = MaxSize
    BY <1>2, <2>3
  <2> QED BY <1>1, <2>2, <2>3, <2>4
<1>6. ASSUME NEW m \in Msg, SendMoves(m) \/ DrainMoves(m) \/ DrainTakes(m) PROVE evicted' = evicted
  BY <1>6 DEF SendMoves, DrainMoves, DrainTakes
<1> QED BY <1>4, <1>5, <1>6, StepKinds

\* Only messages that were given to send are with a task, in the queue or on a
\* connection.
Inside == InHand \cup Elems(queue) \subseteq Sent
WireSent == OnWire \subseteq Sent

LEMMA InsideSent == TypeOK /\ Hands /\ Owned => Inside
<1> SUFFICES ASSUME TypeOK, Hands, Owned PROVE Inside
  OBVIOUS
<1>1. \A m \in Elems(queue) : m \in Msg /\ send[m].pc = "done"
  <2>1. Elems(queue) \subseteq Msg
    BY ElemsOfSeq DEF TypeOK
  <2> QED BY <2>1 DEF Owned
<1>2. ASSUME NEW d \in Msg, NEW m \in drain[d].has PROVE m \in Msg /\ send[m].pc = "done"
  <2>1. m \in Msg
    BY HeldType
  <2> QED BY <2>1 DEF Owned
<1>3. ASSUME NEW d \in Msg, NEW m \in send[d].has PROVE m = d /\ send[d].pc # "idle"
  <2>1. send[d].has = IF send[d].pc \in {"connecting", "flushing"} THEN {d} ELSE {}
    BY DEF Hands
  <2> QED BY <1>3, <2>1
<1> QED BY <1>1, <1>2, <1>3 DEF InHand, Sent, Inside

\* Reading takes a message off a connection and leaves everything else alone.
LEMMA ReceiveTakes ==
    ASSUME TypeOK, NEW c \in Conn, Receive(c)
    PROVE  /\ \E m \in OnWire : m \in Msg /\ delivered' = delivered \cup {m}
           /\ OnWire' \subseteq OnWire
           /\ UNCHANGED <<queue, evicted, send, drain, cut>>
<1>1. wire[c] \in Seq(Msg) /\ wire[c] # <<>>
  BY DEF Receive, TypeOK
<1>2. wire'[c] = Tail(wire[c]) /\ \A e \in Conn \ {c} : wire'[e] = wire[e]
  BY DEF Receive, TypeOK
<1>3. Elems(wire[c]) = {Head(wire[c])} \cup Elems(wire'[c]) /\ Head(wire[c]) \in Msg
  BY <1>1, <1>2, ElemsOfTail
<1>4. OnWire' \subseteq OnWire
  BY <1>2, <1>3 DEF OnWire
<1>5. Head(wire[c]) \in OnWire
  BY <1>3 DEF OnWire
<1>6. delivered' = delivered \cup {Head(wire[c])}
  BY DEF Receive
<1>7. UNCHANGED <<queue, evicted, send, drain, cut>>
  BY DEF Receive, dlq, tasks
<1> QED BY <1>3, <1>4, <1>5, <1>6, <1>7

LEMMA WireSentStep ==
    TypeOK /\ Hands /\ Owned /\ WireSent /\ Inside' /\ [Next]_vars => WireSent'
<1> SUFFICES ASSUME TypeOK, Hands, Owned, WireSent, Inside', [Next]_vars PROVE WireSent'
  OBVIOUS
<1>1. Sent \subseteq Sent'
  BY SentGrows
<1>2. OnWire' \subseteq OnWire \cup InHand'
  <2>1. CASE \E c \in Conn : Receive(c)
    BY <2>1, ReceiveTakes
  <2>2. CASE \A c \in Conn : ~Receive(c)
    BY <2>2, WiresFrom DEF Wires
  <2> QED BY <2>1, <2>2
<1> QED BY <1>1, <1>2 DEF WireSent, Inside

LEMMA WireSentInvariant == Spec => [](Inside /\ WireSent)
<1>1. Init => WireSent
  BY DEF Init, WireSent, OnWire, Elems
<1> QED BY <1>1, InsideSent, WireSentStep, OwnedInvariant, PTL DEF Spec

\* Every step is one the promise allows.
LEMMA PromiseStep ==
    ASSUME TypeOK, Hands, Owned, Inside, WireSent, NothingVanishes', [Next]_vars
    PROVE  [ALO!Next]_(ALO!vars)
<1> DEFINE had == Held \cup Accepted
<1>1. Sent \subseteq Sent' /\ Held \subseteq Sent
  BY SentGrows DEF Held, Inside, WireSent
<1>2. had \subseteq Sent'
  BY <1>1 DEF Accepted
<1>3. had \ Held' \subseteq delivered' \cup evicted' \cup cut'
  BY <1>2 DEF NothingVanishes, Held
<1>4. Held' \subseteq had /\ Held \subseteq had => ALO!Holds(had) /\ (Accepted = {} => ALO!Holds(Held))
  BY <1>3 DEF ALO!Holds
<1>5. CASE \E c \in Conn : Receive(c)
  <2>1. /\ UNCHANGED <<queue, evicted, send, drain, cut>> /\ OnWire' \subseteq OnWire
        /\ \E m \in OnWire : m \in Msg /\ delivered' = delivered \cup {m}
    BY <1>5, ReceiveTakes
  <2>2. Sent' = Sent /\ InHand' = InHand /\ Elems(queue') = Elems(queue)
    BY <2>1 DEF Sent, InHand
  <2>3. Accepted = {} /\ Held' \subseteq Held
    BY <2>1, <2>2 DEF Accepted, Held
  <2>4. ALO!Holds(Held)
    BY <1>4, <2>3
  <2>5. PICK m \in Msg : m \in Held /\ delivered' = delivered \cup {m}
    BY <2>1 DEF Held
  <2>6. ALO!Arrive(m)
    BY <2>1, <2>2, <2>4, <2>5 DEF ALO!Arrive
  <2> QED BY <2>6 DEF ALO!Next
<1>6. CASE \A c \in Conn : ~Receive(c)
  <2>1. Wires /\ delivered' = delivered
    BY <1>6, WiresFrom
  <2>2. InHand' \cup Elems(queue') \subseteq InHand \cup Elems(queue) \cup Accepted
    BY InsideFrom
  <2>3. Held' \subseteq had /\ Held \subseteq had
    BY <2>1, <2>2 DEF Held, Wires
  <2>4. ALO!Loses(had)
    <3>1. \E S \in SUBSET had : cut' = cut \cup S
      <4>1. cut' \ cut \subseteq had /\ cut' = cut \cup (cut' \ cut)
        BY <2>1, <2>2 DEF Wires, Held
      <4> QED BY <4>1
    <3>2. IsFiniteSet(had)
      BY <1>2, SentGrows, FS_Subset
    <3>3. InHand \cup Elems(queue) \cup Accepted \subseteq had
      BY DEF Held
    <3> HIDE DEF had
    <3>4. evicted' = evicted \/ (Cardinality(had) > MaxSize /\ \E m \in had : evicted' = evicted \cup {m})
      BY <3>2, <3>3, EvictsFrom
    <3>5. ALO!Cardinality(had) = Cardinality(had)
      BY DEF ALO!Cardinality, Cardinality
    <3> QED BY <3>1, <3>4, <3>5 DEF ALO!Loses
  <2>5. CASE Sent' = Sent
    <3>1. Accepted = {} /\ had = Held
      BY <2>5 DEF Accepted
    <3>2. ALO!Holds(Held) /\ ALO!Loses(Held)
      BY <1>4, <2>3, <2>4, <3>1
    <3> QED BY <2>1, <2>5, <3>2 DEF ALO!Next, ALO!Lapse
  <2>6. CASE \E m \in Msg : m \notin Sent /\ Sent' = Sent \cup {m}
    <3>1. PICK m \in Msg : m \notin Sent /\ Sent' = Sent \cup {m}
      BY <2>6
    <3>2. had = Held \cup {m}
      BY <3>1 DEF Accepted
    <3>3. ALO!Holds(Held \cup {m}) /\ ALO!Loses(Held \cup {m})
      BY <1>4, <2>3, <2>4, <3>2
    <3>4. ALO!Accept(m)
      BY <2>1, <3>1, <3>3 DEF ALO!Accept
    <3> QED BY <3>4 DEF ALO!Next
  <2> QED BY <2>5, <2>6, AcceptsOne
<1> QED BY <1>5, <1>6

\* Sending to a peer keeps its promise, whatever send_message calls, drain tasks,
\* stops and cuts interleave: an accepted message is held until the peer has read
\* it; it is given up only when the agent holds more messages than the queue has
\* room for, one at a time, or lost with a connection; and a message of which no
\* copy is left to a task, the queue or a connection is never sent again.
THEOREM DeliveryImplementsAtLeastOnce == Spec => ImplementsAtLeastOnce
<1>1. Init => ALO!Init
  <2> SUFFICES ASSUME Init PROVE Sent = {} /\ Held = {}
    BY DEF ALO!Init, Init
  <2>1. Sent = {} /\ InHand = {}
    BY DEF Init, At, Sent, InHand
  <2>2. Elems(queue) = {} /\ OnWire = {}
    BY DEF Init, Elems, OnWire
  <2> QED BY <2>1, <2>2 DEF Held
<1>2. TypeOK /\ Hands /\ Owned /\ Inside /\ WireSent /\ NothingVanishes' /\ [Next]_vars
      => [ALO!Next]_(ALO!vars)
  BY PromiseStep
<1> QED BY <1>1, <1>2, OwnedInvariant, WireSentInvariant, DeliveryNothingVanishes, PTL
        DEF Spec, ImplementsAtLeastOnce, ALO!Spec
=============================================================================
