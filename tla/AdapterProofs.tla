---------------------------- MODULE AdapterProofs ----------------------------
(***************************************************************************)
(* Proofs about the industrial adapters of MCServices, for every number of *)
(* calls, sessions, commands and readings.                                 *)
(***************************************************************************)
EXTENDS MCServices, SequenceTheorems, FiniteSetTheorems, TLAPS

\* A step of the services is one of the chosen component, or leaves it alone.
LEMMA OneComponent ==
    ASSUME [ServicesNext]_allVars
    PROVE  /\ O!Next \/ UNCHANGED opcuaVars
           /\ M!Next \/ UNCHANGED modbusVars
           /\ C!Next \/ UNCHANGED canVars
           /\ S!Next \/ UNCHANGED sensorVars
<1>1. CASE UNCHANGED allVars
  BY <1>1 DEF allVars
<1>2. CASE OthersStill
  BY <1>2 DEF OthersStill, ServicesNext, allVars
<1> QED BY <1>1, <1>2 DEF ServicesNext

\* Where the items of a queue are after one is added at its end, or taken from its front.
LEMMA AppendItems ==
    ASSUME NEW A, NEW q \in Seq(A), NEW f \in A
    PROVE  LET a == Append(q, f) IN
           /\ a \in Seq(A) /\ Len(q) \in Nat /\ Len(a) = Len(q) + 1
           /\ DOMAIN a = 1..(Len(q) + 1) /\ DOMAIN q = 1..Len(q)
           /\ a[Len(q) + 1] = f /\ \A i \in DOMAIN q : a[i] = q[i]
           /\ \A i \in DOMAIN a : i = Len(q) + 1 \/ i \in DOMAIN q
<1>1. LET a == Append(q, f) IN
      /\ a \in Seq(A) /\ Len(a) = Len(q) + 1 /\ a[Len(q) + 1] = f /\ \A i \in 1..Len(q) : a[i] = q[i]
  BY AppendProperties
<1>2. Len(q) \in Nat /\ DOMAIN q = 1..Len(q) /\ DOMAIN Append(q, f) = 1..(Len(q) + 1)
  BY <1>1, LenProperties
<1> QED BY <1>1, <1>2

LEMMA TailItems ==
    ASSUME NEW A, NEW q \in Seq(A), q # <<>>
    PROVE  LET t == Tail(q) IN
           /\ t \in Seq(A) /\ Head(q) \in A /\ 1 \in DOMAIN q /\ Head(q) = q[1]
           /\ Len(q) \in Nat \ {0} /\ Len(t) = Len(q) - 1
           /\ DOMAIN t = 1..(Len(q) - 1) /\ DOMAIN q = 1..Len(q)
           /\ \A i \in DOMAIN t : i \in Nat /\ i + 1 \in DOMAIN q /\ 1 < i + 1 /\ t[i] = q[i + 1]
           /\ \A i \in DOMAIN q : i = 1 \/ (i - 1 \in DOMAIN t /\ t[i - 1] = q[i])
<1>1. /\ Tail(q) \in Seq(A) /\ Len(Tail(q)) = Len(q) - 1 /\ Head(q) \in A
      /\ \A i \in 1..Len(Tail(q)) : Tail(q)[i] = q[i + 1]
  BY HeadTailProperties
<1>2. /\ DOMAIN Tail(q) = 1..(Len(q) - 1) /\ DOMAIN q = 1..Len(q) /\ Len(q) \in Nat \ {0}
      /\ Head(q) = q[1]
  BY <1>1, LenProperties, EmptySeq
<1> QED BY <1>1, <1>2

-----------------------------------------------------------------------------
(* OPC-UA *)

Active(s) == pc[s] \in {"replacing", "connecting", "subscribing"}

OpcTypes ==
    /\ shared \in Subscribe \cup {NoClient}
    /\ link \in [O!Calls -> {"none", "connecting", "up", "closed"}]
    /\ DOMAIN pc = O!Calls /\ DOMAIN using = WriteCall
    /\ opcOverlapped \in BOOLEAN

\* A write has a client of its own only while it uses it.
OwnClients ==
    \A w \in WriteCall : /\ pc[w] = "connecting" => using[w] = w
                         /\ link[w] = "up" => pc[w] = "writing" /\ using[w] = w

\* One subscription at a time: only the adapter's client is connected, and while
\* it is being replaced none is.
OneClient ==
    ~opcOverlapped => \A s \in Subscribe :
        /\ \A t \in Subscribe : Active(s) /\ Active(t) => s = t
        /\ link[s] = "up" => s = shared
        /\ pc[s] = "connecting" => shared = s
        /\ pc[s] = "replacing" => \A t \in Subscribe : link[t] # "up"

OpcInv == OpcTypes /\ OwnClients /\ OneClient

LEMMA OpcInit == O!Init => OpcInv
BY DEF O!Init, OpcInv, OpcTypes, OwnClients, OneClient, Active, O!Calls

\* Every run of code between two awaits of a subscription or a write keeps it.
LEMMA OpcStep == OpcInv /\ (O!Next \/ UNCHANGED opcuaVars) => OpcInv'
<1> SUFFICES ASSUME OpcInv, O!Next \/ UNCHANGED opcuaVars PROVE OpcInv'
  OBVIOUS
<1> USE CallsAssumption DEF OpcInv
<1>0. /\ DOMAIN pc = O!Calls /\ DOMAIN link = O!Calls /\ DOMAIN using = WriteCall
      /\ \A k \in Subscribe : k \in O!Calls /\ k \notin WriteCall
      /\ \A k \in WriteCall : k \in O!Calls /\ k \notin Subscribe
  BY DEF OpcTypes, O!Calls
<1>1. ASSUME NEW s \in Subscribe, O!BeginSubscribe(s) PROVE OpcInv'
  <2>1. /\ shared = NoClient /\ shared' = s /\ link' = [link EXCEPT ![s] = "connecting"]
        /\ pc' = [pc EXCEPT ![s] = "connecting"] /\ UNCHANGED using
        /\ opcOverlapped' = (opcOverlapped \/ \E t \in Subscribe : Active(t))
    BY <1>1 DEF O!BeginSubscribe, O!Install, O!Overlaps, O!At, Active
  <2>2. OpcTypes'
    BY <1>0, <2>1 DEF OpcTypes
  <2>3. OwnClients'
    BY <1>0, <2>1 DEF OwnClients
  <2>4. OneClient'
    BY <1>0, <2>1 DEF OneClient, Active, OpcTypes
  <2> QED BY <2>2, <2>3, <2>4
<1>2. ASSUME NEW s \in Subscribe, O!BeginReplace(s) PROVE OpcInv'
  <2>1. /\ shared \in Subscribe /\ UNCHANGED <<shared, using>> /\ link' = [link EXCEPT ![shared] = "closed"]
        /\ pc' = [pc EXCEPT ![s] = "replacing"]
        /\ opcOverlapped' = (opcOverlapped \/ \E t \in Subscribe : Active(t))
    BY <1>2 DEF O!BeginReplace, O!Overlaps, O!At, Active, OpcTypes
  <2>2. OpcTypes'
    BY <1>0, <2>1 DEF OpcTypes
  <2>3. OwnClients'
    BY <1>0, <2>1 DEF OwnClients
  <2>4. OneClient'
    BY <1>0, <2>1 DEF OneClient, Active, OpcTypes
  <2> QED BY <2>2, <2>3, <2>4
<1>3. ASSUME NEW s \in Subscribe, O!Replace(s) PROVE OpcInv'
  <2>1. /\ pc[s] = "replacing" /\ shared' = s /\ link' = [link EXCEPT ![s] = "connecting"]
        /\ pc' = [pc EXCEPT ![s] = "connecting"] /\ UNCHANGED <<using, opcOverlapped>>
    BY <1>3 DEF O!Replace, O!Install, O!At
  <2>2. OpcTypes'
    BY <1>0, <2>1 DEF OpcTypes
  <2>3. OwnClients'
    BY <1>0, <2>1 DEF OwnClients
  <2>4. OneClient'
    BY <1>0, <2>1 DEF OneClient, Active
  <2> QED BY <2>2, <2>3, <2>4
<1>4. ASSUME NEW s \in Subscribe, O!SubscribeConnected(s) PROVE OpcInv'
  <2>1. /\ pc[s] = "connecting" /\ UNCHANGED <<shared, using, opcOverlapped>>
        /\ link' = [link EXCEPT ![s] = IF link[s] = "connecting" THEN "up" ELSE link[s]]
        /\ \E p \in {"raised", "subscribing"} : pc' = [pc EXCEPT ![s] = p]
    BY <1>4 DEF O!SubscribeConnected, O!At
  <2>2. OpcTypes'
    BY <1>0, <2>1 DEF OpcTypes
  <2>3. OwnClients'
    BY <1>0, <2>1 DEF OwnClients
  <2>4. OneClient'
    BY <1>0, <2>1 DEF OneClient, Active
  <2> QED BY <2>2, <2>3, <2>4
<1>5. ASSUME NEW s \in Subscribe, O!SubscribeRefused(s) PROVE OpcInv'
  <2>1. /\ pc[s] = "connecting" /\ shared' = NoClient /\ UNCHANGED <<using, opcOverlapped>>
        /\ link' = [link EXCEPT ![s] = "closed"] /\ pc' = [pc EXCEPT ![s] = "raised"]
    BY <1>5 DEF O!SubscribeRefused, O!At
  <2>2. OpcTypes'
    BY <1>0, <2>1 DEF OpcTypes
  <2>3. OwnClients'
    BY <1>0, <2>1 DEF OwnClients
  <2>4. OneClient'
    BY <1>0, <2>1 DEF OneClient, Active
  <2> QED BY <2>2, <2>3, <2>4
<1>6. ASSUME NEW s \in Subscribe, (\E ok \in BOOLEAN : O!Subscribed(s, ok)) \/ O!DataChange(s) PROVE OpcInv'
  <2>1. /\ UNCHANGED <<shared, link, using, opcOverlapped>>
        /\ pc' = pc \/ \E p \in {"raised", "subscribed"} : pc' = [pc EXCEPT ![s] = p]
    BY <1>6 DEF O!Subscribed, O!DataChange, O!At
  <2>2. OpcTypes'
    BY <1>0, <2>1 DEF OpcTypes
  <2>3. OwnClients'
    BY <1>0, <2>1 DEF OwnClients
  <2>4. OneClient'
    BY <1>0, <2>1 DEF OneClient, Active
  <2> QED BY <2>2, <2>3, <2>4
<1>7. ASSUME NEW w \in WriteCall, UNCHANGED <<shared, opcOverlapped>>,
             \E p : pc' = [pc EXCEPT ![w] = p],
             \E l \in {"connecting", "up", "closed", link[w]} : link' = [link EXCEPT ![w] = l],
             DOMAIN using' = WriteCall,
             \A v \in WriteCall \ {w} : using'[v] = using[v],
             pc'[w] = "connecting" => using'[w] = w,
             link'[w] = "up" => pc'[w] = "writing" /\ using'[w] = w
      PROVE  OpcInv'
  <2>2. OpcTypes'
    BY <1>0, <1>7 DEF OpcTypes
  <2>3. OwnClients'
    BY <1>0, <1>7 DEF OwnClients
  <2>4. OneClient'
    BY <1>0, <1>7 DEF OneClient, Active
  <2> QED BY <2>2, <2>3, <2>4
<1>8. ASSUME NEW w \in WriteCall, O!BeginWriteShared(w) \/ O!BeginWriteAlone(w) PROVE OpcInv'
  <2>1. /\ pc[w] = "ready" /\ UNCHANGED <<shared, opcOverlapped>>
        /\ \/ pc' = [pc EXCEPT ![w] = "writing"] /\ link' = link /\ using' = [using EXCEPT ![w] = shared]
           \/ /\ pc' = [pc EXCEPT ![w] = "connecting"] /\ using' = [using EXCEPT ![w] = w]
              /\ link' = [link EXCEPT ![w] = "connecting"]
    BY <1>8 DEF O!BeginWriteShared, O!BeginWriteAlone, O!At
  <2>2. link[w] # "up" /\ (link' = link => link' = [link EXCEPT ![w] = link[w]])
    BY <2>1 DEF OwnClients, OpcTypes
  <2>3. CASE link' = link /\ pc' = [pc EXCEPT ![w] = "writing"] /\ using' = [using EXCEPT ![w] = shared]
    BY <1>0, <1>7, <2>1, <2>2, <2>3
  <2>4. CASE /\ pc' = [pc EXCEPT ![w] = "connecting"] /\ using' = [using EXCEPT ![w] = w]
             /\ link' = [link EXCEPT ![w] = "connecting"]
    BY <1>0, <1>7, <2>1, <2>4
  <2> QED BY <2>1, <2>3, <2>4
<1>9. ASSUME NEW w \in WriteCall, NEW ok \in BOOLEAN, O!WriteConnected(w, ok) PROVE OpcInv'
  <2>1. /\ pc[w] = "connecting" /\ UNCHANGED <<shared, using, opcOverlapped>>
        /\ link' = [link EXCEPT ![w] = IF ok THEN "up" ELSE "closed"]
        /\ pc' = [pc EXCEPT ![w] = IF ok THEN "writing" ELSE "false"]
    BY <1>9 DEF O!WriteConnected, O!At
  <2>2. using[w] = w
    BY <2>1 DEF OwnClients
  <2> QED BY <1>0, <1>7, <2>1, <2>2
<1>10. ASSUME NEW w \in WriteCall, NEW ok \in BOOLEAN, O!EndWrite(w, ok) PROVE OpcInv'
  <2>1. /\ pc[w] = "writing" /\ UNCHANGED <<shared, using, opcOverlapped>>
        /\ link' = IF using[w] = w THEN [link EXCEPT ![w] = "closed"] ELSE link
        /\ pc' = [pc EXCEPT ![w] = IF ok THEN "true" ELSE "false"]
    BY <1>10 DEF O!EndWrite, O!At
  <2>2. \E l \in {"closed", link[w]} : l # "up" /\ link' = [link EXCEPT ![w] = l]
    <3>1. CASE using[w] = w
      BY <2>1, <3>1
    <3>2. CASE using[w] # w
      BY <2>1, <3>2 DEF OwnClients, OpcTypes
    <3> QED BY <3>1, <3>2
  <2>3. link'[w] # "up" /\ pc'[w] # "connecting"
    BY <1>0, <2>1, <2>2
  <2> QED BY <1>0, <1>7, <2>1, <2>2, <2>3
<1>11. CASE UNCHANGED opcuaVars
  BY <1>11 DEF opcuaVars, OpcTypes, OwnClients, OneClient, Active
<1> QED BY <1>1, <1>2, <1>3, <1>4, <1>5, <1>6, <1>8, <1>9, <1>10, <1>11 DEF O!Next

\* OPC-UA: while start_subscription calls do not overlap, a connection is up only
\* while it is the adapter's client or a write is using it, for any number of
\* subscriptions and writes, however they interleave and fail.
THEOREM AdapterNoConnectionLeak == ServicesSpec => []NoConnectionLeak
<1>1. ServicesInit => OpcInv
  BY OpcInit DEF ServicesInit
<1>2. OpcInv /\ [ServicesNext]_allVars => OpcInv'
  BY OpcStep, OneComponent
<1>3. OpcInv => NoConnectionLeak
  BY DEF OpcInv, OwnClients, OneClient, NoConnectionLeak, O!NoConnectionLeak, O!Calls
<1> QED BY <1>1, <1>2, <1>3, PTL DEF ServicesSpec

-----------------------------------------------------------------------------
(* MQTT readings in the shared memory *)

Entry == [reading : Nat, timestamp : Nat]

\* The envelopes made so far.
Made == mesh \cup {loopq[i] : i \in DOMAIN loopq}

SensorTypes ==
    /\ time \in Nat /\ read \in 0..Len(Value) /\ tied \in BOOLEAN /\ packed \subseteq Nat
    /\ inbox \in Seq(Nat) /\ loopq \in Seq(Entry) /\ mesh \subseteq Entry /\ merged \subseteq Nat

\* Readings wait in order, behind those that are packed.
Waiting ==
    /\ \A i, j \in DOMAIN inbox : i < j => inbox[i] < inbox[j]
    /\ \A i \in DOMAIN inbox : inbox[i] \in 1..read
    /\ \A e \in Made : e.reading \in 1..read
    /\ \A e \in Made, i \in DOMAIN inbox : e.reading < inbox[i]

\* Timestamps follow the readings, unless two fell into one millisecond.
Stamped ==
    /\ \A t \in packed : t <= time
    /\ \A e \in Made : e.timestamp \in packed
    /\ \A e, f \in Made : e.reading = f.reading => e = f
    /\ ~tied => \A e, f \in Made : e.reading < f.reading => e.timestamp < f.timestamp

\* The receiver's entry is that of the greatest reading it has merged.
Shown ==
    ~tied => /\ meshEntry \subseteq mesh
             /\ \A r \in merged : \E e \in mesh : e.reading = r
             /\ meshEntry = {} => merged = {}
             /\ \A f \in meshEntry : f.reading \in merged /\ \A r \in merged : r <= f.reading

SensorInv == bridge = "mqtt" => SensorTypes /\ Waiting /\ Stamped /\ Shown

LEMMA Ranks == \A r \in 1..Len(Value) : Value[r] \in Nat
BY ReadingAssumption, LenProperties

LEMMA SensorInit == S!Init => SensorInv
<1> SUFFICES ASSUME S!Init PROVE SensorTypes /\ Waiting /\ Stamped /\ Shown
  BY DEF SensorInv
<1>0. Len(Value) \in Nat
  BY ReadingAssumption, LenProperties
<1>1. /\ time = 1 /\ read = 0 /\ inbox = <<>> /\ loopq = <<>> /\ mesh = {} /\ meshEntry = {}
      /\ merged = {} /\ packed = {} /\ tied = FALSE
  BY DEF S!Init
<1>2. SensorTypes
  <2>1. inbox \in Seq(Nat) /\ loopq \in Seq(Entry) /\ mesh \subseteq Entry /\ merged \subseteq Nat /\ packed \subseteq Nat
    BY <1>1
  <2>2. time \in Nat /\ read \in 0..Len(Value)
    BY <1>0, <1>1
  <2>3. tied \in BOOLEAN
    BY <1>1
  <2> QED BY <2>1, <2>2, <2>3 DEF SensorTypes
<1>3. Made = {}
  BY <1>1 DEF Made
<1> QED BY <1>1, <1>2, <1>3 DEF Waiting, Stamped, Shown

LEMMA SensorStep == SensorInv /\ (S!Next \/ UNCHANGED sensorVars) => SensorInv'
<1> SUFFICES ASSUME bridge = "mqtt", SensorTypes, Waiting, Stamped, Shown, S!Next \/ UNCHANGED sensorVars
             PROVE  SensorInv'
  <2>1. S!Next \/ UNCHANGED sensorVars => UNCHANGED bridge
    BY DEF S!Next, S!Start, S!OnConnect, S!Lose, S!Reconnect, S!Stop, S!Publish, S!OnMessage, S!RunCallback,
           S!RosTelemetry, S!Merge, S!Tick, sensorVars
  <2> QED BY <2>1 DEF SensorInv
<1> DEFINE Goal == SensorTypes' /\ Waiting' /\ Stamped' /\ Shown'
<1>0. Len(Value) \in Nat
  BY ReadingAssumption, LenProperties
<1>1. ASSUME UNCHANGED <<time, read, inbox, loopq, mesh, meshEntry, merged, packed, tied>> PROVE Goal
  <2>1. Made' = Made
    BY <1>1 DEF Made
  <2> QED BY <1>1, <2>1 DEF SensorTypes, Waiting, Stamped, Shown
<1>2. ASSUME S!Start \/ S!OnConnect \/ S!Lose \/ S!Reconnect \/ UNCHANGED sensorVars
      PROVE  UNCHANGED <<time, read, inbox, loopq, mesh, meshEntry, merged, packed, tied>>
  BY <1>2 DEF S!Start, S!OnConnect, S!Lose, S!Reconnect, sensorVars
<1>3. ASSUME S!Stop PROVE Goal
  <2>1. inbox' = <<>> /\ UNCHANGED <<time, read, loopq, mesh, meshEntry, merged, packed, tied>>
    BY <1>3 DEF S!Stop
  <2>2. Made' = Made
    BY <2>1 DEF Made
  <2>3. SensorTypes'
    BY <2>1 DEF SensorTypes
  <2> QED BY <2>1, <2>2, <2>3 DEF Waiting, Stamped, Shown
<1>4. ASSUME S!Publish PROVE Goal
  <2>1. /\ read < Len(Value) /\ read' = read + 1
        /\ inbox' = inbox \/ inbox' = Append(inbox, read + 1)
        /\ UNCHANGED <<time, loopq, mesh, meshEntry, merged, packed, tied>>
    BY <1>4 DEF S!Publish
  <2>2. Made' = Made
    BY <2>1 DEF Made
  <2>3. read \in Nat /\ read + 1 \in Nat /\ read' \in 0..Len(Value)
    BY <1>0, <2>1 DEF SensorTypes
  <2>4. /\ inbox' \in Seq(Nat)
        /\ \A i, j \in DOMAIN inbox' : i < j => inbox'[i] < inbox'[j]
        /\ \A i \in DOMAIN inbox' : inbox'[i] \in 1..read'
        /\ \A e \in Made, i \in DOMAIN inbox' : e.reading < inbox'[i]
    <3>1. CASE inbox' = inbox
      BY <2>1, <2>3, <3>1 DEF SensorTypes, Waiting
    <3>2. CASE inbox' = Append(inbox, read + 1)
      <4>1. /\ inbox' \in Seq(Nat) /\ Len(inbox) \in Nat /\ DOMAIN inbox = 1..Len(inbox)
            /\ inbox'[Len(inbox) + 1] = read + 1 /\ \A i \in DOMAIN inbox : inbox'[i] = inbox[i]
            /\ \A i \in DOMAIN inbox' : i = Len(inbox) + 1 \/ i \in DOMAIN inbox
        BY <2>3, <3>2, AppendItems DEF SensorTypes
      <4>2. \A i \in DOMAIN inbox : inbox[i] \in 1..read
        BY DEF Waiting
      <4>3. \A i, j \in DOMAIN inbox' : i < j => inbox'[i] < inbox'[j]
        <5> SUFFICES ASSUME NEW i \in DOMAIN inbox', NEW j \in DOMAIN inbox', i < j PROVE inbox'[i] < inbox'[j]
          OBVIOUS
        <5>1. i \in DOMAIN inbox
          BY <4>1
        <5>2. CASE j \in DOMAIN inbox
          BY <4>1, <5>1, <5>2 DEF Waiting
        <5>3. CASE j = Len(inbox) + 1
          <6>1. inbox'[j] = read + 1 /\ inbox'[i] = inbox[i] /\ inbox[i] \in 1..read
            BY <4>1, <4>2, <5>1, <5>3
          <6> QED BY <2>3, <6>1
        <5> QED BY <4>1, <5>2, <5>3
      <4>4. \A i \in DOMAIN inbox' : inbox'[i] \in 1..read'
        BY <2>1, <2>3, <4>1, <4>2
      <4>5. \A e \in Made, i \in DOMAIN inbox' : e.reading < inbox'[i]
        <5> SUFFICES ASSUME NEW e \in Made, NEW i \in DOMAIN inbox' PROVE e.reading < inbox'[i]
          OBVIOUS
        <5>1. e.reading \in 1..read
          BY DEF Waiting
        <5>2. CASE i \in DOMAIN inbox
          BY <4>1, <5>2 DEF Waiting
        <5>3. CASE i = Len(inbox) + 1
          BY <2>3, <4>1, <5>1, <5>3
        <5> QED BY <4>1, <5>2, <5>3
      <4> QED BY <4>1, <4>3, <4>4, <4>5
    <3> QED BY <2>1, <3>1, <3>2
  <2>5. SensorTypes'
    BY <2>1, <2>3, <2>4 DEF SensorTypes
  <2>6. \A e \in Made : e.reading \in 1..read'
    BY <2>1, <2>3 DEF Waiting
  <2> QED BY <2>1, <2>2, <2>4, <2>5, <2>6 DEF Waiting, Stamped, Shown
<1>5. ASSUME S!OnMessage PROVE Goal
  <2>0. PICK x : x = [reading |-> Head(inbox), timestamp |-> time]
    OBVIOUS
  <2>1. /\ inbox # <<>> /\ inbox' = Tail(inbox) /\ loopq' = Append(loopq, x)
        /\ packed' = packed \cup {time} /\ tied' = (tied \/ time \in packed)
        /\ UNCHANGED <<time, read, mesh, meshEntry, merged>>
    BY <1>5, <2>0 DEF S!OnMessage, S!MqttPack, S!Notes
  <2>2. /\ inbox' \in Seq(Nat) /\ Head(inbox) \in Nat /\ 1 \in DOMAIN inbox /\ Head(inbox) = inbox[1]
        /\ \A i \in DOMAIN inbox' : i \in Nat /\ i + 1 \in DOMAIN inbox /\ 1 < i + 1 /\ inbox'[i] = inbox[i + 1]
    BY <2>1, TailItems DEF SensorTypes
  <2>3. x \in Entry /\ x.reading = inbox[1] /\ x.timestamp = time
    BY <2>0, <2>2 DEF Entry, SensorTypes
  <2>4. /\ loopq' \in Seq(Entry) /\ DOMAIN loopq' = 1..(Len(loopq) + 1) /\ DOMAIN loopq = 1..Len(loopq)
        /\ Len(loopq) \in Nat
        /\ loopq'[Len(loopq) + 1] = x /\ \A i \in DOMAIN loopq : loopq'[i] = loopq[i]
        /\ \A i \in DOMAIN loopq' : i = Len(loopq) + 1 \/ i \in DOMAIN loopq
    BY <2>1, <2>3, AppendItems DEF SensorTypes
  <2>5. \A e \in Made' : e \in Made \/ e = x
    BY <2>1, <2>4 DEF Made
  <2>6. SensorTypes'
    BY <2>1, <2>2, <2>4 DEF SensorTypes
  <2>7. \A e \in Made : e.reading < x.reading /\ e \in Entry
    <3>1. \A e \in Made : e.reading < x.reading
      BY <2>2, <2>3 DEF Waiting
    <3>2. \A i \in DOMAIN loopq : loopq[i] \in Entry
      BY DEF SensorTypes
    <3>3. \A e \in Made : e \in Entry
      BY <3>2 DEF Made, SensorTypes
    <3> QED BY <3>1, <3>3
  <2>8. Waiting'
    <3>1. \A i, j \in DOMAIN inbox' : i < j => inbox'[i] < inbox'[j]
      BY <2>2 DEF Waiting
    <3>2. \A i \in DOMAIN inbox' : inbox'[i] \in 1..read' /\ x.reading < inbox'[i]
      BY <2>1, <2>2, <2>3 DEF Waiting
    <3>3. x.reading \in 1..read'
      BY <2>1, <2>2, <2>3 DEF Waiting
    <3>4. \A e \in Made' : e.reading \in 1..read'
      BY <2>1, <2>5, <3>3 DEF Waiting
    <3>5. ASSUME NEW e \in Made', NEW i \in DOMAIN inbox' PROVE e.reading < inbox'[i]
      BY <2>2, <2>5, <3>2 DEF Waiting
    <3> QED BY <3>1, <3>2, <3>4, <3>5 DEF Waiting
  <2>9. Stamped'
    <3>1. \A t \in packed' : t <= time'
      BY <2>1 DEF Stamped, SensorTypes
    <3>2. \A e \in Made' : e.timestamp \in packed'
      BY <2>1, <2>3, <2>5 DEF Stamped
    <3>3. x.reading \in Nat /\ \A e \in Made : e.reading \in Nat /\ e.timestamp \in Nat
      BY <2>3, <2>7 DEF Entry
    <3>4. \A e, f \in Made' : e.reading = f.reading => e = f
      BY <2>5, <2>7, <3>3 DEF Stamped
    <3>5. ASSUME ~tied', NEW e \in Made', NEW f \in Made', e.reading < f.reading PROVE e.timestamp < f.timestamp
      <4>1. ~tied /\ \A g \in Made : g.timestamp < time
        <5>1. ~tied /\ time \notin packed
          BY <2>1, <3>5
        <5>2. ASSUME NEW g \in Made PROVE g.timestamp < time
          <6>1. g.timestamp \in packed /\ g.timestamp <= time /\ g.timestamp \in Nat /\ time \in Nat
            BY <3>3 DEF Stamped, SensorTypes
          <6> QED BY <5>1, <6>1
        <5> QED BY <5>1, <5>2
      <4>2. CASE e \in Made /\ f \in Made
        BY <3>5, <4>1, <4>2 DEF Stamped
      <4>3. CASE e \in Made /\ f = x
        BY <2>3, <4>1, <4>3
      <4>4. CASE e = x
        BY <2>5, <2>7, <3>3, <3>5, <4>4
      <4> QED BY <2>5, <4>2, <4>3, <4>4
    <3> QED BY <3>1, <3>2, <3>4, <3>5 DEF Stamped
  <2>10. Shown'
    BY <2>1 DEF Shown, SensorTypes
  <2> QED BY <2>6, <2>8, <2>9, <2>10
<1>6. ASSUME S!RunCallback PROVE Goal
  <2>1. /\ loopq # <<>> /\ loopq' = Tail(loopq) /\ mesh' = mesh \cup {Head(loopq)}
        /\ UNCHANGED <<time, read, inbox, meshEntry, merged, packed, tied>>
    BY <1>6 DEF S!RunCallback
  <2>2. /\ loopq' \in Seq(Entry) /\ Head(loopq) \in Entry /\ 1 \in DOMAIN loopq /\ Head(loopq) = loopq[1]
        /\ \A i \in DOMAIN loopq' : i + 1 \in DOMAIN loopq /\ loopq'[i] = loopq[i + 1]
    BY <2>1, TailItems DEF SensorTypes
  <2>3. \A e \in Made' : e \in Made
    BY <2>1, <2>2 DEF Made
  <2>4. SensorTypes'
    BY <2>1, <2>2 DEF SensorTypes
  <2>5. Waiting'
    BY <2>1, <2>3 DEF Waiting
  <2>6. Stamped'
    BY <2>1, <2>3 DEF Stamped
  <2>7. Shown'
    BY <2>1 DEF Shown
  <2> QED BY <2>4, <2>5, <2>6, <2>7
<1>7. ASSUME NEW e \in mesh, S!Merge(e) PROVE Goal
  <2>1. /\ meshEntry' = (IF \A f \in meshEntry : S!Beats(e, f) THEN {e} ELSE meshEntry)
        /\ merged' = merged \cup {e.reading}
        /\ UNCHANGED <<time, read, inbox, loopq, mesh, packed, tied>>
    BY <1>7 DEF S!Merge
  <2>2. Made' = Made /\ mesh \subseteq Made
    BY <2>1 DEF Made
  <2>3. \A f \in mesh : f.reading \in Nat /\ f.timestamp \in Nat /\ f.reading \in 1..Len(Value)
    <3>1. \A f \in mesh : f.reading \in Nat /\ f.timestamp \in Nat
      BY DEF SensorTypes, Entry
    <3>2. \A f \in mesh : f.reading \in 1..read
      BY <2>2 DEF Waiting
    <3> QED BY <1>0, <3>1, <3>2 DEF SensorTypes
  <2>4. SensorTypes' /\ Waiting' /\ Stamped'
    BY <2>1, <2>2, <2>3 DEF SensorTypes, Waiting, Stamped
  <2>5. ASSUME ~tied, NEW f \in mesh, S!Beats(e, f) PROVE f.reading < e.reading
    <3>1. CASE e.timestamp > f.timestamp
      BY <2>2, <2>3, <2>5, <3>1 DEF Stamped
    <3>2. CASE e.timestamp = f.timestamp /\ Value[e.reading] > Value[f.reading]
      <4>1. e.reading # f.reading
        <5>1. Value[e.reading] \in Nat
          BY <2>3, Ranks
        <5> QED BY <3>2, <5>1
      <4> QED BY <2>2, <2>3, <2>5, <3>2, <4>1 DEF Stamped
    <3> QED BY <2>5, <3>1, <3>2 DEF S!Beats
  <2>6. ASSUME ~tied, NEW f \in mesh, ~S!Beats(e, f) PROVE e.reading <= f.reading
    BY <2>2, <2>3, <2>6 DEF Stamped, S!Beats
  <2>7. Shown'
    <3> SUFFICES ASSUME ~tied
                 PROVE  /\ meshEntry' \subseteq mesh
                        /\ \A r \in merged' : \E f \in mesh : f.reading = r
                        /\ meshEntry' # {}
                        /\ \A f \in meshEntry' : f.reading \in merged' /\ \A r \in merged' : r <= f.reading
      BY <2>1 DEF Shown
    <3>1. \A r \in merged' : \E f \in mesh : f.reading = r
      BY <2>1 DEF Shown
    <3>2. CASE \A f \in meshEntry : S!Beats(e, f)
      <4>1. meshEntry' = {e}
        BY <2>1, <3>2
      <4>2. ASSUME NEW r \in merged PROVE r <= e.reading
        <5>1. PICK f \in meshEntry : r <= f.reading /\ f \in mesh
          BY DEF Shown
        <5>2. f.reading < e.reading
          BY <2>5, <3>2, <5>1
        <5> QED BY <2>3, <5>1, <5>2 DEF SensorTypes
      <4>3. \A r \in merged' : r <= e.reading
        BY <2>1, <2>3, <4>2
      <4> QED BY <2>1, <3>1, <4>1, <4>3
    <3>3. CASE ~\A f \in meshEntry : S!Beats(e, f)
      <4>1. meshEntry' = meshEntry /\ meshEntry # {} /\ meshEntry \subseteq mesh
        BY <2>1, <3>3 DEF Shown
      <4>2. PICK f \in meshEntry : e.reading <= f.reading
        BY <2>6, <3>3, <4>1
      <4>3. \A g \in meshEntry : g.reading \in merged /\ \A r \in merged : r <= g.reading
        BY DEF Shown
      <4>4. \A g \in meshEntry : e.reading <= g.reading
        BY <2>3, <4>1, <4>2, <4>3
      <4> QED BY <2>1, <3>1, <4>1, <4>3, <4>4
    <3> QED BY <3>2, <3>3
  <2> QED BY <2>4, <2>7
<1>8. ASSUME S!Tick PROVE Goal
  <2>1. time' = time + 1 /\ UNCHANGED <<read, inbox, loopq, mesh, meshEntry, merged, packed, tied>>
    BY <1>8 DEF S!Tick
  <2>2. Made' = Made
    BY <2>1 DEF Made
  <2>3. SensorTypes' /\ \A t \in packed : t <= time'
    BY <2>1 DEF SensorTypes, Stamped
  <2> QED BY <2>1, <2>2, <2>3 DEF Waiting, Stamped, Shown
<1>9. ~S!RosTelemetry
  BY DEF S!RosTelemetry
<1> HIDE DEF Goal
<1>10. Goal
  BY <1>1, <1>2, <1>3, <1>4, <1>5, <1>6, <1>7, <1>8, <1>9 DEF S!Next
<1> QED BY <1>10 DEF Goal, SensorInv

\* MQTT: unless two readings were packed in one millisecond, the receiver's entry is that
\* of the latest reading that reached it, for any number of readings, reconnects,
\* restarts, repetitions and any order of the broadcasts.
THEOREM AdapterLatestShown == ServicesSpec => []LatestShown
<1>1. ServicesInit => SensorInv
  BY SensorInit DEF ServicesInit
<1>2. SensorInv /\ [ServicesNext]_allVars => SensorInv'
  BY SensorStep, OneComponent
<1>3. SensorInv => LatestShown
  <2> SUFFICES ASSUME SensorInv, bridge = "mqtt", ~tied, NEW f \in meshEntry PROVE f.reading = S!Max(merged)
    BY DEF LatestShown, S!LatestShown
  <2>1. f.reading \in merged /\ (\A r \in merged : r <= f.reading) /\ merged \subseteq Nat
    BY DEF SensorInv, Shown, SensorTypes
  <2>2. ASSUME NEW x \in merged, \A y \in merged : x >= y PROVE x = f.reading
    <3>1. x >= f.reading /\ x <= f.reading /\ x \in Nat /\ f.reading \in Nat
      BY <2>1, <2>2
    <3> QED BY <3>1
  <2>3. \E x \in merged : \A y \in merged : x >= y
    BY <2>1
  <2> QED BY <2>2, <2>3 DEF S!Max
<1> QED BY <1>1, <1>2, <1>3, PTL DEF ServicesSpec

-----------------------------------------------------------------------------
(* CAN *)

CanTypes ==
    /\ bus \in 0..MaxSessions /\ sessions \in 0..MaxSessions /\ frames \in Nat
    /\ DOMAIN thread = C!Session /\ rx \in [C!Session -> Seq(Nat)]
    /\ ready \in Seq(C!Session \X Nat) /\ given \in Seq(C!Session \X Nat \X Nat)

\* Only the thread of the current bus runs.
Readers ==
    /\ \A s \in C!Session : C!Alive(s) => s = bus
    /\ stopping => bus # 0

\* A session's frames are in order from its bus over the event loop to its callback,
\* and a frame still to come is after all of them.
InOrder ==
    /\ \A i, j \in DOMAIN given : i < j /\ given[i][1] = given[j][1] => given[i][2] < given[j][2]
    /\ \A i, j \in DOMAIN ready : i < j /\ ready[i][1] = ready[j][1] => ready[i][2] < ready[j][2]
    /\ \A s \in C!Session : \A i, j \in DOMAIN rx[s] : i < j => rx[s][i] < rx[s][j]
    /\ \A i \in DOMAIN given, j \in DOMAIN ready : given[i][1] = ready[j][1] => given[i][2] < ready[j][2]
    /\ \A i \in DOMAIN given : \A j \in DOMAIN rx[given[i][1]] : given[i][2] < rx[given[i][1]][j]
    /\ \A i \in DOMAIN ready : \A j \in DOMAIN rx[ready[i][1]] : ready[i][2] < rx[ready[i][1]][j]
    /\ \A i \in DOMAIN given : given[i][2] <= frames
    /\ \A i \in DOMAIN ready : ready[i][2] <= frames
    /\ \A s \in C!Session : \A i \in DOMAIN rx[s] : rx[s][i] <= frames

CanInv == CanTypes /\ Readers /\ InOrder

LEMMA CanInit == C!Init => CanInv
<1> SUFFICES ASSUME C!Init PROVE CanInv
  OBVIOUS
<1>1. /\ stopping = FALSE /\ bus = 0 /\ sessions = 0 /\ frames = 0 /\ ready = <<>> /\ given = <<>>
      /\ thread = [s \in C!Session |-> "none"] /\ rx = [s \in C!Session |-> <<>>]
  BY DEF C!Init
<1>2. CanTypes
  <2>1. rx \in [C!Session -> Seq(Nat)] /\ ready \in Seq(C!Session \X Nat) /\ given \in Seq(C!Session \X Nat \X Nat)
    BY <1>1
  <2> QED BY <1>1, <2>1, BusAssumption DEF CanTypes
<1>3. Readers
  BY <1>1 DEF Readers, C!Alive
<1>4. InOrder
  BY <1>1 DEF InOrder
<1> QED BY <1>2, <1>3, <1>4 DEF CanInv

\* The threads and the bus.
LEMMA ReadersStep ==
    ASSUME JoinSuffices, CanTypes, Readers, C!Next \/ UNCHANGED canVars
    PROVE  Readers' /\ bus' \in 0..MaxSessions /\ sessions' \in 0..MaxSessions /\ DOMAIN thread' = C!Session
<1>0. /\ bus \in 0..MaxSessions /\ sessions \in 0..MaxSessions /\ DOMAIN thread = C!Session /\ MaxSessions \in Nat
      /\ C!Session = 1..MaxSessions
  BY BusAssumption DEF CanTypes, C!Session
<1>1. CASE C!StartListening
  <2>1. /\ ~stopping /\ UNCHANGED stopping /\ bus = 0 /\ sessions < MaxSessions /\ sessions' = sessions + 1
        /\ bus' = sessions + 1 /\ thread' = [thread EXCEPT ![sessions + 1] = "testing"]
    BY <1>1 DEF C!StartListening
  <2>2. sessions + 1 \in C!Session /\ 0 \notin C!Session
    BY <1>0, <2>1
  <2>3. \A s \in C!Session : C!Alive(s)' => s = bus'
    BY <1>0, <2>1, <2>2 DEF Readers, C!Alive
  <2> QED BY <1>0, <2>1, <2>2, <2>3 DEF Readers
<1>2. ASSUME NEW s \in C!Session, C!ThreadTests(s) \/ C!ThreadReads(s) \/ C!ThreadIdles(s)
      PROVE  Readers' /\ UNCHANGED <<bus, sessions>> /\ DOMAIN thread' = C!Session
  <2>1. /\ C!Alive(s) /\ UNCHANGED <<bus, sessions, stopping>>
        /\ \E p : thread' = [thread EXCEPT ![s] = p]
    BY <1>2 DEF C!ThreadTests, C!ThreadReads, C!ThreadIdles, C!Alive
  <2> QED BY <1>0, <2>1 DEF Readers, C!Alive
<1>3. CASE C!StopBegin
  BY <1>0, <1>3 DEF C!StopBegin, Readers, C!Alive
<1>4. CASE C!StopEnd
  <2>1. /\ stopping /\ thread[bus] = "dead" /\ bus' = 0 /\ stopping' = FALSE /\ UNCHANGED <<thread, sessions>>
    BY <1>4 DEF C!StopEnd
  <2>2. \A s \in C!Session : ~C!Alive(s)
    BY <2>1 DEF Readers, C!Alive
  <2> QED BY <1>0, <2>1, <2>2 DEF Readers, C!Alive
<1>5. CASE C!DispatchFrame \/ C!Frame \/ UNCHANGED canVars
  BY <1>0, <1>5 DEF C!DispatchFrame, C!Frame, canVars, Readers, C!Alive
<1> QED BY <1>0, <1>1, <1>2, <1>3, <1>4, <1>5 DEF C!Next

\* The frames.
LEMMA InOrderStep ==
    ASSUME CanTypes, InOrder, C!Next \/ UNCHANGED canVars
    PROVE  /\ InOrder' /\ frames' \in Nat /\ rx' \in [C!Session -> Seq(Nat)]
           /\ ready' \in Seq(C!Session \X Nat) /\ given' \in Seq(C!Session \X Nat \X Nat)
<1> DEFINE Types == /\ frames' \in Nat /\ rx' \in [C!Session -> Seq(Nat)]
                    /\ ready' \in Seq(C!Session \X Nat) /\ given' \in Seq(C!Session \X Nat \X Nat)
<1>0. /\ frames \in Nat /\ rx \in [C!Session -> Seq(Nat)]
      /\ ready \in Seq(C!Session \X Nat) /\ given \in Seq(C!Session \X Nat \X Nat)
  BY DEF CanTypes
<1>G. \A i \in DOMAIN given : /\ given[i][1] \in C!Session /\ given[i][2] \in Nat /\ given[i][2] <= frames
                              /\ \A j \in DOMAIN rx[given[i][1]] : given[i][2] < rx[given[i][1]][j]
  <2>1. \A i \in DOMAIN given : given[i] \in C!Session \X Nat \X Nat
    BY <1>0
  <2> QED BY <2>1 DEF InOrder
<1>R. \A i \in DOMAIN ready : /\ ready[i][1] \in C!Session /\ ready[i][2] \in Nat /\ ready[i][2] <= frames
                              /\ \A j \in DOMAIN rx[ready[i][1]] : ready[i][2] < rx[ready[i][1]][j]
  <2>1. \A i \in DOMAIN ready : ready[i] \in C!Session \X Nat
    BY <1>0
  <2> QED BY <2>1 DEF InOrder
<1>1. CASE UNCHANGED <<frames, rx, ready, given>>
  BY <1>0, <1>1 DEF InOrder
<1>2. ASSUME NEW s \in C!Session, C!ThreadReads(s) PROVE InOrder' /\ Types
  <2>0. PICK q, x : q = rx[s] /\ x = <<s, Head(rx[s])>>
    OBVIOUS
  <2>1. /\ q # <<>> /\ q \in Seq(Nat) /\ rx' = [rx EXCEPT ![s] = Tail(q)] /\ ready' = Append(ready, x)
        /\ UNCHANGED <<frames, given>>
    BY <1>0, <1>2, <2>0 DEF C!ThreadReads
  <2>2. /\ Tail(q) \in Seq(Nat) /\ Head(q) \in Nat /\ 1 \in DOMAIN q /\ Head(q) = q[1]
        /\ \A i \in DOMAIN Tail(q) : i \in Nat /\ i + 1 \in DOMAIN q /\ 1 < i + 1 /\ Tail(q)[i] = q[i + 1]
    BY <2>1, TailItems
  <2>3. x \in C!Session \X Nat /\ x[1] = s /\ x[2] = q[1]
    BY <2>0, <2>2
  <2>4. /\ ready' \in Seq(C!Session \X Nat) /\ Len(ready) \in Nat /\ DOMAIN ready = 1..Len(ready)
        /\ DOMAIN ready' = 1..(Len(ready) + 1)
        /\ ready'[Len(ready) + 1] = x /\ \A i \in DOMAIN ready : ready'[i] = ready[i]
        /\ \A i \in DOMAIN ready' : i = Len(ready) + 1 \/ i \in DOMAIN ready
    BY <1>0, <2>1, <2>3, AppendItems
  <2>5. /\ rx' \in [C!Session -> Seq(Nat)] /\ rx'[s] = Tail(q)
        /\ \A t \in C!Session \ {s} : rx'[t] = rx[t]
    BY <1>0, <2>1, <2>2
  <2>6. \A t \in C!Session : \A i \in DOMAIN rx'[t] :
            \E j \in DOMAIN rx[t] : rx'[t][i] = rx[t][j] /\ (t = s => 1 < j)
    BY <2>0, <2>2, <2>5
  <2>7. \A i \in DOMAIN ready : ready[i] \in C!Session \X Nat
    BY <1>0
  <2>8. \A i \in DOMAIN given : given[i] \in C!Session \X Nat \X Nat
    BY <1>0
  <2>9. \A i, j \in DOMAIN ready' : i < j /\ ready'[i][1] = ready'[j][1] => ready'[i][2] < ready'[j][2]
    <3> SUFFICES ASSUME NEW i \in DOMAIN ready', NEW j \in DOMAIN ready', i < j, ready'[i][1] = ready'[j][1]
                 PROVE  ready'[i][2] < ready'[j][2]
      OBVIOUS
    <3>1. i \in DOMAIN ready
      BY <2>4
    <3>2. CASE j \in DOMAIN ready
      BY <2>4, <3>1, <3>2 DEF InOrder
    <3>3. CASE j = Len(ready) + 1
      <4>1. ready[i][1] = s /\ ready[i][2] < rx[s][1]
        <5>1. ready'[j] = x /\ ready'[i] = ready[i]
          BY <2>4, <3>1, <3>3
        <5>2. ready[i][1] = s
          BY <2>3, <5>1
        <5> QED BY <1>R, <2>0, <2>2, <3>1, <5>2
      <4> QED BY <2>0, <2>3, <2>4, <3>1, <3>3, <4>1
    <3> QED BY <2>4, <3>2, <3>3
  <2>10. \A t \in C!Session : \A i, j \in DOMAIN rx'[t] : i < j => rx'[t][i] < rx'[t][j]
    <3>1. \A i, j \in DOMAIN Tail(q) : i < j => Tail(q)[i] < Tail(q)[j]
      <4> SUFFICES ASSUME NEW i \in DOMAIN Tail(q), NEW j \in DOMAIN Tail(q), i < j PROVE Tail(q)[i] < Tail(q)[j]
        OBVIOUS
      <4>1. i + 1 \in DOMAIN q /\ j + 1 \in DOMAIN q /\ i + 1 < j + 1 /\ Tail(q)[i] = q[i + 1] /\ Tail(q)[j] = q[j + 1]
        BY <2>2
      <4> QED BY <2>0, <4>1 DEF InOrder
    <3> QED BY <2>5, <3>1 DEF InOrder
  <2>11. \A i \in DOMAIN given, j \in DOMAIN ready' : given[i][1] = ready'[j][1] => given[i][2] < ready'[j][2]
    <3> SUFFICES ASSUME NEW i \in DOMAIN given, NEW j \in DOMAIN ready', given[i][1] = ready'[j][1]
                 PROVE  given[i][2] < ready'[j][2]
      OBVIOUS
    <3>1. CASE j \in DOMAIN ready
      BY <2>4, <3>1 DEF InOrder
    <3>2. CASE j = Len(ready) + 1
      <4>1. given[i][1] = s /\ given[i][2] < rx[s][1]
        <5>1. given[i][1] = s
          BY <2>3, <2>4, <3>2
        <5> QED BY <1>G, <2>0, <2>2, <5>1
      <4> QED BY <2>0, <2>3, <2>4, <3>2, <4>1
    <3> QED BY <2>4, <3>1, <3>2
  <2>12. \A i \in DOMAIN given : \A j \in DOMAIN rx'[given[i][1]] : given[i][2] < rx'[given[i][1]][j]
    BY <2>6, <2>8 DEF InOrder
  <2>13. \A i \in DOMAIN ready' : \A j \in DOMAIN rx'[ready'[i][1]] : ready'[i][2] < rx'[ready'[i][1]][j]
    <3> SUFFICES ASSUME NEW i \in DOMAIN ready', NEW j \in DOMAIN rx'[ready'[i][1]]
                 PROVE  ready'[i][2] < rx'[ready'[i][1]][j]
      OBVIOUS
    <3>1. CASE i \in DOMAIN ready
      <4>1. ready'[i] = ready[i] /\ ready[i][1] \in C!Session
        BY <1>R, <2>4, <3>1
      <4>2. PICK k \in DOMAIN rx[ready[i][1]] : rx'[ready[i][1]][j] = rx[ready[i][1]][k]
        BY <2>6, <4>1
      <4> QED BY <1>R, <3>1, <4>1, <4>2
    <3>2. CASE i = Len(ready) + 1
      <4>1. ready'[i][1] = s /\ ready'[i][2] = rx[s][1] /\ 1 \in DOMAIN rx[s]
        BY <2>0, <2>2, <2>3, <2>4, <3>2
      <4>2. PICK k \in DOMAIN rx[s] : rx'[s][j] = rx[s][k] /\ 1 < k
        BY <2>6, <4>1
      <4> QED BY <4>1, <4>2 DEF InOrder
    <3> QED BY <2>4, <3>1, <3>2
  <2>14. \A i \in DOMAIN ready' : ready'[i][2] <= frames
    BY <2>0, <2>2, <2>3, <2>4 DEF InOrder
  <2>15. \A t \in C!Session : \A i \in DOMAIN rx'[t] : rx'[t][i] <= frames
    BY <2>6 DEF InOrder
  <2>16. Types
    BY <1>0, <2>1, <2>4, <2>5
  <2>17. InOrder'
    BY <2>1, <2>9, <2>10, <2>11, <2>12, <2>13, <2>14, <2>15 DEF InOrder
  <2> QED BY <2>16, <2>17
<1>3. CASE C!DispatchFrame
  <2>0. PICK x, y : x = Head(ready) /\ y = <<x[1], x[2], Len(given) + 1>>
    OBVIOUS
  <2>1. /\ ready # <<>> /\ ready' = Tail(ready) /\ given' = Append(given, y) /\ UNCHANGED <<frames, rx>>
    BY <1>3, <2>0 DEF C!DispatchFrame, C!Pack
  <2>2. /\ ready' \in Seq(C!Session \X Nat) /\ x \in C!Session \X Nat /\ 1 \in DOMAIN ready /\ x = ready[1]
        /\ \A i \in DOMAIN ready' : i \in Nat /\ i + 1 \in DOMAIN ready /\ 1 < i + 1 /\ ready'[i] = ready[i + 1]
    BY <1>0, <2>0, <2>1, TailItems
  <2>3. y \in C!Session \X Nat \X Nat /\ y[1] = x[1] /\ y[2] = x[2]
    <3>1. Len(given) + 1 \in Nat
      BY <1>0, LenProperties
    <3>2. x[1] \in C!Session /\ x[2] \in Nat
      BY <2>2
    <3> QED BY <2>0, <3>1, <3>2
  <2>4. /\ given' \in Seq(C!Session \X Nat \X Nat) /\ Len(given) \in Nat /\ DOMAIN given = 1..Len(given)
        /\ DOMAIN given' = 1..(Len(given) + 1)
        /\ given'[Len(given) + 1] = y /\ \A i \in DOMAIN given : given'[i] = given[i]
        /\ \A i \in DOMAIN given' : i = Len(given) + 1 \/ i \in DOMAIN given
    <3>1. PICK A : A = C!Session \X Nat \X Nat
      OBVIOUS
    <3>2. given \in Seq(A) /\ y \in A
      BY <1>0, <2>3, <3>1
    <3>3. /\ given' \in Seq(A) /\ Len(given) \in Nat /\ DOMAIN given = 1..Len(given)
          /\ DOMAIN given' = 1..(Len(given) + 1)
          /\ given'[Len(given) + 1] = y /\ \A i \in DOMAIN given : given'[i] = given[i]
          /\ \A i \in DOMAIN given' : i = Len(given) + 1 \/ i \in DOMAIN given
      BY <2>1, <3>2, AppendItems
    <3> QED BY <3>1, <3>3
  <2>5. \A i, j \in DOMAIN given' : i < j /\ given'[i][1] = given'[j][1] => given'[i][2] < given'[j][2]
    <3> SUFFICES ASSUME NEW i \in DOMAIN given', NEW j \in DOMAIN given', i < j, given'[i][1] = given'[j][1]
                 PROVE  given'[i][2] < given'[j][2]
      OBVIOUS
    <3>1. i \in DOMAIN given
      BY <2>4
    <3>2. CASE j \in DOMAIN given
      BY <2>4, <3>1, <3>2 DEF InOrder
    <3>3. CASE j = Len(given) + 1
      <4>1. given[i][1] = ready[1][1] /\ given'[j][2] = ready[1][2]
        BY <2>2, <2>3, <2>4, <3>1, <3>3
      <4> QED BY <2>2, <2>4, <3>1, <4>1 DEF InOrder
    <3> QED BY <2>4, <3>2, <3>3
  <2>6. \A i, j \in DOMAIN ready' : i < j /\ ready'[i][1] = ready'[j][1] => ready'[i][2] < ready'[j][2]
    <3> SUFFICES ASSUME NEW i \in DOMAIN ready', NEW j \in DOMAIN ready', i < j, ready'[i][1] = ready'[j][1]
                 PROVE  ready'[i][2] < ready'[j][2]
      OBVIOUS
    <3>1. /\ i + 1 \in DOMAIN ready /\ j + 1 \in DOMAIN ready /\ i + 1 < j + 1
          /\ ready'[i] = ready[i + 1] /\ ready'[j] = ready[j + 1]
      BY <2>2
    <3> QED BY <3>1 DEF InOrder
  <2>7. \A i \in DOMAIN given', j \in DOMAIN ready' : given'[i][1] = ready'[j][1] => given'[i][2] < ready'[j][2]
    <3> SUFFICES ASSUME NEW i \in DOMAIN given', NEW j \in DOMAIN ready', given'[i][1] = ready'[j][1]
                 PROVE  given'[i][2] < ready'[j][2]
      OBVIOUS
    <3>0. j + 1 \in DOMAIN ready /\ 1 < j + 1 /\ ready'[j] = ready[j + 1]
      BY <2>2
    <3>1. CASE i \in DOMAIN given
      BY <2>4, <3>0, <3>1 DEF InOrder
    <3>2. CASE i = Len(given) + 1
      <4>1. given'[i][1] = ready[1][1] /\ given'[i][2] = ready[1][2]
        BY <2>2, <2>3, <2>4, <3>2
      <4> QED BY <2>2, <3>0, <4>1 DEF InOrder
    <3> QED BY <2>4, <3>1, <3>2
  <2>8. \A i \in DOMAIN given' : \A j \in DOMAIN rx[given'[i][1]] : given'[i][2] < rx[given'[i][1]][j]
    BY <2>2, <2>3, <2>4 DEF InOrder
  <2>9. \A i \in DOMAIN ready' : \A j \in DOMAIN rx[ready'[i][1]] : ready'[i][2] < rx[ready'[i][1]][j]
    BY <2>2 DEF InOrder
  <2>10. (\A i \in DOMAIN given' : given'[i][2] <= frames) /\ \A i \in DOMAIN ready' : ready'[i][2] <= frames
    BY <2>2, <2>3, <2>4 DEF InOrder
  <2>11. Types
    BY <1>0, <2>1, <2>2, <2>4
  <2>12. InOrder'
    BY <2>1, <2>5, <2>6, <2>7, <2>8, <2>9, <2>10 DEF InOrder
  <2> QED BY <2>11, <2>12
<1>4. CASE C!Frame
  <2>1. /\ frames' = frames + 1 /\ UNCHANGED <<ready, given>>
        /\ rx' = [s \in C!Session |-> IF s \in open THEN Append(rx[s], frames + 1) ELSE rx[s]]
    BY <1>4 DEF C!Frame
  <2>2. frames + 1 \in Nat
    BY <1>0
  <2>3. ASSUME NEW s \in C!Session
        PROVE  /\ rx'[s] \in Seq(Nat) /\ DOMAIN rx[s] \subseteq Nat /\ DOMAIN rx'[s] \subseteq Nat
               /\ \A i \in DOMAIN rx'[s] : \/ i \in DOMAIN rx[s] /\ rx'[s][i] = rx[s][i]
                                           \/ rx'[s][i] = frames + 1 /\ \A j \in DOMAIN rx'[s] : j <= i
    <3>1. CASE rx'[s] = rx[s]
      BY <1>0, <3>1, LenProperties
    <3>2. CASE rx'[s] = Append(rx[s], frames + 1)
      BY <1>0, <2>2, <3>2, AppendItems
    <3> QED BY <2>1, <3>1, <3>2
  <2>4. \A s \in C!Session : \A i \in DOMAIN rx[s] : rx[s][i] \in Nat /\ rx[s][i] <= frames
    BY <1>0 DEF InOrder
  <2>7. \A s \in C!Session : \A i, j \in DOMAIN rx'[s] : i < j => rx'[s][i] < rx'[s][j]
    <3> SUFFICES ASSUME NEW s \in C!Session, NEW i \in DOMAIN rx'[s], NEW j \in DOMAIN rx'[s], i < j
                 PROVE  rx'[s][i] < rx'[s][j]
      OBVIOUS
    <3>1. i \in Nat /\ j \in Nat /\ i \in DOMAIN rx[s] /\ rx'[s][i] = rx[s][i]
      BY <2>3
    <3>2. CASE j \in DOMAIN rx[s] /\ rx'[s][j] = rx[s][j]
      BY <3>1, <3>2 DEF InOrder
    <3>3. CASE rx'[s][j] = frames + 1
      BY <1>0, <2>4, <3>1, <3>3
    <3> QED BY <2>3, <3>2, <3>3
  <2>8. \A i \in DOMAIN given : \A j \in DOMAIN rx'[given[i][1]] : given[i][2] < rx'[given[i][1]][j]
    <3> SUFFICES ASSUME NEW i \in DOMAIN given, NEW j \in DOMAIN rx'[given[i][1]]
                 PROVE  given[i][2] < rx'[given[i][1]][j]
      OBVIOUS
    <3>1. CASE rx'[given[i][1]][j] = frames + 1
      BY <1>0, <1>G, <3>1
    <3>2. CASE j \in DOMAIN rx[given[i][1]] /\ rx'[given[i][1]][j] = rx[given[i][1]][j]
      BY <1>G, <3>2
    <3> QED BY <1>G, <2>3, <3>1, <3>2
  <2>9. \A i \in DOMAIN ready : \A j \in DOMAIN rx'[ready[i][1]] : ready[i][2] < rx'[ready[i][1]][j]
    <3> SUFFICES ASSUME NEW i \in DOMAIN ready, NEW j \in DOMAIN rx'[ready[i][1]]
                 PROVE  ready[i][2] < rx'[ready[i][1]][j]
      OBVIOUS
    <3>1. CASE rx'[ready[i][1]][j] = frames + 1
      BY <1>0, <1>R, <3>1
    <3>2. CASE j \in DOMAIN rx[ready[i][1]] /\ rx'[ready[i][1]][j] = rx[ready[i][1]][j]
      BY <1>R, <3>2
    <3> QED BY <1>R, <2>3, <3>1, <3>2
  <2>10. \A s \in C!Session : \A i \in DOMAIN rx'[s] : rx'[s][i] <= frames'
    <3> SUFFICES ASSUME NEW s \in C!Session, NEW i \in DOMAIN rx'[s] PROVE rx'[s][i] <= frames + 1
      BY <2>1
    <3>1. CASE rx'[s][i] = frames + 1
      BY <2>2, <3>1
    <3>2. CASE i \in DOMAIN rx[s] /\ rx'[s][i] = rx[s][i]
      BY <1>0, <2>4, <3>2
    <3> QED BY <2>3, <3>1, <3>2
  <2>11. (\A i \in DOMAIN given : given[i][2] <= frames') /\ \A i \in DOMAIN ready : ready[i][2] <= frames'
    <3>1. ASSUME NEW x \in Nat, x <= frames PROVE x <= frames'
      BY <1>0, <2>1, <3>1
    <3>2. \A i \in DOMAIN given : given[i][2] \in Nat /\ given[i][2] <= frames
      BY <1>G
    <3>3. \A i \in DOMAIN ready : ready[i][2] \in Nat /\ ready[i][2] <= frames
      BY <1>R
    <3> QED BY <3>1, <3>2, <3>3
  <2>12. Types
    BY <1>0, <2>1, <2>2, <2>3
  <2>13. InOrder'
    BY <2>1, <2>7, <2>8, <2>9, <2>10, <2>11 DEF InOrder
  <2> QED BY <2>12, <2>13
<1>5. ASSUME \/ C!StartListening \/ C!StopBegin \/ C!StopEnd \/ UNCHANGED canVars
             \/ \E s \in C!Session : C!ThreadTests(s) \/ C!ThreadIdles(s)
      PROVE  UNCHANGED <<frames, rx, ready, given>>
  BY <1>5 DEF C!StartListening, C!StopBegin, C!StopEnd, canVars, C!ThreadTests, C!ThreadIdles
<1> QED BY <1>1, <1>2, <1>3, <1>4, <1>5 DEF C!Next

\* CAN: when the join of stop_listening outlasts recv, no thread of an earlier session is
\* left for the next start_listening to revive, and each session's callback gets the
\* frames of its bus in order, none twice.
THEOREM AdapterOneReader == JoinSuffices /\ ServicesSpec => []OneReader
<1> SUFFICES ASSUME JoinSuffices PROVE ServicesSpec => []OneReader
  OBVIOUS
<1>1. ServicesInit => CanInv
  BY CanInit DEF ServicesInit
<1>2. CanInv /\ [ServicesNext]_allVars => CanInv'
  <2> SUFFICES ASSUME CanInv, [ServicesNext]_allVars PROVE CanInv'
    OBVIOUS
  <2>1. C!Next \/ UNCHANGED canVars
    BY OneComponent
  <2> QED BY <2>1, ReadersStep, InOrderStep DEF CanInv, CanTypes
<1>3. CanInv => OneReader
  BY DEF CanInv, Readers, InOrder, OneReader, C!OneReader
<1> QED BY <1>1, <1>2, <1>3, PTL DEF ServicesSpec

-----------------------------------------------------------------------------
(* Modbus: poll_registers *)

Sample == Nat \X Nat \X Nat

\* Sample a comes before register o of cycle n.
Before(a, n, o) == a[1] < n \/ (a[1] = n /\ a[2] < o)

\* A record of the poll loop; it is over at the beginning and after max_polls cycles.
Polling(p) ==
    /\ p.offset \in Nat /\ p.offset < Registers /\ p.cycles \in Nat /\ p.clock \in Nat /\ p.emitted \in Seq(Sample)
    /\ IF p.pc = "off" THEN p.cycles \in {0, MaxPolls} ELSE p.cycles < MaxPolls

\* What has been packed comes before the register that is read next.
Past(p) == \A i \in DOMAIN p.emitted : p.emitted[i][3] <= p.clock /\ Before(p.emitted[i], p.cycles, p.offset)

Sequential(q) ==
    \A i, j \in DOMAIN q : i < j => q[i][3] < q[j][3] /\ Before(q[i], q[j][1], q[j][2])

PollFields == {"pc", "offset", "cycles", "clock", "emitted"}
PollInv == DOMAIN poll = PollFields /\ Polling(poll) /\ Past(poll) /\ Sequential(poll.emitted)

LEMMA PollInit == M!Init => PollInv
<1> SUFFICES ASSUME M!Init PROVE PollInv
  OBVIOUS
<1>1. /\ DOMAIN poll = PollFields /\ poll.pc = "off" /\ poll.offset = 0 /\ poll.cycles = 0 /\ poll.clock = 0
      /\ poll.emitted = <<>>
  BY DEF M!Init, PollFields
<1>2. <<>> \in Seq(Sample) /\ DOMAIN <<>> = {}
  OBVIOUS
<1> QED BY <1>1, <1>2, PollAssumption DEF PollInv, Polling, Past, Sequential

\* The loop goes on to the next register, which comes after the last one.
LEMMA Advances ==
    ASSUME NEW p, NEW q, q = M!Advance(p), DOMAIN p = PollFields, Polling(p), p.pc # "off"
    PROVE  /\ DOMAIN q = PollFields /\ Polling(q) /\ q.emitted = p.emitted /\ q.clock = p.clock
           /\ \A n, o \in Nat : n < p.cycles \/ (n = p.cycles /\ o <= p.offset)
                                => n < q.cycles \/ (n = q.cycles /\ o < q.offset)
<1>0. Registers \in Nat \ {0} /\ MaxPolls \in Nat \ {0}
  BY PollAssumption
<1>1. /\ p.offset \in Nat /\ p.offset < Registers /\ p.cycles \in Nat /\ p.cycles < MaxPolls
      /\ p.clock \in Nat /\ p.emitted \in Seq(Sample)
  BY DEF Polling
<1>2. PICK n : n = IF p.offset + 1 < Registers THEN p.cycles ELSE p.cycles + 1
  OBVIOUS
<1>3. q = [p EXCEPT !.offset = IF n = p.cycles THEN @ + 1 ELSE 0, !.cycles = n,
                    !.pc = IF n = p.cycles THEN M!Reads ELSE IF n < MaxPolls THEN "sleeping" ELSE "off"]
  BY <1>2 DEF M!Advance
<1>4. /\ DOMAIN q = PollFields /\ q.emitted = p.emitted /\ q.clock = p.clock /\ q.cycles = n
      /\ q.offset = (IF n = p.cycles THEN p.offset + 1 ELSE 0)
      /\ q.pc = (IF n = p.cycles THEN M!Reads ELSE IF n < MaxPolls THEN "sleeping" ELSE "off")
  BY <1>3 DEF PollFields
<1>5. CASE p.offset + 1 < Registers
  <2>1. q.cycles = p.cycles /\ q.offset = p.offset + 1 /\ q.pc # "off"
    BY <1>2, <1>4, <1>5 DEF M!Reads
  <2>2. Polling(q)
    BY <1>1, <1>4, <1>5, <2>1 DEF Polling
  <2> QED BY <1>1, <1>4, <2>1, <2>2
<1>6. CASE ~(p.offset + 1 < Registers)
  <2>1. /\ q.cycles = p.cycles + 1 /\ q.offset = 0
        /\ q.pc = (IF p.cycles + 1 < MaxPolls THEN "sleeping" ELSE "off")
    BY <1>1, <1>2, <1>4, <1>6
  <2>2. Polling(q)
    BY <1>0, <1>1, <1>4, <2>1 DEF Polling
  <2> QED BY <1>1, <1>4, <2>1, <2>2
<1> QED BY <1>5, <1>6

LEMMA PollStep == PollInv /\ (M!Next \/ UNCHANGED modbusVars) => PollInv'
<1> SUFFICES ASSUME PollInv, M!Next \/ UNCHANGED modbusVars PROVE PollInv'
  OBVIOUS
<1>0. /\ DOMAIN poll = PollFields /\ Polling(poll) /\ poll.emitted \in Seq(Sample) /\ poll.clock \in Nat
      /\ poll.cycles \in Nat /\ poll.offset \in Nat /\ Past(poll) /\ Sequential(poll.emitted)
  BY DEF PollInv, Polling
<1>1. ASSUME NEW p, p \in Seq(Sample), NEW i \in DOMAIN p PROVE p[i][1] \in Nat /\ p[i][2] \in Nat /\ p[i][3] \in Nat
  BY <1>1 DEF Sample
<1>2. ASSUME NEW s, poll' = [poll EXCEPT !.pc = s], s # "off",
             poll.pc # "off" \/ poll.cycles = 0
      PROVE  PollInv'
  <2>1. /\ DOMAIN poll' = PollFields /\ poll'.pc = s /\ poll'.offset = poll.offset /\ poll'.cycles = poll.cycles
        /\ poll'.clock = poll.clock /\ poll'.emitted = poll.emitted
    BY <1>0, <1>2 DEF PollFields
  <2>2. Polling(poll')
    BY <1>0, <1>2, <2>1, PollAssumption DEF Polling
  <2>3. Past(poll')
    BY <1>0, <2>1 DEF Past
  <2> QED BY <1>0, <2>1, <2>2, <2>3 DEF PollInv, Polling, Past
<1>3. CASE M!PollFailed
  <2>1. poll' = M!Advance(poll) /\ poll.pc # "off"
    BY <1>3 DEF M!PollFailed
  <2>2. /\ DOMAIN poll' = PollFields /\ Polling(poll') /\ poll'.emitted = poll.emitted /\ poll'.clock = poll.clock
        /\ \A n, o \in Nat : n < poll.cycles \/ (n = poll.cycles /\ o <= poll.offset)
                                => n < poll'.cycles \/ (n = poll'.cycles /\ o < poll'.offset)
    BY <1>0, <2>1, Advances
  <2>3. Past(poll')
    <3> SUFFICES ASSUME NEW i \in DOMAIN poll.emitted
                 PROVE  poll.emitted[i][3] <= poll.clock /\ Before(poll.emitted[i], poll'.cycles, poll'.offset)
      BY <2>2 DEF Past
    <3>1. /\ poll.emitted[i][3] <= poll.clock /\ Before(poll.emitted[i], poll.cycles, poll.offset)
          /\ poll.emitted[i][1] \in Nat /\ poll.emitted[i][2] \in Nat
      BY <1>0, <1>1 DEF Past
    <3> QED BY <1>0, <2>2, <3>1 DEF Before
  <2> QED BY <1>0, <2>2, <2>3 DEF PollInv, Polling, Past
<1>4. CASE M!PollRead
  <2>1. poll.pc = "reading" /\ poll' = M!Advance(M!Pack(poll))
    BY <1>4 DEF M!PollRead
  <2>2. PICK p, e : p = M!Pack(poll) /\ e = <<poll.cycles, poll.offset, poll.clock + 1>>
    OBVIOUS
  <2>3. e \in Sample /\ e[1] = poll.cycles /\ e[2] = poll.offset /\ e[3] = poll.clock + 1
    BY <1>0, <2>2 DEF Sample
  <2>4. /\ DOMAIN p = PollFields /\ p.pc = poll.pc /\ p.offset = poll.offset /\ p.cycles = poll.cycles
        /\ p.clock = poll.clock + 1 /\ p.emitted = Append(poll.emitted, e)
    BY <1>0, <2>2 DEF M!Pack, PollFields
  <2>5. PICK q, k : q = Append(poll.emitted, e) /\ k = Len(poll.emitted)
    OBVIOUS
  <2>6. /\ q \in Seq(Sample) /\ k \in Nat /\ DOMAIN poll.emitted = 1..k /\ DOMAIN q = 1..(k + 1) /\ q[k + 1] = e
        /\ \A i \in DOMAIN poll.emitted : q[i] = poll.emitted[i]
        /\ \A i \in DOMAIN q : i = k + 1 \/ i \in DOMAIN poll.emitted
    BY <1>0, <2>3, <2>5, AppendItems
  <2>7. Polling(p)
    BY <1>0, <2>1, <2>4, <2>5, <2>6 DEF Polling
  <2>8. /\ DOMAIN poll' = PollFields /\ Polling(poll') /\ poll'.emitted = q /\ poll'.clock = poll.clock + 1
        /\ \A n, o \in Nat : n < poll.cycles \/ (n = poll.cycles /\ o <= poll.offset)
                                => n < poll'.cycles \/ (n = poll'.cycles /\ o < poll'.offset)
    <3>1. p.pc # "off" /\ poll' = M!Advance(p)
      BY <2>1, <2>2, <2>4
    <3>2. /\ DOMAIN poll' = PollFields /\ Polling(poll') /\ poll'.emitted = p.emitted /\ poll'.clock = p.clock
          /\ \A n, o \in Nat : n < p.cycles \/ (n = p.cycles /\ o <= p.offset)
                                  => n < poll'.cycles \/ (n = poll'.cycles /\ o < poll'.offset)
      BY <2>4, <2>7, <3>1, Advances
    <3> QED BY <2>4, <2>5, <3>2
  <2>9. Past(poll')
    <3> SUFFICES ASSUME NEW i \in DOMAIN q
                 PROVE  q[i][3] <= poll.clock + 1 /\ Before(q[i], poll'.cycles, poll'.offset)
      BY <2>8 DEF Past
    <3>1. CASE i = k + 1
      BY <1>0, <2>3, <2>6, <2>8, <3>1 DEF Before
    <3>2. CASE i \in DOMAIN poll.emitted
      <4>1. /\ q[i] = poll.emitted[i] /\ q[i][3] <= poll.clock /\ Before(q[i], poll.cycles, poll.offset)
            /\ q[i][1] \in Nat /\ q[i][2] \in Nat /\ q[i][3] \in Nat
        BY <1>0, <1>1, <2>6, <3>2 DEF Past
      <4>2. q[i][3] <= poll.clock + 1
        BY <1>0, <4>1
      <4> QED BY <1>0, <2>8, <4>1, <4>2 DEF Before
    <3> QED BY <2>6, <3>1, <3>2
  <2>10. Sequential(q)
    <3> SUFFICES ASSUME NEW i \in DOMAIN q, NEW j \in DOMAIN q, i < j
                 PROVE  q[i][3] < q[j][3] /\ Before(q[i], q[j][1], q[j][2])
      BY DEF Sequential
    <3>0. i \in DOMAIN poll.emitted
      BY <2>6
    <3>1. CASE j = k + 1
      <4>1. /\ q[i][3] <= poll.clock /\ Before(q[i], poll.cycles, poll.offset) /\ q[i][3] \in Nat
        BY <1>0, <1>1, <2>6, <3>0 DEF Past
      <4> QED BY <1>0, <2>3, <2>6, <3>1, <4>1
    <3>2. CASE j \in DOMAIN poll.emitted
      BY <1>0, <2>6, <3>0, <3>2 DEF Sequential
    <3> QED BY <2>6, <3>1, <3>2
  <2> QED BY <2>8, <2>9, <2>10 DEF PollInv, Polling, Past
<1>5. CASE M!BeginPoll
  BY <1>2, <1>5 DEF M!BeginPoll
<1>6. CASE M!PollConnected \/ M!PollWakes
  BY <1>2, <1>6 DEF M!PollConnected, M!PollWakes, M!Reads
<1>7. CASE poll' = poll
  BY <1>0, <1>7 DEF PollInv, Polling, Past
<1>8. ASSUME M!Next \/ UNCHANGED modbusVars, ~M!PollRead, ~M!PollFailed, ~M!BeginPoll, ~M!PollConnected, ~M!PollWakes
      PROVE  poll' = poll
  BY <1>8 DEF M!Next, modbusVars, M!WriteOffline, M!BeginWrite, M!WriteOk, M!WriteFailed, M!BeginDrain, M!Retry,
              M!Connect, M!Disconnect, M!LinkChanges, M!Connected
<1> QED BY <1>3, <1>4, <1>5, <1>6, <1>7, <1>8

\* Modbus: poll_registers ends only after max_polls cycles, however the link comes
\* and goes, and packs its samples in the order of cycle and register, no logical
\* clock value twice.
THEOREM AdapterPollsOn == ServicesSpec => []PollsOn
<1>1. ServicesInit => PollInv
  BY PollInit DEF ServicesInit
<1>2. PollInv /\ [ServicesNext]_allVars => PollInv'
  <2> SUFFICES ASSUME PollInv, [ServicesNext]_allVars PROVE PollInv'
    OBVIOUS
  <2>1. M!Next \/ UNCHANGED modbusVars
    BY OneComponent
  <2> QED BY <2>1, PollStep
<1>3. PollInv => PollsOn
  BY DEF PollInv, Polling, Sequential, Before, PollsOn, M!PollsOn
<1> QED BY <1>1, <1>2, <1>3, PTL DEF ServicesSpec

-----------------------------------------------------------------------------
(* Modbus: the retry queue *)

NoRepeat(q) == \A i, j \in DOMAIN q : q[i] = q[j] => i = j

Somewhere(c) ==
    \/ c \in M!Elements(queue) \cup written \cup dropped
    \/ \E t \in M!Tasks : c \in M!Elements(task[t].todo) \cup M!Elements(task[t].rest)

\* Whatever the calls do, a drain has no more in its hands than the queue holds.
RetryTypes ==
    /\ queue \in Seq(Command) /\ Len(queue) <= MaxQueue
    /\ DOMAIN task = M!Tasks /\ overlapped \in BOOLEAN
    /\ \A t \in M!Tasks : /\ DOMAIN task[t] = {"pc", "todo", "rest"}
                          /\ task[t].todo \in Seq(Command) /\ task[t].rest \in Seq(Command)
                          /\ Len(task[t].rest) + Len(task[t].todo) <= MaxQueue
                          /\ IF task[t].pc = "draining" THEN task[t].todo # <<>>
                             ELSE task[t].todo = <<>> /\ task[t].rest = <<>>

\* A drain holds different commands, each given up by its own call, and all that
\* the queue still shows and has not been written.
Handed(t) ==
    /\ NoRepeat(task[t].todo) /\ NoRepeat(task[t].rest)
    /\ M!Elements(task[t].todo) \cap M!Elements(task[t].rest) = {}
    /\ \A c \in M!Elements(task[t].todo) \cup M!Elements(task[t].rest) : task[c].pc = "false"
    /\ M!Elements(queue) \subseteq M!Elements(task[t].todo) \cup M!Elements(task[t].rest) \cup written

InTurn ==
    /\ \A t, u \in M!Tasks : M!Busy(t) /\ M!Busy(u) => t = u
    /\ \A c \in failed : Somewhere(c)
    /\ NoRepeat(queue)
    /\ \A c \in M!Elements(queue) : task[c].pc = "false"
    /\ \A t \in M!Tasks : task[t].pc = "draining" => Handed(t)

RetryInv == RetryTypes /\ (~overlapped => InTurn)

LEMMA AppendElements ==
    ASSUME NEW q \in Seq(Command), NEW c \in Command
    PROVE  /\ Append(q, c) \in Seq(Command) /\ Len(Append(q, c)) = Len(q) + 1 /\ Len(q) \in Nat
           /\ M!Elements(Append(q, c)) = M!Elements(q) \cup {c}
           /\ NoRepeat(q) /\ c \notin M!Elements(q) => NoRepeat(Append(q, c))
<1>1. PICK a, n : a = Append(q, c) /\ n = Len(q)
  OBVIOUS
<1>2. /\ a \in Seq(Command) /\ n \in Nat /\ Len(a) = n + 1 /\ DOMAIN a = 1..(n + 1) /\ DOMAIN q = 1..n
      /\ a[n + 1] = c /\ (\A i \in DOMAIN q : a[i] = q[i]) /\ \A i \in DOMAIN a : i = n + 1 \/ i \in DOMAIN q
  BY <1>1, AppendItems
<1>3. n + 1 \in DOMAIN a /\ DOMAIN q \subseteq DOMAIN a
  BY <1>2
<1>4. M!Elements(a) = M!Elements(q) \cup {c}
  BY <1>2, <1>3 DEF M!Elements
<1>5. ASSUME NoRepeat(q), c \notin M!Elements(q) PROVE NoRepeat(a)
  BY <1>2, <1>3, <1>5 DEF NoRepeat, M!Elements
<1> QED BY <1>1, <1>2, <1>4, <1>5

LEMMA TailElements ==
    ASSUME NEW q \in Seq(Command), q # <<>>
    PROVE  /\ Tail(q) \in Seq(Command) /\ Head(q) \in Command /\ Len(Tail(q)) + 1 = Len(q) /\ Len(Tail(q)) \in Nat
           /\ M!Elements(q) = M!Elements(Tail(q)) \cup {Head(q)}
           /\ NoRepeat(q) => NoRepeat(Tail(q)) /\ Head(q) \notin M!Elements(Tail(q))
<1>1. PICK a, h, n : a = Tail(q) /\ h = Head(q) /\ n = Len(q)
  OBVIOUS
<1>2. /\ a \in Seq(Command) /\ h \in Command /\ 1 \in DOMAIN q /\ h = q[1] /\ n \in Nat \ {0} /\ Len(a) = n - 1
      /\ DOMAIN a = 1..(n - 1) /\ DOMAIN q = 1..n
      /\ \A i \in DOMAIN a : i \in Nat /\ i + 1 \in DOMAIN q /\ 1 < i + 1 /\ a[i] = q[i + 1]
      /\ \A i \in DOMAIN q : i = 1 \/ (i - 1 \in DOMAIN a /\ a[i - 1] = q[i])
  BY <1>1, TailItems
<1>3. M!Elements(q) = M!Elements(a) \cup {h}
  <2>1. ASSUME NEW x \in M!Elements(q) PROVE x \in M!Elements(a) \cup {h}
    BY <1>2 DEF M!Elements
  <2>2. ASSUME NEW x \in M!Elements(a) PROVE x \in M!Elements(q)
    BY <1>2 DEF M!Elements
  <2>3. h \in M!Elements(q)
    BY <1>2 DEF M!Elements
  <2> QED BY <2>1, <2>2, <2>3
<1>4. ASSUME NoRepeat(q) PROVE NoRepeat(a) /\ h \notin M!Elements(a)
  <2>1. NoRepeat(a)
    <3> SUFFICES ASSUME NEW i \in DOMAIN a, NEW j \in DOMAIN a, a[i] = a[j] PROVE i = j
      BY DEF NoRepeat
    <3>1. i \in Nat /\ j \in Nat /\ i + 1 \in DOMAIN q /\ j + 1 \in DOMAIN q /\ q[i + 1] = q[j + 1]
      BY <1>2
    <3>2. i + 1 = j + 1
      BY <1>4, <3>1 DEF NoRepeat
    <3> QED BY <3>1, <3>2
  <2>2. h \notin M!Elements(a)
    BY <1>2, <1>4 DEF NoRepeat, M!Elements
  <2> QED BY <2>1, <2>2
<1> QED BY <1>1, <1>2, <1>3, <1>4

LEMMA ConcatElements ==
    ASSUME NEW p \in Seq(Command), NEW q \in Seq(Command)
    PROVE  /\ p \o q \in Seq(Command) /\ Len(p \o q) = Len(p) + Len(q)
           /\ M!Elements(p \o q) = M!Elements(p) \cup M!Elements(q)
           /\ NoRepeat(p) /\ NoRepeat(q) /\ M!Elements(p) \cap M!Elements(q) = {} => NoRepeat(p \o q)
<1>1. PICK a, m, n : a = p \o q /\ m = Len(p) /\ n = Len(q)
  OBVIOUS
<1>2. /\ a \in Seq(Command) /\ m \in Nat /\ n \in Nat /\ Len(a) = m + n
      /\ DOMAIN a = 1..(m + n) /\ DOMAIN p = 1..m /\ DOMAIN q = 1..n
  BY <1>1, ConcatProperties, LenProperties
<1>3. \A i \in 1..(m + n) : a[i] = IF i <= m THEN p[i] ELSE q[i - m]
  BY <1>1, ConcatProperties
<1>4. \A i \in DOMAIN a : (i \in DOMAIN p /\ a[i] = p[i]) \/ (i - m \in DOMAIN q /\ a[i] = q[i - m])
  BY <1>2, <1>3
<1>5. (\A i \in DOMAIN p : i \in DOMAIN a /\ a[i] = p[i]) /\ \A i \in DOMAIN q : m + i \in DOMAIN a /\ a[m + i] = q[i]
  BY <1>2, <1>3
<1>6. M!Elements(a) = M!Elements(p) \cup M!Elements(q)
  <2>1. ASSUME NEW x \in M!Elements(a) PROVE x \in M!Elements(p) \cup M!Elements(q)
    BY <1>4 DEF M!Elements
  <2>2. ASSUME NEW x \in M!Elements(p) \cup M!Elements(q) PROVE x \in M!Elements(a)
    BY <1>5 DEF M!Elements
  <2> QED BY <2>1, <2>2
<1>7. ASSUME NoRepeat(p), NoRepeat(q), M!Elements(p) \cap M!Elements(q) = {} PROVE NoRepeat(a)
  <2> SUFFICES ASSUME NEW i \in DOMAIN a, NEW j \in DOMAIN a, a[i] = a[j] PROVE i = j
    BY DEF NoRepeat
  <2>1. CASE i \in DOMAIN p /\ a[i] = p[i] /\ j \in DOMAIN p /\ a[j] = p[j]
    BY <1>7, <2>1 DEF NoRepeat
  <2>2. CASE i - m \in DOMAIN q /\ a[i] = q[i - m] /\ j - m \in DOMAIN q /\ a[j] = q[j - m]
    <3>1. i - m = j - m
      BY <1>7, <2>2 DEF NoRepeat
    <3> QED BY <1>2, <3>1
  <2>3. CASE i \in DOMAIN p /\ a[i] = p[i] /\ j - m \in DOMAIN q /\ a[j] = q[j - m]
    BY <1>7, <2>3 DEF M!Elements
  <2>4. CASE j \in DOMAIN p /\ a[j] = p[j] /\ i - m \in DOMAIN q /\ a[i] = q[i - m]
    BY <1>7, <2>4 DEF M!Elements
  <2> QED BY <1>4, <2>1, <2>2, <2>3, <2>4
<1> QED BY <1>1, <1>2, <1>6, <1>7

\* _requeue: the command is in the queue, or dropped.
LEMMA Requeued ==
    ASSUME NEW c \in Command, NEW q \in Seq(Command), Len(q) <= MaxQueue, M!Requeue(c, q)
    PROVE  /\ queue' \in Seq(Command) /\ Len(queue') <= MaxQueue
           /\ M!Elements(q) \subseteq M!Elements(queue') /\ M!Elements(queue') \subseteq M!Elements(q) \cup {c}
           /\ c \in M!Elements(queue') \cup dropped' /\ dropped \subseteq dropped' /\ failed' = failed \cup {c}
           /\ NoRepeat(q) /\ c \notin M!Elements(q) => NoRepeat(queue')
<1>0. MaxQueue \in Nat /\ Len(q) \in Nat
  BY PollAssumption, LenProperties
<1>1. CASE Len(q) < MaxQueue
  <2>1. queue' = Append(q, c) /\ dropped' = dropped /\ failed' = failed \cup {c}
    BY <1>1 DEF M!Requeue
  <2> QED BY <1>0, <1>1, <2>1, AppendElements
<1>2. CASE ~(Len(q) < MaxQueue)
  <2>1. queue' = q /\ dropped' = dropped \cup {c} /\ failed' = failed \cup {c}
    BY <1>2 DEF M!Requeue
  <2> QED BY <2>1
<1> QED BY <1>1, <1>2

LEMMA RetryInit == M!Init => RetryInv
<1> SUFFICES ASSUME M!Init PROVE RetryInv
  OBVIOUS
<1>1. /\ queue = <<>> /\ task = [t \in M!Tasks |-> M!At("ready", <<>>, <<>>)] /\ failed = {} /\ overlapped = FALSE
  BY DEF M!Init
<1>2. \A t \in M!Tasks : /\ DOMAIN task[t] = {"pc", "todo", "rest"} /\ task[t].pc = "ready"
                         /\ task[t].todo = <<>> /\ task[t].rest = <<>>
  BY <1>1 DEF M!At
<1>3. <<>> \in Seq(Command) /\ Len(<<>>) = 0 /\ 0 + 0 <= MaxQueue /\ 0 <= MaxQueue
  BY PollAssumption
<1>4. RetryTypes
  BY <1>1, <1>2, <1>3 DEF RetryTypes
<1>5. InTurn
  BY <1>1, <1>2 DEF InTurn, M!Busy, NoRepeat, M!Elements
<1> QED BY <1>4, <1>5 DEF RetryInv

\* What RetryTypes says of the commands in a queue and of a call that drains nothing.
LEMMA Queued ==
    ASSUME RetryTypes
    PROVE  /\ \A q \in Seq(Command) : M!Elements(q) \subseteq Command
           /\ Command \subseteq M!Tasks
           /\ \A t \in M!Tasks : task[t].pc # "draining" =>
                  M!Elements(task[t].todo) = {} /\ M!Elements(task[t].rest) = {}
<1>1. \A q \in Seq(Command) : M!Elements(q) \subseteq Command
  BY DEF M!Elements
<1>2. M!Elements(<<>>) = {}
  BY DEF M!Elements
<1> QED BY <1>1, <1>2 DEF RetryTypes, M!Tasks

LEMMA TaskSet ==
    ASSUME RetryTypes, NEW t \in M!Tasks, NEW p, NEW a, NEW b, task' = [task EXCEPT ![t] = M!At(p, a, b)]
    PROVE  /\ DOMAIN task' = M!Tasks /\ DOMAIN task'[t] = {"pc", "todo", "rest"}
           /\ task'[t].pc = p /\ task'[t].todo = a /\ task'[t].rest = b
           /\ \A u \in M!Tasks \ {t} : task'[u] = task[u]
<1>1. DOMAIN task = M!Tasks
  BY DEF RetryTypes
<1>2. task'[t] = M!At(p, a, b) /\ DOMAIN task' = M!Tasks /\ \A u \in M!Tasks \ {t} : task'[u] = task[u]
  BY <1>1
<1> QED BY <1>2 DEF M!At

\* One call moves on.
LEMMA TypesKept ==
    ASSUME RetryTypes, NEW t \in M!Tasks, DOMAIN task' = M!Tasks, DOMAIN task'[t] = {"pc", "todo", "rest"},
           \A u \in M!Tasks \ {t} : task'[u] = task[u],
           queue' \in Seq(Command), Len(queue') <= MaxQueue, overlapped' \in BOOLEAN,
           task'[t].todo \in Seq(Command), task'[t].rest \in Seq(Command),
           Len(task'[t].rest) + Len(task'[t].todo) <= MaxQueue,
           IF task'[t].pc = "draining" THEN task'[t].todo # <<>> ELSE task'[t].todo = <<>> /\ task'[t].rest = <<>>
    PROVE  RetryTypes'
BY DEF RetryTypes

\* The only call in progress moves on.
LEMMA TurnKept ==
    ASSUME NEW t \in M!Tasks, \A u \in M!Tasks \ {t} : task'[u] = task[u] /\ ~M!Busy(u),
           NoRepeat(queue'), \A c \in M!Elements(queue') : task'[c].pc = "false",
           \A c \in failed' : Somewhere(c)', task'[t].pc = "draining" => Handed(t)'
    PROVE  InTurn'
<1>1. \A u \in M!Tasks \ {t} : ~M!Busy(u)' /\ task'[u].pc # "draining"
  BY DEF M!Busy
<1>2. NoRepeat(queue)' /\ \A c \in M!Elements(queue)' : task'[c].pc = "false"
  BY DEF NoRepeat, M!Elements
<1> QED BY <1>1, <1>2 DEF InTurn

\* Where a failed command is while nothing is being drained.
LEMMA AtRest ==
    ASSUME RetryTypes, InTurn, \A t \in M!Tasks : task[t].pc # "draining"
    PROVE  \A c \in failed : c \in M!Elements(queue) \cup written \cup dropped
BY Queued DEF InTurn, Somewhere

\* A command that is given up is queued or dropped: c is the only call in
\* progress and q what is left of the queue.
LEMMA GivenUp ==
    ASSUME RetryTypes, NEW c \in Command, NEW q \in Seq(Command), Len(q) <= MaxQueue, M!Requeue(c, q),
           DOMAIN task' = M!Tasks, DOMAIN task'[c] = {"pc", "todo", "rest"},
           task'[c].pc = "false", task'[c].todo = <<>>, task'[c].rest = <<>>,
           \A u \in M!Tasks \ {c} : task'[u] = task[u], overlapped' \in BOOLEAN
    PROVE  /\ RetryTypes'
           /\ /\ \A u \in M!Tasks \ {c} : ~M!Busy(u)
              /\ NoRepeat(q) /\ \A x \in M!Elements(q) : x # c /\ task[x].pc = "false"
              /\ \A x \in failed : x \in M!Elements(q) \cup written' \cup dropped
              => InTurn'
<1>1. /\ queue' \in Seq(Command) /\ Len(queue') <= MaxQueue
      /\ M!Elements(q) \subseteq M!Elements(queue') /\ M!Elements(queue') \subseteq M!Elements(q) \cup {c}
      /\ c \in M!Elements(queue') \cup dropped' /\ dropped \subseteq dropped' /\ failed' = failed \cup {c}
      /\ NoRepeat(q) /\ c \notin M!Elements(q) => NoRepeat(queue')
  BY Requeued
<1>2. c \in M!Tasks /\ M!Elements(q) \subseteq M!Tasks
  BY Queued
<1>3. /\ task'[c].todo \in Seq(Command) /\ task'[c].rest \in Seq(Command)
      /\ Len(task'[c].rest) + Len(task'[c].todo) <= MaxQueue /\ task'[c].pc # "draining"
  <2>1. <<>> \in Seq(Command) /\ Len(<<>>) + Len(<<>>) <= MaxQueue
    BY PollAssumption
  <2> QED BY <2>1
<1>4. RetryTypes'
  BY <1>1, <1>2, <1>3, TypesKept
<1>5. ASSUME \A u \in M!Tasks \ {c} : ~M!Busy(u), NoRepeat(q),
             \A x \in M!Elements(q) : x # c /\ task[x].pc = "false",
             \A x \in failed : x \in M!Elements(q) \cup written' \cup dropped
      PROVE  InTurn'
  <2>1. NoRepeat(queue') /\ \A x \in M!Elements(queue') : task'[x].pc = "false"
    BY <1>1, <1>2, <1>5
  <2>2. \A x \in failed' : x \in M!Elements(queue') \cup written' \cup dropped'
    BY <1>1, <1>5
  <2>3. \A x \in failed' : Somewhere(x)'
    BY <2>2 DEF Somewhere, M!Elements
  <2> QED BY <1>2, <1>5, <2>1, <2>3, TurnKept
<1> QED BY <1>4, <1>5

\* A call starts: with nothing else in progress, or the calls overlap.
LEMMA OfflineStep == ASSUME RetryInv, NEW c \in Command, M!WriteOffline(c) PROVE RetryInv'
<1>1. /\ RetryTypes /\ task[c].pc = "ready" /\ M!Requeue(c, queue) /\ written' = written
      /\ overlapped' = (overlapped \/ \E u \in M!Tasks : M!Busy(u))
      /\ task' = [task EXCEPT ![c] = M!At("false", <<>>, <<>>)]
  BY DEF RetryInv, M!WriteOffline, M!Starts
<1>2. /\ queue \in Seq(Command) /\ Len(queue) <= MaxQueue /\ c \in M!Tasks /\ overlapped' \in BOOLEAN
  BY <1>1 DEF RetryTypes, M!Tasks
<1>3. /\ DOMAIN task' = M!Tasks /\ DOMAIN task'[c] = {"pc", "todo", "rest"}
      /\ task'[c].pc = "false" /\ task'[c].todo = <<>> /\ task'[c].rest = <<>>
      /\ \A u \in M!Tasks \ {c} : task'[u] = task[u]
  BY <1>1, <1>2, TaskSet
<1>4. ASSUME ~overlapped'
      PROVE  /\ \A u \in M!Tasks \ {c} : ~M!Busy(u)
             /\ NoRepeat(queue) /\ \A x \in M!Elements(queue) : x # c /\ task[x].pc = "false"
             /\ \A x \in failed : x \in M!Elements(queue) \cup written' \cup dropped
  <2>1. ~overlapped /\ InTurn /\ \A u \in M!Tasks : ~M!Busy(u)
    BY <1>1, <1>4 DEF RetryInv
  <2>2. \A x \in failed : x \in M!Elements(queue) \cup written \cup dropped
    BY <1>1, <2>1, AtRest DEF M!Busy
  <2> QED BY <1>1, <2>1, <2>2 DEF InTurn
<1> QED BY <1>1, <1>2, <1>3, <1>4, GivenUp DEF RetryInv

LEMMA BeginStep ==
    ASSUME RetryInv, NEW t \in M!Tasks, M!Starts(t), UNCHANGED <<queue, written, dropped, failed>>,
           \/ task' = [task EXCEPT ![t] = M!At("writing", <<>>, <<>>)]
           \/ queue # <<>> /\ task' = [task EXCEPT ![t] = M!At("draining", queue, <<>>)]
    PROVE  RetryInv'
<1>1. PICK p, a : /\ task' = [task EXCEPT ![t] = M!At(p, a, <<>>)]
                  /\ (p = "writing" /\ a = <<>>) \/ (p = "draining" /\ a = queue /\ a # <<>>)
  OBVIOUS
<1>2. /\ RetryTypes /\ task[t].pc = "ready" /\ queue \in Seq(Command) /\ Len(queue) <= MaxQueue
      /\ overlapped' = (overlapped \/ \E u \in M!Tasks : M!Busy(u)) /\ overlapped' \in BOOLEAN
  BY DEF RetryInv, RetryTypes, M!Starts
<1>3. /\ DOMAIN task' = M!Tasks /\ DOMAIN task'[t] = {"pc", "todo", "rest"}
      /\ task'[t].pc = p /\ task'[t].todo = a /\ task'[t].rest = <<>>
      /\ \A u \in M!Tasks \ {t} : task'[u] = task[u]
  BY <1>1, <1>2, TaskSet
<1>4. /\ task'[t].todo \in Seq(Command) /\ task'[t].rest \in Seq(Command)
      /\ Len(task'[t].rest) + Len(task'[t].todo) <= MaxQueue
  <2>1. <<>> \in Seq(Command) /\ Len(<<>>) = 0 /\ Len(queue) \in Nat /\ MaxQueue \in Nat
    BY <1>2, PollAssumption, LenProperties
  <2>2. CASE a = <<>>
    BY <1>3, <2>1, <2>2
  <2>3. CASE a = queue
    BY <1>2, <1>3, <2>1, <2>3
  <2> QED BY <1>1, <2>2, <2>3
<1>5. RetryTypes'
  BY <1>1, <1>2, <1>3, <1>4, TypesKept
<1>6. ASSUME ~overlapped' PROVE InTurn'
  <2>1. ~overlapped /\ InTurn /\ \A u \in M!Tasks : ~M!Busy(u)
    BY <1>2, <1>6 DEF RetryInv
  <2>2. \A x \in failed : x \in M!Elements(queue) \cup written \cup dropped
    BY <1>2, <2>1, AtRest DEF M!Busy
  <2>3. \A x \in failed' : Somewhere(x)'
    BY <2>2 DEF Somewhere
  <2>4. M!Elements(queue) \subseteq M!Tasks
    BY <1>2, Queued
  <2>5. \A x \in M!Elements(queue) : x # t /\ task'[x].pc = "false"
    BY <1>2, <1>3, <2>1, <2>4 DEF InTurn
  <2>6. ASSUME p = "draining" PROVE Handed(t)'
    <3>1. task'[t].todo = queue /\ task'[t].rest = <<>> /\ queue' = queue
      BY <1>1, <1>3, <2>6
    <3>2. NoRepeat(<<>>) /\ M!Elements(<<>>) = {}
      BY DEF NoRepeat, M!Elements
    <3>3. NoRepeat(queue)
      BY <2>1 DEF InTurn
    <3> QED BY <2>5, <3>1, <3>2, <3>3 DEF Handed
  <2>7. NoRepeat(queue') /\ \A c \in M!Elements(queue') : task'[c].pc = "false"
    BY <2>1, <2>5 DEF InTurn
  <2> QED BY <1>3, <2>1, <2>3, <2>6, <2>7, TurnKept
<1> QED BY <1>5, <1>6 DEF RetryInv

\* A call's own write, which only follows when nothing is left to drain.
LEMMA WriteStep ==
    ASSUME RetryInv, NEW c \in Command, M!WriteOk(c) \/ M!WriteFailed(c)
    PROVE  RetryInv'
<1>1. RetryTypes /\ c \in M!Tasks /\ task[c].pc = "writing" /\ overlapped' = overlapped
  BY DEF RetryInv, M!Tasks, M!WriteOk, M!WriteFailed
<1>2. /\ queue \in Seq(Command) /\ Len(queue) <= MaxQueue /\ overlapped' \in BOOLEAN
      /\ DOMAIN task = M!Tasks /\ DOMAIN task[c] = {"pc", "todo", "rest"} /\ task[c].todo = <<>> /\ task[c].rest = <<>>
  BY <1>1 DEF RetryTypes
<1>3. PICK p : /\ (p = "true" /\ M!WriteOk(c)) \/ (p = "false" /\ M!WriteFailed(c))
               /\ task' = [task EXCEPT ![c].pc = p]
  BY DEF M!WriteOk, M!WriteFailed
<1>4. /\ DOMAIN task' = M!Tasks /\ DOMAIN task'[c] = {"pc", "todo", "rest"}
      /\ task'[c].pc = p /\ task'[c].todo = <<>> /\ task'[c].rest = <<>>
      /\ \A u \in M!Tasks \ {c} : task'[u] = task[u]
  BY <1>1, <1>2, <1>3
<1>5. ASSUME ~overlapped'
      PROVE  /\ \A u \in M!Tasks \ {c} : ~M!Busy(u)
             /\ NoRepeat(queue) /\ \A x \in M!Elements(queue) : x # c /\ task[x].pc = "false"
             /\ \A x \in failed : x \in M!Elements(queue) \cup written \cup dropped
  <2>1. InTurn
    BY <1>1, <1>5 DEF RetryInv
  <2>2. \A u \in M!Tasks \ {c} : ~M!Busy(u)
    BY <1>1, <2>1 DEF InTurn, M!Busy
  <2>3. \A u \in M!Tasks : task[u].pc # "draining"
    BY <1>1, <2>2 DEF M!Busy
  <2>4. \A x \in failed : x \in M!Elements(queue) \cup written \cup dropped
    BY <1>1, <2>1, <2>3, AtRest
  <2> QED BY <1>1, <2>1, <2>2, <2>4 DEF InTurn
<1>6. CASE p = "false" /\ M!WriteFailed(c)
  <2>1. M!Requeue(c, queue) /\ written' = written /\ p = "false"
    BY <1>6 DEF M!WriteFailed
  <2> QED BY <1>1, <1>2, <1>4, <1>5, <2>1, GivenUp DEF RetryInv
<1>7. CASE p = "true" /\ M!WriteOk(c)
  <2>1. written' = written \cup {c} /\ UNCHANGED <<queue, dropped, failed>> /\ p = "true"
    BY <1>7 DEF M!WriteOk
  <2>2. /\ task'[c].todo \in Seq(Command) /\ task'[c].rest \in Seq(Command)
        /\ Len(task'[c].rest) + Len(task'[c].todo) <= MaxQueue
    <3>1. <<>> \in Seq(Command) /\ Len(<<>>) + Len(<<>>) <= MaxQueue
      BY PollAssumption
    <3> QED BY <1>4, <3>1
  <2>3. RetryTypes'
    BY <1>1, <1>2, <1>4, <2>1, <2>2, TypesKept
  <2>4. ASSUME ~overlapped' PROVE InTurn'
    <3>1. \A x \in failed' : Somewhere(x)'
      BY <1>5, <2>1, <2>4 DEF Somewhere
    <3>2. M!Elements(queue) \subseteq M!Tasks
      BY <1>1, <1>2, Queued
    <3>3. NoRepeat(queue') /\ \A x \in M!Elements(queue') : task'[x].pc = "false"
      BY <1>4, <1>5, <2>1, <2>4, <3>2
    <3> QED BY <1>1, <1>4, <1>5, <2>1, <2>4, <3>1, <3>3, TurnKept
  <2> QED BY <2>3, <2>4 DEF RetryInv
<1> QED BY <1>3, <1>6, <1>7

\* One retry of a drain: its command is written, or among those that failed again,
\* and is in the hands of the drain no longer twice.
LEMMA Retried ==
    ASSUME RetryTypes, NEW t \in M!Tasks, NEW ok \in BOOLEAN, task[t].pc = "draining"
    PROVE  LET x == Head(task[t].todo)
               a == Tail(task[t].todo)
               b == M!Remaining(t, ok)
           IN  /\ x \in Command /\ a \in Seq(Command) /\ b \in Seq(Command) /\ Len(b) + Len(a) <= MaxQueue
               /\ M!Elements(task[t].todo) = M!Elements(a) \cup {x}
               /\ M!Elements(b) = M!Elements(task[t].rest) \cup (IF ok THEN {} ELSE {x})
               /\ Handed(t) => NoRepeat(a) /\ NoRepeat(b) /\ M!Elements(a) \cap M!Elements(b) = {}
<1>0. PICK x, a, b : x = Head(task[t].todo) /\ a = Tail(task[t].todo) /\ b = M!Remaining(t, ok)
  OBVIOUS
<1>1. PICK d, r : d = task[t].todo /\ r = task[t].rest
  OBVIOUS
<1>2. d \in Seq(Command) /\ r \in Seq(Command) /\ Len(r) + Len(d) <= MaxQueue /\ d # <<>> /\ MaxQueue \in Nat
  BY <1>1, PollAssumption DEF RetryTypes
<1>3. /\ a \in Seq(Command) /\ x \in Command /\ Len(a) + 1 = Len(d) /\ Len(a) \in Nat
      /\ M!Elements(d) = M!Elements(a) \cup {x}
      /\ NoRepeat(d) => NoRepeat(a) /\ x \notin M!Elements(a)
  BY <1>0, <1>1, <1>2, TailElements
<1>4. /\ b = (IF ok THEN r ELSE Append(r, x)) /\ Len(r) \in Nat
  BY <1>0, <1>1, <1>2, LenProperties DEF M!Remaining
<1>5. /\ Append(r, x) \in Seq(Command) /\ Len(Append(r, x)) = Len(r) + 1
      /\ M!Elements(Append(r, x)) = M!Elements(r) \cup {x}
      /\ NoRepeat(r) /\ x \notin M!Elements(r) => NoRepeat(Append(r, x))
  BY <1>2, <1>3, AppendElements
<1>6. Handed(t) => NoRepeat(d) /\ NoRepeat(r) /\ M!Elements(d) \cap M!Elements(r) = {}
  BY <1>1 DEF Handed
<1>L. Len(r) + Len(a) <= MaxQueue /\ (Len(r) + 1) + Len(a) <= MaxQueue
  <2>1. ASSUME NEW l \in Nat, NEW m \in Nat, l + (m + 1) <= MaxQueue
        PROVE  l + m <= MaxQueue /\ (l + 1) + m <= MaxQueue
    BY <1>2, <2>1
  <2>2. Len(r) + (Len(a) + 1) <= MaxQueue
    BY <1>2, <1>3
  <2> QED BY <1>3, <1>4, <2>1, <2>2
<1>7. CASE ok
  <2>1. b = r
    BY <1>4, <1>7
  <2> QED BY <1>L, <1>0, <1>1, <1>2, <1>3, <1>6, <1>7, <2>1
<1>8. CASE ~ok
  <2>1. b = Append(r, x)
    BY <1>4, <1>8
  <2>2. Len(b) + Len(a) <= MaxQueue
    BY <1>L, <1>5, <2>1
  <2> QED BY <1>0, <1>1, <1>3, <1>5, <1>6, <1>8, <2>1, <2>2
<1> QED BY <1>7, <1>8

LEMMA RetryStep == ASSUME RetryInv, NEW t \in M!Tasks, NEW ok \in BOOLEAN, M!Retry(t, ok) PROVE RetryInv'
<1>1. PICK x, a, b, d, r : /\ x = Head(task[t].todo) /\ a = Tail(task[t].todo) /\ b = M!Remaining(t, ok)
                           /\ d = task[t].todo /\ r = task[t].rest
  OBVIOUS
<1>2. /\ RetryTypes /\ task[t].pc = "draining" /\ overlapped' = overlapped
      /\ written' = (IF ok THEN written \cup {x} ELSE written)
      /\ \/ /\ a # <<>> /\ task' = [task EXCEPT ![t] = M!At("draining", a, b)]
            /\ UNCHANGED <<queue, dropped, failed>>
         \/ M!DrainEnds(t, b \o a)
  BY <1>1 DEF RetryInv, M!Retry
<1>3. /\ x \in Command /\ a \in Seq(Command) /\ b \in Seq(Command) /\ Len(b) + Len(a) <= MaxQueue
      /\ M!Elements(d) = M!Elements(a) \cup {x}
      /\ M!Elements(b) = M!Elements(r) \cup (IF ok THEN {} ELSE {x})
      /\ Handed(t) => NoRepeat(a) /\ NoRepeat(b) /\ M!Elements(a) \cap M!Elements(b) = {}
  <2>1. /\ x \in Command /\ a \in Seq(Command) /\ b \in Seq(Command) /\ Len(b) + Len(a) <= MaxQueue
        /\ M!Elements(task[t].todo) = M!Elements(a) \cup {x}
        /\ M!Elements(b) = M!Elements(task[t].rest) \cup (IF ok THEN {} ELSE {x})
        /\ Handed(t) => NoRepeat(a) /\ NoRepeat(b) /\ M!Elements(a) \cap M!Elements(b) = {}
    BY <1>1, <1>2, Retried
  <2> QED BY <1>1, <2>1
<1>4. /\ queue \in Seq(Command) /\ Len(queue) <= MaxQueue /\ overlapped' \in BOOLEAN
  BY <1>2 DEF RetryTypes
<1>5. ASSUME ~overlapped'
      PROVE  /\ \A u \in M!Tasks \ {t} : ~M!Busy(u)
             /\ NoRepeat(a) /\ NoRepeat(b) /\ M!Elements(a) \cap M!Elements(b) = {}
             /\ \A y \in M!Elements(a) \cup M!Elements(b) : y # t /\ y \in M!Tasks /\ task[y].pc = "false"
             /\ M!Elements(queue) \subseteq M!Elements(a) \cup M!Elements(b) \cup written'
             /\ \A y \in failed : y \in M!Elements(a) \cup M!Elements(b) \cup written' \cup dropped
  <2>1. InTurn /\ Handed(t)
    BY <1>2, <1>5 DEF RetryInv, InTurn
  <2>2. \A u \in M!Tasks \ {t} : ~M!Busy(u)
    BY <1>2, <2>1 DEF InTurn, M!Busy
  <2>3. M!Elements(d) \cup M!Elements(r) \subseteq M!Elements(a) \cup M!Elements(b) \cup written'
    BY <1>2, <1>3
  <2>4. M!Elements(queue) \subseteq M!Elements(a) \cup M!Elements(b) \cup written'
    BY <1>1, <1>2, <2>1, <2>3 DEF Handed
  <2>5. \A y \in M!Elements(a) \cup M!Elements(b) : y \in M!Elements(d) \cup M!Elements(r)
    BY <1>3
  <2>6. \A y \in M!Elements(a) \cup M!Elements(b) : y # t /\ task[y].pc = "false"
    BY <1>1, <1>2, <2>1, <2>5 DEF Handed
  <2>7. M!Elements(a) \cup M!Elements(b) \subseteq M!Tasks
    BY <1>2, <1>3, Queued
  <2>8. ASSUME NEW y \in failed
        PROVE  y \in M!Elements(a) \cup M!Elements(b) \cup written' \cup dropped
    <3>1. Somewhere(y)
      BY <2>1 DEF InTurn
    <3>2. CASE y \in M!Elements(queue) \cup written \cup dropped
      BY <1>2, <2>4, <3>2
    <3>3. ASSUME NEW u \in M!Tasks, y \in M!Elements(task[u].todo) \cup M!Elements(task[u].rest)
          PROVE  u = t
      BY <1>2, <2>2, <3>3, Queued DEF M!Busy
    <3>4. y \in M!Elements(d) \cup M!Elements(r) \/ y \in M!Elements(queue) \cup written \cup dropped
      BY <1>1, <3>1, <3>3 DEF Somewhere
    <3> QED BY <2>3, <3>2, <3>4
  <2> QED BY <1>3, <2>1, <2>2, <2>4, <2>6, <2>7, <2>8
<1>6. CASE a # <<>> /\ task' = [task EXCEPT ![t] = M!At("draining", a, b)] /\ UNCHANGED <<queue, dropped, failed>>
  <2>1. /\ DOMAIN task' = M!Tasks /\ DOMAIN task'[t] = {"pc", "todo", "rest"}
        /\ task'[t].pc = "draining" /\ task'[t].todo = a /\ task'[t].rest = b
        /\ \A u \in M!Tasks \ {t} : task'[u] = task[u]
    BY <1>2, <1>6, TaskSet
  <2>2. RetryTypes'
    BY <1>2, <1>3, <1>4, <1>6, <2>1, TypesKept
  <2>3. ASSUME ~overlapped' PROVE InTurn'
    <3>1. \A y \in M!Elements(a) \cup M!Elements(b) : task'[y].pc = "false"
      BY <1>5, <2>1, <2>3
    <3>2. M!Elements(queue') \subseteq M!Elements(a) \cup M!Elements(b) \cup written'
      BY <1>5, <1>6, <2>3
    <3>3. Handed(t)'
      BY <1>5, <2>1, <2>3, <3>1, <3>2 DEF Handed
    <3>4. \A y \in failed' : Somewhere(y)'
      BY <1>5, <1>6, <2>1, <2>3 DEF Somewhere
    <3>5. M!Elements(queue) \subseteq M!Tasks /\ NoRepeat(queue) /\ \A y \in M!Elements(queue) : task[y].pc = "false"
      BY <1>2, <1>4, <2>3, Queued DEF RetryInv, InTurn
    <3>6. NoRepeat(queue') /\ \A y \in M!Elements(queue') : task'[y].pc = "false"
      BY <1>2, <1>6, <2>1, <3>5
    <3> QED BY <1>5, <2>1, <2>3, <3>3, <3>4, <3>6, TurnKept
  <2> QED BY <2>2, <2>3 DEF RetryInv
<1>7. CASE M!DrainEnds(t, b \o a)
  <2>0. PICK q : q = b \o a
    OBVIOUS
  <2>1. /\ q \in Seq(Command) /\ Len(q) <= MaxQueue /\ M!Elements(q) = M!Elements(b) \cup M!Elements(a)
        /\ NoRepeat(b) /\ NoRepeat(a) /\ M!Elements(b) \cap M!Elements(a) = {} => NoRepeat(q)
    BY <1>3, <2>0, ConcatElements
  <2>2. ASSUME ~overlapped'
        PROVE  /\ \A u \in M!Tasks \ {t} : ~M!Busy(u)
               /\ NoRepeat(q) /\ \A y \in M!Elements(q) : y # t /\ y \in M!Tasks /\ task[y].pc = "false"
               /\ \A y \in failed : y \in M!Elements(q) \cup written' \cup dropped
    BY <1>5, <2>1, <2>2
  <2>3. CASE t \in Command /\ M!Requeue(t, q) /\ task' = [task EXCEPT ![t] = M!At("false", <<>>, <<>>)]
    <3>1. /\ DOMAIN task' = M!Tasks /\ DOMAIN task'[t] = {"pc", "todo", "rest"}
          /\ task'[t].pc = "false" /\ task'[t].todo = <<>> /\ task'[t].rest = <<>>
          /\ \A u \in M!Tasks \ {t} : task'[u] = task[u]
      BY <1>2, <2>3, TaskSet
    <3> QED BY <1>2, <1>4, <2>1, <2>2, <2>3, <3>1, GivenUp DEF RetryInv
  <2>4. ASSUME NEW p, p # "draining", queue' = q, task' = [task EXCEPT ![t] = M!At(p, <<>>, <<>>)],
               UNCHANGED <<dropped, failed>>
        PROVE  RetryInv'
    <3>1. /\ DOMAIN task' = M!Tasks /\ DOMAIN task'[t] = {"pc", "todo", "rest"}
          /\ task'[t].pc = p /\ task'[t].todo = <<>> /\ task'[t].rest = <<>>
          /\ \A u \in M!Tasks \ {t} : task'[u] = task[u]
      BY <1>2, <2>4, TaskSet
    <3>2. /\ task'[t].todo \in Seq(Command) /\ task'[t].rest \in Seq(Command)
          /\ Len(task'[t].rest) + Len(task'[t].todo) <= MaxQueue
      <4>1. <<>> \in Seq(Command) /\ Len(<<>>) + Len(<<>>) <= MaxQueue
        BY PollAssumption
      <4> QED BY <3>1, <4>1
    <3>3. RetryTypes'
      BY <1>2, <1>4, <2>1, <2>4, <3>1, <3>2, TypesKept
    <3>4. ASSUME ~overlapped' PROVE InTurn'
      <4>1. \A y \in failed' : Somewhere(y)'
        BY <2>2, <2>4, <3>4 DEF Somewhere
      <4>2. NoRepeat(queue') /\ \A y \in M!Elements(queue') : task'[y].pc = "false"
        BY <2>2, <2>4, <3>1, <3>4
      <4> QED BY <2>2, <2>4, <3>1, <3>4, <4>1, <4>2, TurnKept
    <3> QED BY <3>3, <3>4 DEF RetryInv
  <2>5. \/ t \in Command /\ M!Requeue(t, q) /\ task' = [task EXCEPT ![t] = M!At("false", <<>>, <<>>)]
        \/ \E p \in {"writing", "done"} : /\ queue' = q /\ task' = [task EXCEPT ![t] = M!At(p, <<>>, <<>>)]
                                          /\ UNCHANGED <<dropped, failed>>
    BY <1>7, <2>0 DEF M!DrainEnds
  <2> QED BY <2>3, <2>4, <2>5
<1> QED BY <1>2, <1>6, <1>7

LEMMA QueueStep == RetryInv /\ (M!Next \/ UNCHANGED modbusVars) => RetryInv'
<1> SUFFICES ASSUME RetryInv, M!Next \/ UNCHANGED modbusVars PROVE RetryInv'
  OBVIOUS
<1>1. ASSUME NEW c \in Command, M!BeginWrite(c) PROVE RetryInv'
  BY <1>1, BeginStep DEF M!BeginWrite, M!Tasks
<1>2. ASSUME NEW d \in Drainer, M!BeginDrain(d) PROVE RetryInv'
  BY <1>2, BeginStep DEF M!BeginDrain, M!Tasks
<1>3. CASE UNCHANGED M!writes
  <2>1. UNCHANGED <<queue, task, written, dropped, failed, overlapped>>
    BY <1>3 DEF M!writes
  <2>2. RetryTypes'
    BY <2>1 DEF RetryInv, RetryTypes
  <2>3. InTurn => InTurn'
    <3>1. \A c : Somewhere(c) => Somewhere(c)'
      BY <2>1 DEF Somewhere, M!Elements
    <3>2. \A t : Handed(t) => Handed(t)'
      BY <2>1 DEF Handed, NoRepeat, M!Elements
    <3>3. (\A t : M!Busy(t)' <=> M!Busy(t)) /\ M!Elements(queue') = M!Elements(queue)
      BY <2>1 DEF M!Busy
    <3> QED BY <2>1, <3>1, <3>2, <3>3 DEF InTurn
  <2> QED BY <2>1, <2>2, <2>3 DEF RetryInv
<1>4. ASSUME \/ M!Connect \/ M!Disconnect \/ M!LinkChanges \/ (\E up \in BOOLEAN : M!Connected(up))
             \/ M!BeginPoll \/ M!PollConnected \/ M!PollRead \/ M!PollFailed \/ M!PollWakes \/ UNCHANGED modbusVars
      PROVE  UNCHANGED M!writes
  BY <1>4 DEF M!Connect, M!Disconnect, M!LinkChanges, M!Connected, M!BeginPoll, M!PollConnected, M!PollRead,
              M!PollFailed, M!PollWakes, modbusVars, M!writes
<1> QED BY <1>1, <1>2, <1>3, <1>4, OfflineStep, WriteStep, RetryStep DEF M!Next

\* Modbus: as long as calls of execute_write and drain_retry_queue do not overlap, a
\* command that failed is queued once, in the hands of a drain, written since or
\* dropped for want of room; and the queue keeps to its limit in any case.
THEOREM AdapterRetriesKept == ServicesSpec => []RetriesKept
<1>1. ServicesInit => RetryInv
  BY RetryInit DEF ServicesInit
<1>2. RetryInv /\ [ServicesNext]_allVars => RetryInv'
  <2> SUFFICES ASSUME RetryInv, [ServicesNext]_allVars PROVE RetryInv'
    OBVIOUS
  <2>1. M!Next \/ UNCHANGED modbusVars
    BY OneComponent
  <2> QED BY <2>1, QueueStep
<1>3. RetryInv => RetriesKept
  BY DEF RetryInv, RetryTypes, InTurn, Somewhere, NoRepeat, RetriesKept, M!RetriesKept, M!Lost
<1> QED BY <1>1, <1>2, <1>3, PTL DEF ServicesSpec
==============================================================================
