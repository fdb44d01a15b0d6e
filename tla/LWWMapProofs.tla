---------------------------- MODULE LWWMapProofs ----------------------------
(***************************************************************************)
(* Proofs about LWWMap for every set of agents, keys and values, and every *)
(* choice of which agents persist, crash or tie-break by value.            *)
(***************************************************************************)
EXTENDS LWWMap, TLAPS

\* A row scheduled for hydration is in the database.
RowsExist == \A n \in Node : \A k \in unread[n] : db[n][k] # None

TypeInv == TypeOK /\ RowsExist

\* `set` keeps the shapes: the entry it is given is stored, saved and recorded.
LEMMA PutType ==
    ASSUME TypeOK, NEW n \in Node, NEW k \in Key, NEW e \in Entry, Put(n, k, e)
    PROVE  /\ mem' \in [Node -> [Key -> Row]]
           /\ saving' \in [Node -> SUBSET Slot]
           /\ seen' \in [Node -> SUBSET Slot]
<1>1. e \in Row /\ <<k, e>> \in Slot
  BY DEF Row, Slot
<1>2. mem' \in [Node -> [Key -> Row]]
  BY <1>1 DEF TypeOK, Put
<1>3. saving' \in [Node -> SUBSET Slot]
  BY <1>1 DEF TypeOK, Put
<1>4. seen' \in [Node -> SUBSET Slot]
  BY <1>1 DEF TypeOK, Put
<1> QED BY <1>2, <1>3, <1>4

\* A map just constructed, with no traffic.
LEMMA TypeInit == Init => TypeInv
BY BoundAssumption DEF Init, TypeInv, TypeOK, RowsExist, Row

\* Every handler keeps the shapes, and hydration only reads rows that exist.
LEMMA TypeStep == TypeInv /\ [Next]_vars => TypeInv'
<1> SUFFICES ASSUME TypeInv, [Next]_vars PROVE TypeInv'
  OBVIOUS
<1> USE DEF TypeInv, TypeOK, RowsExist
<1>1. ASSUME NEW n \in Node, NEW k \in Key, NEW v \in Value, LocalSet(n, k, v)
      PROVE  TypeInv'
  <2> DEFINE e == [ts |-> clock[n] + 1, writer |-> n, value |-> v]
  <2>1. e \in Entry
    BY DEF Entry
  <2>2. Put(n, k, e) /\ written' = written \cup {<<k, e>>}
    BY <1>1 DEF LocalSet
  <2>3. written' \subseteq Slot
    BY <2>1, <2>2 DEF Slot
  <2> HIDE DEF e
  <2> QED BY <1>1, <2>1, <2>2, <2>3, PutType DEF LocalSet
<1>2. ASSUME NEW n \in Node, Publish(n)
      PROVE  TypeInv'
  BY <1>2 DEF Publish
<1>3. ASSUME NEW n \in Node, NEW s \in net, BeginMerge(n, s)
      PROVE  TypeInv'
  <2>1. {<<k, s[k]>> : k \in {j \in Key : s[j] # None}} \subseteq Slot
    BY DEF Slot, Row
  <2> QED BY <1>3, <2>1 DEF BeginMerge
<1>4. ASSUME NEW n \in Node, NEW w \in merging[n], MergeKey(n, w[1], w[2])
      PROVE  TypeInv'
  <2>1. w[1] \in Key /\ w[2] \in Entry /\ w[2].ts \in Nat
    BY DEF Slot, Entry
  <2>2. Put(n, w[1], w[2])
    BY <1>4 DEF MergeKey
  <2>3. clock' \in [Node -> Nat] /\ merging' \in [Node -> SUBSET Slot]
    BY <1>4, <2>1 DEF MergeKey
  <2> QED BY <1>4, <2>1, <2>2, <2>3, PutType DEF MergeKey
<1>5. ASSUME NEW n \in Node, NEW w \in saving[n], Persist(n, w[1], w[2])
      PROVE  TypeInv'
  <2>1. w[1] \in Key /\ w[2] \in Entry /\ w[2] # None
    BY NoneAssumption DEF Slot
  <2> QED BY <1>5, <2>1 DEF Persist, Row
<1>6. ASSUME NEW n \in Node, Connect(n)
      PROVE  TypeInv'
  BY <1>6 DEF Connect
<1>7. ASSUME NEW n \in Node, BeginHydrate(n)
      PROVE  TypeInv'
  BY <1>7 DEF BeginHydrate
<1>8. ASSUME NEW n \in Node, EndHydrate(n)
      PROVE  TypeInv'
  BY <1>8 DEF EndHydrate
<1>9. ASSUME NEW n \in Node, NEW k \in Key, HydrateRow(n, k)
      PROVE  TypeInv'
  <2>1. db[n][k] \in Entry /\ db[n][k].ts \in Nat /\ <<k, db[n][k]>> \in Slot
    BY <1>9 DEF HydrateRow, Row, Entry, Slot
  <2>2. mem' \in [Node -> [Key -> Row]] /\ clock' \in [Node -> Nat]
    BY <1>9, <2>1 DEF HydrateRow, Row
  <2>3. seen' \in [Node -> SUBSET Slot]
    BY <1>9, <2>1 DEF HydrateRow
  <2> QED BY <1>9, <2>2, <2>3 DEF HydrateRow
<1>10. ASSUME NEW n \in Node, Close(n)
       PROVE  TypeInv'
  BY <1>10 DEF Close
<1>11. ASSUME NEW n \in Node, Crash(n)
       PROVE  TypeInv'
  BY <1>11 DEF Crash, Row
<1>12. CASE UNCHANGED vars
  BY <1>12 DEF vars
<1> QED BY <1>1, <1>2, <1>3, <1>4, <1>5, <1>6, <1>7, <1>8, <1>9, <1>10, <1>11, <1>12
        DEF Next, Step

\* The map, its database and its traffic keep their shapes whatever the agents
\* do: every handler of crdt.py, restarts included.
THEOREM LWWTypeOK == Spec => []TypeOK
<1>1. TypeInv => TypeOK
  BY DEF TypeInv
<1> QED BY <1>1, TypeInit, TypeStep, PTL DEF Spec

-----------------------------------------------------------------------------
(* Safety of a map used between connect() and close(). *)

\* How the database, the memory and the write-through in flight of one agent
\* are related in every phase of the connection.
DbTracks(n) ==
    /\ n \notin Durable => phase[n] = "closed"
    /\ phase[n] # "ready" =>
           /\ saving[n] = {}
           /\ n \in Durable => \A k \in Key : mem[n][k] \in {None, db[n][k]}
    /\ phase[n] = "hydrating" => \A k \in Key \ unread[n] : mem[n][k] = db[n][k]
    /\ phase[n] = "ready" =>
           \A k \in Key : mem[n][k] = db[n][k] \/ <<k, mem[n][k]>> \in saving[n]
    /\ \A w \in saving[n] : saving[n] = {w} /\ mem[n][w[1]] = w[2]

\* Why HoldsTheJoin and ClockIsLatest survive a hydration: a row read back is
\* the entry in memory or finds none there.
IInv == HoldsTheJoin /\ ClockIsLatest /\ \A n \in Node : DbTracks(n)

\* Beats is a strict weak order for every agent, with or without the
\* comparison of values.
LEMMA BeatsIrreflexive == \A n \in Node, e \in Entry : ~Beats(n, e, e)
<1> SUFFICES ASSUME NEW n \in Node, NEW e \in Entry PROVE ~Beats(n, e, e)
  OBVIOUS
<1>1. e.ts \in Nat /\ e.writer \in Nat /\ e.value \in Nat
  BY NodeAssumption DEF Entry
<1> QED BY <1>1 DEF Beats

\* What does not beat an entry does not beat its successor either.
LEMMA BeatsTransitive ==
    ASSUME NEW n \in Node, NEW e \in Entry, NEW f \in Entry, NEW w \in Entry,
           Beats(n, e, f), ~Beats(n, w, f)
    PROVE  ~Beats(n, w, e)
<1>1. /\ e.ts \in Nat /\ f.ts \in Nat /\ w.ts \in Nat
      /\ e.writer \in Nat /\ f.writer \in Nat /\ w.writer \in Nat
      /\ e.value \in Nat /\ f.value \in Nat /\ w.value \in Nat
  BY NodeAssumption DEF Entry
<1> QED BY <1>1 DEF Beats

\* Any entry given to `set` leaves the map holding the join.
LEMMA PutJoins ==
    ASSUME TypeOK, HoldsTheJoin,
           NEW n \in Node, NEW k \in Key, NEW e \in Entry, Put(n, k, e)
    PROVE  HoldsTheJoin'
<1> SUFFICES ASSUME NEW m \in Node, NEW j \in Key
             PROVE  /\ mem'[m][j] # None => <<j, mem'[m][j]>> \in seen'[m]
                    /\ \A w \in seen'[m] : w[1] = j =>
                           mem'[m][j] # None /\ ~Beats(m, w[2], mem'[m][j])
  BY DEF HoldsTheJoin, Beats
<1>1. CASE m # n \/ j # k
  <2>1. mem'[m][j] = mem[m][j]
    BY <1>1 DEF Put, TypeOK
  <2>2. seen[m] \subseteq seen'[m] /\ \A w \in seen'[m] : w[1] = j => w \in seen[m]
    BY <1>1 DEF Put, TypeOK
  <2> QED BY <2>1, <2>2 DEF HoldsTheJoin
<1>2. CASE m = n /\ j = k
  <2>1. seen'[n] = seen[n] \cup {<<k, e>>}
    BY DEF Put, TypeOK
  <2>2. e # None
    BY NoneAssumption
  <2>3. CASE Updates(n, k, e)
    <3>1. mem'[n][k] = e
      BY <2>3 DEF Put, TypeOK
    <3>2. ASSUME NEW w \in seen[n], w[1] = k
          PROVE  ~Beats(n, w[2], e)
      <4>1. mem[n][k] # None /\ ~Beats(n, w[2], mem[n][k])
        BY <3>2 DEF HoldsTheJoin
      <4>2. Beats(n, e, mem[n][k])
        BY <2>3, <4>1 DEF Updates
      <4>3. w[2] \in Entry /\ mem[n][k] \in Entry
        BY <4>1 DEF TypeOK, Slot, Row
      <4> QED BY <4>1, <4>2, <4>3, BeatsTransitive
    <3> QED BY <1>2, <2>1, <2>2, <3>1, <3>2, BeatsIrreflexive
  <2>4. CASE ~Updates(n, k, e)
    <3>1. mem'[n][k] = mem[n][k] /\ mem[n][k] # None /\ ~Beats(n, e, mem[n][k])
      BY <2>4 DEF Put, TypeOK, Updates
    <3> QED BY <1>2, <2>1, <3>1 DEF HoldsTheJoin
  <2> QED BY <2>3, <2>4
<1> QED BY <1>1, <1>2

\* `set` keeps the clock at the latest timestamp held, if the clock is first
\* raised to the entry's.
LEMMA PutClock ==
    ASSUME TypeOK, ClockIsLatest,
           NEW n \in Node, NEW k \in Key, NEW e \in Entry, Put(n, k, e),
           clock' = [clock EXCEPT ![n] = IF e.ts > @ THEN e.ts ELSE @]
    PROVE  ClockIsLatest'
<1> SUFFICES ASSUME NEW m \in Node
             PROVE  /\ \A j \in Key : mem'[m][j] # None => mem'[m][j].ts <= clock'[m]
                    /\ clock'[m] > 0 =>
                           \E j \in Key : mem'[m][j] # None /\ mem'[m][j].ts = clock'[m]
  BY DEF ClockIsLatest
<1>1. CASE m # n
  <2>1. clock'[m] = clock[m] /\ mem'[m] = mem[m]
    BY <1>1 DEF TypeOK, Put
  <2> QED BY <2>1 DEF ClockIsLatest
<1>2. CASE m = n
  <2>0. /\ e.ts \in Nat /\ clock[n] \in Nat /\ e # None
        /\ \A j \in Key : mem[n][j] # None => mem[n][j].ts \in Nat
        /\ clock'[n] = IF e.ts > clock[n] THEN e.ts ELSE clock[n]
        /\ \A j \in Key \ {k} : mem'[n][j] = mem[n][j]
    BY NoneAssumption DEF TypeOK, Row, Entry, Put
  <2>1. \A j \in Key : mem[n][j] # None => mem[n][j].ts <= clock[n]
    BY DEF ClockIsLatest
  <2>2. CASE Updates(n, k, e)
    <3>1. mem'[n][k] = e
      BY <2>2 DEF Put, TypeOK
    <3>2. mem[n][k] # None => e.ts >= mem[n][k].ts
      BY <2>0, <2>2 DEF Updates, Beats
    <3>3. \A j \in Key : mem'[n][j] # None => mem'[n][j].ts <= clock'[n]
      BY <2>0, <2>1, <3>1
    <3>4. ASSUME clock'[n] > 0
          PROVE  \E j \in Key : mem'[n][j] # None /\ mem'[n][j].ts = clock'[n]
      <4>1. CASE e.ts >= clock[n]
        BY <4>1, <2>0, <3>1
      <4>2. CASE e.ts < clock[n]
        <5>1. PICK j \in Key : mem[n][j] # None /\ mem[n][j].ts = clock[n]
          BY <4>2, <2>0 DEF ClockIsLatest
        <5>2. j # k
          BY <5>1, <4>2, <3>2, <2>0
        <5> QED BY <5>1, <5>2, <4>2, <2>0
      <4> QED BY <4>1, <4>2, <2>0
    <3> QED BY <1>2, <3>3, <3>4
  <2>3. CASE ~Updates(n, k, e)
    <3>1. mem'[n] = mem[n] /\ mem[n][k] # None /\ ~Beats(n, e, mem[n][k])
      BY <2>3 DEF Put, TypeOK, Updates
    <3>2. e.ts <= mem[n][k].ts
      BY <3>1, <2>0 DEF Beats
    <3>3. clock'[n] = clock[n]
      BY <3>1, <3>2, <2>0, <2>1
    <3> QED BY <1>2, <3>1, <3>3 DEF ClockIsLatest
  <2> QED BY <2>2, <2>3
<1> QED BY <1>1, <1>2

\* A write through the lock of a usable map keeps memory and database related.
LEMMA PutTracks ==
    ASSUME TypeOK, Quiesced, \A m \in Node : DbTracks(m),
           NEW n \in Node, NEW k \in Key, NEW e \in Entry, Put(n, k, e),
           Usable(n), LockFree(n), UNCHANGED <<phase, unread, db>>
    PROVE  \A m \in Node : DbTracks(m)'
<1> SUFFICES ASSUME NEW m \in Node PROVE DbTracks(m)'
  OBVIOUS
<1>0. DbTracks(m) /\ DbTracks(n)
  OBVIOUS
<1>1. CASE m # n
  <2>1. mem'[m] = mem[m] /\ saving'[m] = saving[m]
    BY <1>1 DEF TypeOK, Put
  <2> QED BY <1>0, <2>1 DEF DbTracks
<1>2. CASE m = n /\ n \notin Durable
  BY <1>0, <1>2 DEF DbTracks, TypeOK, Put, Connected
<1>3. CASE m = n /\ n \in Durable
  <2>1. phase[n] = "ready" /\ saving[n] = {} /\ Connected(n)
    BY <1>3 DEF Usable, LockFree, Connected
  <2>2. CASE Updates(n, k, e)
    <3>1. mem'[n][k] = e /\ saving'[n] = {<<k, e>>} /\ \A j \in Key \ {k} : mem'[n][j] = mem[n][j]
      BY <2>1, <2>2 DEF TypeOK, Put
    <3>2. \A j \in Key : mem'[n][j] = db[n][j] \/ <<j, mem'[n][j]>> \in saving'[n]
      BY <1>0, <2>1, <3>1 DEF DbTracks
    <3> QED BY <1>3, <2>1, <3>1, <3>2 DEF DbTracks
  <2>3. CASE ~Updates(n, k, e)
    <3>1. mem' = mem /\ saving' = saving
      BY <2>3 DEF Put
    <3> QED BY <1>0, <1>3, <3>1 DEF DbTracks
  <2> QED BY <2>2, <2>3
<1> QED BY <1>1, <1>2, <1>3

\* An empty map holds the join of nothing and mirrors an empty database.
LEMMA IInit == Init => IInv
<1> SUFFICES ASSUME Init PROVE IInv
  OBVIOUS
<1>1. HoldsTheJoin /\ ClockIsLatest
  BY DEF Init, HoldsTheJoin, ClockIsLatest
<1>2. \A n \in Node : DbTracks(n)
  BY DEF Init, DbTracks
<1> QED BY <1>1, <1>2 DEF IInv

\* One step per action of crdt.py: writes go through PutJoins, PutClock and
\* PutTracks; hydration and the write-through rest on DbTracks.
LEMMA IStep == Quiesced /\ TypeInv /\ IInv /\ [Next]_vars => IInv'
<1> SUFFICES ASSUME Quiesced, TypeInv, IInv, [Next]_vars PROVE IInv'
  OBVIOUS
<1> USE DEF TypeInv, IInv
<1>1. ASSUME NEW n \in Node, NEW k \in Key, NEW v \in Value, LocalSet(n, k, v)
      PROVE  IInv'
  <2> DEFINE e == [ts |-> clock[n] + 1, writer |-> n, value |-> v]
  <2>1. e \in Entry /\ Put(n, k, e)
    BY <1>1 DEF LocalSet, Entry, TypeOK
  <2>2. clock' = [clock EXCEPT ![n] = IF e.ts > @ THEN e.ts ELSE @]
    <3>1. clock[n] \in Nat /\ e.ts = clock[n] + 1
      BY DEF TypeOK
    <3>2. e.ts > clock[n]
      BY <3>1
    <3>3. clock' = [clock EXCEPT ![n] = e.ts]
      BY <1>1, <3>1 DEF LocalSet
    <3> HIDE DEF e
    <3> QED BY <3>2, <3>3
  <2>3. Usable(n) /\ LockFree(n) /\ UNCHANGED <<phase, unread, db>>
    BY <1>1 DEF LocalSet
  <2> HIDE DEF e
  <2> QED BY <2>1, <2>2, <2>3, PutJoins, PutClock, PutTracks
<1>2. ASSUME NEW n \in Node, NEW w \in merging[n], MergeKey(n, w[1], w[2])
      PROVE  IInv'
  <2>1. w[1] \in Key /\ w[2] \in Entry
    BY DEF TypeOK, Slot
  <2>2. Put(n, w[1], w[2]) /\ Usable(n) /\ LockFree(n) /\ UNCHANGED <<phase, unread, db>>
    BY <1>2 DEF MergeKey
  <2>3. clock' = [clock EXCEPT ![n] = IF w[2].ts > @ THEN w[2].ts ELSE @]
    BY <1>2 DEF MergeKey
  <2> QED BY <2>1, <2>2, <2>3, PutJoins, PutClock, PutTracks
<1>3. ASSUME NEW n \in Node, NEW k \in Key, HydrateRow(n, k)
      PROVE  IInv'
  <2>1. DbTracks(n) /\ n \in Durable /\ phase[n] = "hydrating" /\ db[n][k] # None
    BY <1>3 DEF HydrateRow, DbTracks, RowsExist
  <2>2. /\ db[n][k] \in Entry /\ db[n][k].ts \in Nat /\ clock[n] \in Nat
        /\ mem[n][k] \in {None, db[n][k]}
        /\ \A j \in Key : mem[n][j] # None => mem[n][j].ts \in Nat
    BY <2>1 DEF TypeOK, Row, Entry, DbTracks
  <2>3. /\ mem' = [mem EXCEPT ![n][k] = db[n][k]]
        /\ clock' = [clock EXCEPT ![n] = IF db[n][k].ts > @ THEN db[n][k].ts ELSE @]
        /\ unread' = [unread EXCEPT ![n] = @ \ {k}]
        /\ seen' = [seen EXCEPT ![n] = @ \cup {<<k, db[n][k]>>}]
        /\ UNCHANGED <<phase, db, saving>>
    BY <1>3 DEF HydrateRow
  <2>4. HoldsTheJoin'
    <3> SUFFICES ASSUME NEW m \in Node, NEW j \in Key
                 PROVE  /\ mem'[m][j] # None => <<j, mem'[m][j]>> \in seen'[m]
                        /\ \A w \in seen'[m] : w[1] = j =>
                               mem'[m][j] # None /\ ~Beats(m, w[2], mem'[m][j])
      BY DEF HoldsTheJoin, Beats
    <3>1. CASE m # n \/ j # k
      <4>1. mem'[m][j] = mem[m][j] /\ seen[m] \subseteq seen'[m]
        BY <3>1, <2>3 DEF TypeOK
      <4>2. \A w \in seen'[m] : w[1] = j => w \in seen[m]
        BY <3>1, <2>3 DEF TypeOK
      <4> QED BY <4>1, <4>2 DEF HoldsTheJoin
    <3>2. CASE m = n /\ j = k
      <4>1. mem'[n][k] = db[n][k] /\ seen'[n] = seen[n] \cup {<<k, db[n][k]>>}
        BY <2>3 DEF TypeOK
      <4>2. \A w \in seen[n] : w[1] = k => ~Beats(n, w[2], db[n][k])
        BY <2>2 DEF HoldsTheJoin
      <4> QED BY <3>2, <4>1, <4>2, <2>1, <2>2, BeatsIrreflexive
    <3> QED BY <3>1, <3>2
  <2>5. ClockIsLatest'
    <3> SUFFICES ASSUME NEW m \in Node
                 PROVE  /\ \A j \in Key : mem'[m][j] # None => mem'[m][j].ts <= clock'[m]
                        /\ clock'[m] > 0 =>
                               \E j \in Key : mem'[m][j] # None /\ mem'[m][j].ts = clock'[m]
      BY DEF ClockIsLatest
    <3>1. CASE m # n
      <4>1. clock'[m] = clock[m] /\ mem'[m] = mem[m]
        BY <3>1, <2>3 DEF TypeOK
      <4> QED BY <4>1 DEF ClockIsLatest
    <3>2. CASE m = n
      <4>1. /\ mem'[n][k] = db[n][k] /\ \A j \in Key \ {k} : mem'[n][j] = mem[n][j]
            /\ clock'[n] = IF db[n][k].ts > clock[n] THEN db[n][k].ts ELSE clock[n]
        BY <2>3 DEF TypeOK
      <4>2. \A j \in Key : mem[n][j] # None => mem[n][j].ts <= clock[n]
        BY DEF ClockIsLatest
      <4>3. \A j \in Key : mem'[n][j] # None => mem'[n][j].ts <= clock'[n]
        BY <4>1, <4>2, <2>2
      <4>4. CASE db[n][k].ts > clock[n]
        BY <3>2, <4>1, <4>3, <4>4, <2>1
      <4>5. CASE ~(db[n][k].ts > clock[n])
        <5>1. ASSUME clock[n] > 0
              PROVE  \E j \in Key : mem'[n][j] # None /\ mem'[n][j].ts = clock[n]
          <6>1. PICK j \in Key : mem[n][j] # None /\ mem[n][j].ts = clock[n]
            BY <5>1 DEF ClockIsLatest
          <6>2. mem'[n][j] = mem[n][j]
            BY <6>1, <4>1, <2>2
          <6> QED BY <6>1, <6>2
        <5> QED BY <3>2, <4>1, <4>3, <4>5, <5>1
      <4> QED BY <4>4, <4>5
    <3> QED BY <3>1, <3>2
  <2>6. ASSUME NEW m \in Node PROVE DbTracks(m)'
    <3>1. CASE m # n
      <4>1. mem'[m] = mem[m] /\ unread'[m] = unread[m]
        BY <3>1, <2>3 DEF TypeOK
      <4> QED BY <4>1, <2>3 DEF DbTracks
    <3>2. CASE m = n
      <4>1. /\ mem'[n][k] = db[n][k] /\ \A j \in Key \ {k} : mem'[n][j] = mem[n][j]
            /\ unread'[n] = unread[n] \ {k}
        BY <2>3 DEF TypeOK
      <4>2. \A j \in Key \ unread'[n] : mem'[n][j] = db[n][j]
        BY <4>1, <2>1 DEF DbTracks
      <4>3. \A j \in Key : mem'[n][j] \in {None, db[n][j]}
        BY <4>1, <2>1 DEF DbTracks
      <4>4. saving[n] = {}
        BY <2>1 DEF DbTracks
      <4> QED BY <3>2, <2>1, <2>3, <4>2, <4>3, <4>4 DEF DbTracks
    <3> QED BY <3>1, <3>2
  <2> QED BY <2>4, <2>5, <2>6
<1>4. ASSUME NEW n \in Node, Crash(n)
      PROVE  IInv'
  <2>1. HoldsTheJoin' /\ ClockIsLatest'
    BY <1>4 DEF Crash, TypeOK, HoldsTheJoin, ClockIsLatest, Beats
  <2>2. \A m \in Node : DbTracks(m)'
    BY <1>4 DEF Crash, TypeOK, DbTracks
  <2> QED BY <2>1, <2>2
<1>5. ASSUME UNCHANGED <<mem, clock, seen>>, \A m \in Node : DbTracks(m)'
      PROVE  IInv'
  BY <1>5 DEF HoldsTheJoin, ClockIsLatest, Beats
<1>6. ASSUME NEW n \in Node, Publish(n)
      PROVE  IInv'
  BY <1>5, <1>6 DEF Publish, DbTracks
<1>7. ASSUME NEW n \in Node, NEW s \in net, BeginMerge(n, s)
      PROVE  IInv'
  BY <1>5, <1>7 DEF BeginMerge, DbTracks
<1>8. ASSUME NEW n \in Node, NEW w \in saving[n], Persist(n, w[1], w[2])
      PROVE  IInv'
  <2> SUFFICES ASSUME NEW m \in Node PROVE DbTracks(m)'
    BY <1>5, <1>8 DEF Persist
  <2>1. /\ db' = [db EXCEPT ![n][w[1]] = w[2]] /\ saving' = [saving EXCEPT ![n] = {}]
        /\ UNCHANGED <<mem, phase, unread>>
    BY <1>8 DEF Persist
  <2>2. /\ phase[n] = "ready" /\ saving[n] = {w} /\ mem[n][w[1]] = w[2]
        /\ w[1] \in Key /\ w = <<w[1], w[2]>>
    BY DEF DbTracks, TypeOK, Slot
  <2>3. CASE m # n
    <3>1. db'[m] = db[m] /\ saving'[m] = saving[m]
      BY <2>1, <2>3 DEF TypeOK
    <3> QED BY <2>1, <3>1 DEF DbTracks
  <2>4. CASE m = n
    <3>1. /\ db'[n][w[1]] = w[2] /\ \A j \in Key \ {w[1]} : db'[n][j] = db[n][j]
          /\ saving'[n] = {}
      BY <2>1, <2>2 DEF TypeOK
    <3>2. \A j \in Key : mem'[n][j] = db'[n][j]
      <4> SUFFICES ASSUME NEW j \in Key, j # w[1] PROVE mem[n][j] = db[n][j]
        BY <3>1, <2>1, <2>2
      <4>1. <<j, mem[n][j]>> # w
        BY <2>2
      <4> QED BY <2>2, <4>1 DEF DbTracks
    <3> QED BY <2>1, <2>2, <2>4, <3>1, <3>2 DEF DbTracks
  <2> QED BY <2>3, <2>4
<1>9. ASSUME NEW n \in Node, Connect(n)
      PROVE  IInv'
  <2>1. \A m \in Node : DbTracks(m)'
    BY <1>9 DEF Connect, TypeOK, DbTracks
  <2> QED BY <1>5, <1>9, <2>1 DEF Connect
<1>10. ASSUME NEW n \in Node, BeginHydrate(n)
       PROVE  IInv'
  <2>1. \A m \in Node : DbTracks(m)'
    <3> SUFFICES ASSUME NEW m \in Node PROVE DbTracks(m)'
      OBVIOUS
    <3>1. CASE m # n
      BY <1>10, <3>1 DEF BeginHydrate, TypeOK, DbTracks
    <3>2. CASE m = n
      <4>1. /\ phase[n] = "opened" /\ phase'[n] = "hydrating" /\ saving[n] = {}
            /\ unread'[n] = {k \in Key : db[n][k] # None} /\ UNCHANGED <<mem, db, saving>>
        BY <1>10 DEF BeginHydrate, TypeOK, LockFree
      <4>2. n \in Durable /\ \A k \in Key : mem[n][k] \in {None, db[n][k]}
        BY <4>1 DEF DbTracks
      <4>3. \A k \in Key \ unread'[n] : mem[n][k] = db[n][k]
        BY <4>1, <4>2
      <4> QED BY <3>2, <4>1, <4>2, <4>3 DEF DbTracks
    <3> QED BY <3>1, <3>2
  <2> QED BY <1>5, <1>10, <2>1 DEF BeginHydrate
<1>11. ASSUME NEW n \in Node, EndHydrate(n)
       PROVE  IInv'
  <2>1. \A m \in Node : DbTracks(m)'
    BY <1>11 DEF EndHydrate, TypeOK, DbTracks
  <2> QED BY <1>5, <1>11, <2>1 DEF EndHydrate
<1>12. ASSUME NEW n \in Node, Close(n)
       PROVE  IInv'
  <2>1. \A m \in Node : DbTracks(m)'
    <3> SUFFICES ASSUME NEW m \in Node PROVE DbTracks(m)'
      OBVIOUS
    <3>1. CASE m # n
      BY <1>12, <3>1 DEF Close, TypeOK, DbTracks
    <3>2. CASE m = n
      <4>1. /\ phase[n] = "ready" /\ phase'[n] = "closed" /\ saving[n] = {}
            /\ saving'[n] = {} /\ UNCHANGED <<mem, db, unread>>
        BY <1>12 DEF Close, TypeOK, LockFree
      <4>2. \A k \in Key : mem[n][k] = db[n][k]
        BY <4>1 DEF DbTracks
      <4> QED BY <3>2, <4>1, <4>2 DEF DbTracks
    <3> QED BY <3>1, <3>2
  <2> QED BY <1>5, <1>12, <2>1 DEF Close
<1>13. CASE UNCHANGED vars
  BY <1>5, <1>13 DEF vars, DbTracks
<1> QED BY <1>1, <1>2, <1>3, <1>4, <1>6, <1>7, <1>8, <1>9, <1>10, <1>11, <1>12, <1>13
        DEF Next, Step

\* The inductive invariant behind the safety of the map, for every number of
\* agents, keys, restarts and messages.
THEOREM LWWInvariant == Quiesced /\ Spec => []IInv
<1>1. TypeInv /\ IInv /\ Quiesced /\ [Next]_vars => (TypeInv /\ IInv)'
  BY TypeStep, IStep
<1>2. Quiesced => (Spec => []IInv)
  <2> SUFFICES ASSUME Quiesced PROVE Spec => []IInv
    OBVIOUS
  <2>1. TypeInv /\ IInv /\ [Next]_vars => (TypeInv /\ IInv)'
    BY <1>1
  <2> QED BY <2>1, TypeInit, IInit, PTL DEF Spec
<1> QED BY <1>2

\* Entries merged late, twice or out of order, local writes and hydrated rows
\* all leave an agent with the greatest entry it was given for each key
\* (crdt.py set, merge, _hydrate_from_db).
THEOREM LWWHoldsTheJoin == Quiesced /\ Spec => []HoldsTheJoin
BY LWWInvariant, PTL DEF IInv

\* The Lamport clock is the latest timestamp held through every restart, so a
\* local write always beats what it replaces.
THEOREM LWWClockIsLatest == Quiesced /\ Spec => []ClockIsLatest
BY LWWInvariant, PTL DEF IInv

\* An idle, hydrated map and its SQLite table are equal (_persist_unlocked).
THEOREM LWWDbMirrorsMemory == Quiesced /\ Spec => []DbMirrorsMemory
<1>1. TypeOK /\ IInv => DbMirrorsMemory
  <2> SUFFICES ASSUME TypeOK, IInv, NEW n \in Node, phase[n] = "ready", LockFree(n)
               PROVE  db[n] = mem[n]
    BY DEF DbMirrorsMemory
  <2>1. \A k \in Key : mem[n][k] = db[n][k]
    BY DEF IInv, DbTracks, LockFree
  <2> QED BY <2>1 DEF TypeOK
<1> QED BY <1>1, LWWInvariant, LWWTypeOK, PTL

-----------------------------------------------------------------------------
(* What a step may never do. *)

\* `set` replaces an entry only by one that beats it.
LEMMA PutAdvances ==
    ASSUME TypeOK, NEW n \in Node, NEW k \in Key, NEW e \in Entry, Put(n, k, e),
           NEW m \in Node, NEW j \in Key
    PROVE  Advances(m, j)
<1>1. CASE m = n /\ j = k /\ Updates(n, k, e)
  <2>1. mem'[n][k] = e
    BY <1>1 DEF Put, TypeOK
  <2> QED BY <1>1, <2>1 DEF Updates, Advances
<1>2. CASE ~(m = n /\ j = k /\ Updates(n, k, e))
  <2>1. mem'[m][j] = mem[m][j]
    BY <1>2 DEF Put, TypeOK
  <2> QED BY <2>1 DEF Advances
<1> QED BY <1>1, <1>2

\* Only a crash takes an entry back: hydration finds nothing or the same entry.
LEMMA AdvanceStep ==
    ASSUME Quiesced, TypeInv, IInv, [Next]_vars, NEW m \in Node, NEW j \in Key
    PROVE  Crash(m) \/ Advances(m, j)
<1> USE DEF TypeInv, IInv
<1>1. ASSUME NEW n \in Node, NEW k \in Key, NEW v \in Value, LocalSet(n, k, v)
      PROVE  Advances(m, j)
  <2> DEFINE e == [ts |-> clock[n] + 1, writer |-> n, value |-> v]
  <2>1. e \in Entry /\ Put(n, k, e)
    BY <1>1 DEF LocalSet, Entry, TypeOK
  <2> HIDE DEF e
  <2> QED BY <2>1, PutAdvances
<1>2. ASSUME NEW n \in Node, NEW w \in merging[n], MergeKey(n, w[1], w[2])
      PROVE  Advances(m, j)
  <2>1. w[1] \in Key /\ w[2] \in Entry /\ Put(n, w[1], w[2])
    BY <1>2 DEF TypeOK, Slot, MergeKey
  <2> QED BY <2>1, PutAdvances
<1>3. ASSUME NEW n \in Node, NEW k \in Key, HydrateRow(n, k)
      PROVE  Advances(m, j)
  <2>1. mem[n][k] \in {None, db[n][k]}
    BY <1>3 DEF HydrateRow, DbTracks
  <2>2. CASE m = n /\ j = k
    BY <1>3, <2>1, <2>2 DEF HydrateRow, TypeOK, Advances
  <2>3. CASE m # n \/ j # k
    BY <1>3, <2>3 DEF HydrateRow, TypeOK, Advances
  <2> QED BY <2>2, <2>3
<1>4. ASSUME NEW n \in Node, Crash(n)
      PROVE  Crash(m) \/ Advances(m, j)
  <2>1. CASE m = n
    BY <1>4, <2>1
  <2>2. CASE m # n
    BY <1>4, <2>2 DEF Crash, TypeOK, Advances
  <2> QED BY <2>1, <2>2
<1>5. CASE mem' = mem
  BY <1>5 DEF Advances
<1>6. ASSUME NEW n \in Node,
             \/ Publish(n) \/ \E s \in net : BeginMerge(n, s)
             \/ \E w \in saving[n] : Persist(n, w[1], w[2])
             \/ Connect(n) \/ BeginHydrate(n) \/ EndHydrate(n) \/ Close(n)
      PROVE  mem' = mem
  BY <1>6 DEF Publish, BeginMerge, Persist, Connect, BeginHydrate, EndHydrate, Close
<1>7. CASE UNCHANGED vars
  BY <1>5, <1>7 DEF vars
<1> QED BY <1>1, <1>2, <1>3, <1>4, <1>5, <1>6, <1>7 DEF Next, Step

\* The type invariant with the rows hydration has still to read.
LEMMA LWWTypeInv == Spec => []TypeInv
BY TypeInit, TypeStep, PTL DEF Spec

\* The entry being written through beats the row it will replace.
SavingBeats ==
    \A n \in Node : \A w \in saving[n] :
        db[n][w[1]] = None \/ Beats(n, w[2], db[n][w[1]])

\* A write of a usable map compares with memory, which then equals the database.
LEMMA PutSavesWinners ==
    ASSUME Quiesced, TypeInv, IInv, SavingBeats,
           NEW n \in Node, NEW k \in Key, NEW e \in Entry, Put(n, k, e),
           Usable(n), LockFree(n), UNCHANGED <<phase, db>>
    PROVE  SavingBeats'
<1> USE DEF TypeInv, IInv
<1> SUFFICES ASSUME NEW m \in Node, NEW w \in saving'[m]
             PROVE  db[m][w[1]] = None \/ Beats(m, w[2], db[m][w[1]])
  BY DEF SavingBeats, Beats
<1>1. CASE w \in saving[m]
  BY <1>1 DEF SavingBeats
<1>2. CASE w \notin saving[m]
  <2>1. m = n /\ w = <<k, e>> /\ Updates(n, k, e) /\ Connected(n)
    BY <1>2 DEF Put, TypeOK
  <2>2. phase[n] = "ready" /\ saving[n] = {}
    BY <2>1 DEF Usable, LockFree, Connected, DbTracks
  <2>3. mem[n][k] = db[n][k]
    BY <2>2 DEF DbTracks
  <2> QED BY <2>1, <2>3 DEF Updates
<1> QED BY <1>1, <1>2

\* No other step starts a write-through, and a commit ends its own.
LEMMA SavingStep ==
    ASSUME Quiesced, TypeInv, IInv, SavingBeats, [Next]_vars
    PROVE  SavingBeats'
<1> USE DEF TypeInv, IInv
<1>1. ASSUME NEW n \in Node, NEW k \in Key, NEW v \in Value, LocalSet(n, k, v)
      PROVE  SavingBeats'
  <2> DEFINE e == [ts |-> clock[n] + 1, writer |-> n, value |-> v]
  <2>1. /\ e \in Entry /\ Put(n, k, e)
        /\ Usable(n) /\ LockFree(n) /\ UNCHANGED <<phase, db>>
    BY <1>1 DEF LocalSet, Entry, TypeOK
  <2> HIDE DEF e
  <2> QED BY <2>1, PutSavesWinners
<1>2. ASSUME NEW n \in Node, NEW w \in merging[n], MergeKey(n, w[1], w[2])
      PROVE  SavingBeats'
  <2>1. /\ w[1] \in Key /\ w[2] \in Entry /\ Put(n, w[1], w[2])
        /\ Usable(n) /\ LockFree(n) /\ UNCHANGED <<phase, db>>
    BY <1>2 DEF TypeOK, Slot, MergeKey
  <2> QED BY <2>1, PutSavesWinners
<1>3. ASSUME NEW n \in Node, NEW w \in saving[n], Persist(n, w[1], w[2])
      PROVE  SavingBeats'
  <2>1. saving'[n] = {} /\ \A m \in Node \ {n} : saving'[m] = saving[m] /\ db'[m] = db[m]
    BY <1>3 DEF Persist, TypeOK
  <2> QED BY <2>1 DEF SavingBeats, Beats
<1>4. CASE db' = db /\ \A n \in Node : saving'[n] \subseteq saving[n]
  BY <1>4 DEF SavingBeats, Beats
<1>5. ASSUME NEW n \in Node,
             \/ Publish(n) \/ \E s \in net : BeginMerge(n, s)
             \/ \E k \in Key : HydrateRow(n, k)
             \/ Connect(n) \/ BeginHydrate(n) \/ EndHydrate(n) \/ Close(n) \/ Crash(n)
      PROVE  db' = db /\ \A m \in Node : saving'[m] \subseteq saving[m]
  BY <1>5 DEF TypeOK, Publish, BeginMerge, HydrateRow, Connect, BeginHydrate, EndHydrate,
              Close, Crash
<1>6. CASE UNCHANGED vars
  BY <1>4, <1>6 DEF vars
<1> QED BY <1>1, <1>2, <1>3, <1>4, <1>5, <1>6 DEF Next, Step

\* The database changes by commits only.
LEMMA DbStep ==
    ASSUME TypeInv, SavingBeats, [Next]_vars, NEW m \in Node, NEW j \in Key
    PROVE  DbAdvances(m, j)
<1> USE DEF TypeInv
<1>1. ASSUME NEW n \in Node, NEW w \in saving[n], Persist(n, w[1], w[2])
      PROVE  DbAdvances(m, j)
  <2>0. w[1] \in Key
    BY DEF TypeOK, Slot
  <2>1. CASE m = n /\ j = w[1]
    <3>1. db'[m][j] = w[2]
      BY <1>1, <2>0, <2>1 DEF Persist, TypeOK
    <3> QED BY <2>1, <3>1 DEF DbAdvances, SavingBeats
  <2>2. CASE m # n \/ j # w[1]
    <3>1. db'[m][j] = db[m][j]
      BY <1>1, <2>0, <2>2 DEF Persist, TypeOK
    <3> QED BY <3>1 DEF DbAdvances
  <2> QED BY <2>1, <2>2
<1>2. CASE db' = db
  BY <1>2 DEF DbAdvances
<1>3. ASSUME NEW n \in Node,
             \/ \E k \in Key, v \in Value : LocalSet(n, k, v)
             \/ \E w \in merging[n] : MergeKey(n, w[1], w[2])
             \/ Publish(n) \/ \E s \in net : BeginMerge(n, s)
             \/ \E k \in Key : HydrateRow(n, k)
             \/ Connect(n) \/ BeginHydrate(n) \/ EndHydrate(n) \/ Close(n) \/ Crash(n)
      PROVE  db' = db
  BY <1>3 DEF LocalSet, MergeKey, Publish, BeginMerge, HydrateRow, Connect, BeginHydrate,
              EndHydrate, Close, Crash
<1>4. CASE UNCHANGED vars
  BY <1>2, <1>4 DEF vars
<1> QED BY <1>1, <1>2, <1>3, <1>4 DEF Next, Step

\* While an agent stays up, merging late or repeated snapshots, hydrating and
\* reconnecting never replace an entry by one it beats (crdt.py set, merge,
\* _hydrate_from_db); and a row committed to SQLite never is, across any number
\* of restarts and of writes in flight at a crash (_persist_unlocked, connect,
\* close).
THEOREM LWWNeverRegresses == Quiesced /\ Spec => NeverRegresses
<1>1. Quiesced => (Spec => NeverRegresses)
  <2> SUFFICES ASSUME Quiesced PROVE Spec => NeverRegresses
    OBVIOUS
  <2>1. Init => SavingBeats
    BY DEF Init, SavingBeats
  <2>2. TypeInv /\ IInv /\ SavingBeats /\ [Next]_vars => SavingBeats'
    BY SavingStep
  <2>3. TypeInv /\ IInv /\ SavingBeats /\ [Next]_vars
          => [\A n \in Node, k \in Key : (Crash(n) \/ Advances(n, k)) /\ DbAdvances(n, k)]_vars
    BY AdvanceStep, DbStep
  <2>4. Spec => []IInv
    BY LWWInvariant
  <2> QED BY <2>1, <2>2, <2>3, <2>4, LWWTypeInv, PTL DEF Spec, NeverRegresses
<1> QED BY <1>1

-----------------------------------------------------------------------------
(* The map implements ReplicatedMap *)

\* Every entry an agent holds, saves, sends or is given was once written by
\* set(): no merge, hydration or restart makes one up.
Authentic ==
    /\ \A n \in Node : seen[n] \cup merging[n] \cup saving[n] \subseteq written
    /\ \A n \in Node, k \in Key : /\ mem[n][k] # None => <<k, mem[n][k]>> \in written
                                  /\ db[n][k] # None => <<k, db[n][k]>> \in written
    /\ \A s \in net, k \in Key : s[k] # None => <<k, s[k]>> \in written

\* `set` with a written entry.
LEMMA PutAuthentic ==
    ASSUME TypeOK, Authentic, NEW n \in Node, NEW k \in Key, NEW e \in Entry, Put(n, k, e),
           written \subseteq written', <<k, e>> \in written', UNCHANGED <<db, net>>,
           \A m \in Node : merging'[m] \subseteq merging[m]
    PROVE  Authentic'
<1>1. \A m \in Node : seen'[m] \cup merging'[m] \cup saving'[m] \subseteq written'
  <2>1. \A m \in Node : seen'[m] \subseteq seen[m] \cup {<<k, e>>} /\ saving'[m] \subseteq saving[m] \cup {<<k, e>>}
    BY DEF Put, TypeOK
  <2> QED BY <2>1 DEF Authentic
<1>2. \A m \in Node, j \in Key : mem'[m][j] = mem[m][j] \/ (j = k /\ mem'[m][j] = e)
  BY DEF Put, TypeOK
<1>3. \A m \in Node, j \in Key : mem'[m][j] # None => <<j, mem'[m][j]>> \in written'
  BY <1>2 DEF Authentic
<1>4. \A m \in Node, j \in Key : db'[m][j] # None => <<j, db'[m][j]>> \in written'
  BY DEF Authentic
<1>5. \A s \in net', j \in Key : s[j] # None => <<j, s[j]>> \in written'
  BY DEF Authentic
<1> QED BY <1>1, <1>3, <1>4, <1>5 DEF Authentic

LEMMA AuthenticStep == TypeInv /\ Authentic /\ [Next]_vars => Authentic'
<1> SUFFICES ASSUME TypeInv, Authentic, [Next]_vars PROVE Authentic'
  OBVIOUS
<1> USE DEF TypeInv
<1>1. ASSUME NEW n \in Node, NEW k \in Key, NEW v \in Value, LocalSet(n, k, v) PROVE Authentic'
  <2> DEFINE e == [ts |-> clock[n] + 1, writer |-> n, value |-> v]
  <2>1. /\ e \in Entry /\ Put(n, k, e) /\ written' = written \cup {<<k, e>>}
        /\ UNCHANGED <<db, net, merging>>
    BY <1>1 DEF LocalSet, Entry, TypeOK
  <2> HIDE DEF e
  <2> QED BY <2>1, PutAuthentic
<1>2. ASSUME NEW n \in Node, NEW w \in merging[n], MergeKey(n, w[1], w[2]) PROVE Authentic'
  <2>1. /\ w[1] \in Key /\ w[2] \in Entry /\ w = <<w[1], w[2]>> /\ w \in written
    BY DEF TypeOK, Slot, Authentic
  <2>2. /\ Put(n, w[1], w[2]) /\ UNCHANGED <<db, net, written>>
        /\ \A m \in Node : merging'[m] \subseteq merging[m]
    BY <1>2 DEF MergeKey, TypeOK
  <2> QED BY <2>1, <2>2, PutAuthentic
<1>3. ASSUME NEW n \in Node, NEW k \in Key, HydrateRow(n, k) PROVE Authentic'
  <2>1. db[n][k] # None /\ <<k, db[n][k]>> \in written
    BY <1>3 DEF HydrateRow, RowsExist, Authentic
  <2>2. \A m \in Node : seen'[m] \subseteq seen[m] \cup {<<k, db[n][k]>>}
    BY <1>3 DEF HydrateRow, TypeOK
  <2>3. \A m \in Node, j \in Key : mem'[m][j] = mem[m][j] \/ (j = k /\ mem'[m][j] = db[n][k])
    BY <1>3 DEF HydrateRow, TypeOK
  <2>4. UNCHANGED <<db, saving, merging, net, written>>
    BY <1>3 DEF HydrateRow
  <2>5. \A m \in Node : seen'[m] \cup merging'[m] \cup saving'[m] \subseteq written'
    BY <2>1, <2>2, <2>4 DEF Authentic
  <2>6. \A m \in Node, j \in Key : mem'[m][j] # None => <<j, mem'[m][j]>> \in written'
    BY <2>1, <2>3, <2>4 DEF Authentic
  <2> QED BY <2>4, <2>5, <2>6 DEF Authentic
<1>4. ASSUME NEW n \in Node, Publish(n) PROVE Authentic'
  <2>1. net' = net \cup {mem[n]} /\ UNCHANGED <<mem, db, saving, merging, written, seen>>
    BY <1>4 DEF Publish
  <2> QED BY <2>1 DEF Authentic
<1>5. ASSUME NEW n \in Node, NEW s \in net, BeginMerge(n, s) PROVE Authentic'
  <2>1. UNCHANGED <<mem, db, saving, net, written, seen>>
    BY <1>5 DEF BeginMerge
  <2>2. \A m \in Node : merging'[m] \subseteq merging[m] \cup {<<k, s[k]>> : k \in {j \in Key : s[j] # None}}
    BY <1>5 DEF BeginMerge, TypeOK
  <2>3. \A m \in Node : merging'[m] \subseteq written
    BY <2>2 DEF Authentic
  <2> QED BY <2>1, <2>3 DEF Authentic
<1>6. ASSUME NEW n \in Node, NEW w \in saving[n], Persist(n, w[1], w[2]) PROVE Authentic'
  <2>1. w[1] \in Key /\ w = <<w[1], w[2]>> /\ w \in written
    BY DEF TypeOK, Slot, Authentic
  <2>2. UNCHANGED <<mem, merging, net, written, seen>> /\ \A m \in Node : saving'[m] \subseteq saving[m]
    BY <1>6 DEF Persist, TypeOK
  <2>3. \A m \in Node, j \in Key : db'[m][j] = db[m][j] \/ (j = w[1] /\ db'[m][j] = w[2])
    BY <1>6, <2>1 DEF Persist, TypeOK
  <2>4. ASSUME NEW m \in Node, NEW j \in Key, db'[m][j] # None PROVE <<j, db'[m][j]>> \in written'
    <3>1. CASE db'[m][j] = db[m][j]
      BY <2>2, <2>4, <3>1 DEF Authentic
    <3>2. CASE j = w[1] /\ db'[m][j] = w[2]
      <4>1. <<j, db'[m][j]>> = w
        BY <2>1, <3>2
      <4> QED BY <2>1, <2>2, <4>1
    <3> QED BY <2>3, <3>1, <3>2
  <2> QED BY <2>2, <2>4 DEF Authentic
<1>7. ASSUME NEW n \in Node, Connect(n) \/ BeginHydrate(n) \/ EndHydrate(n)
      PROVE  UNCHANGED <<mem, db, saving, merging, net, written, seen>>
  BY <1>7 DEF Connect, BeginHydrate, EndHydrate
<1>8. ASSUME NEW n \in Node, Close(n) PROVE Authentic'
  <2>1. UNCHANGED <<mem, db, merging, net, written, seen>> /\ \A m \in Node : saving'[m] \subseteq saving[m]
    BY <1>8 DEF Close, TypeOK
  <2> QED BY <2>1 DEF Authentic
<1>9. ASSUME NEW n \in Node, Crash(n) PROVE Authentic'
  <2>1. /\ UNCHANGED <<db, net, written>>
        /\ \A m \in Node : saving'[m] \subseteq saving[m] /\ merging'[m] \subseteq merging[m] /\ seen'[m] \subseteq seen[m]
        /\ \A m \in Node, j \in Key : mem'[m][j] \in {mem[m][j], None}
    BY <1>9 DEF Crash, TypeOK
  <2> QED BY <2>1 DEF Authentic
<1>10. ASSUME UNCHANGED <<mem, db, saving, merging, net, written, seen>> PROVE Authentic'
  BY <1>10 DEF Authentic
<1>11. CASE UNCHANGED vars
  BY <1>10, <1>11 DEF vars
<1> QED BY <1>1, <1>2, <1>3, <1>4, <1>5, <1>6, <1>7, <1>8, <1>9, <1>10, <1>11 DEF Next, Step

\* Nothing an agent holds, on disk, in flight or in memory, was never written.
LEMMA AuthenticInvariant == Spec => []Authentic
<1>1. Init => Authentic
  BY DEF Init, Authentic
<1> QED BY <1>1, AuthenticStep, LWWTypeInv, PTL DEF Spec

\* HoldsTheJoin, when every agent compares values, is what ReplicatedMap reads.
LEMMA JoinReads ==
    ASSUME ByValue = Node, HoldsTheJoin, NEW n \in Node
    PROVE  RM!Reads(mem[n], seen[n])
BY DEF HoldsTheJoin, Beats, RM!Reads, RM!Above

LEMMA JoinReadsNext ==
    ASSUME ByValue = Node, HoldsTheJoin', NEW n \in Node
    PROVE  RM!Reads(mem'[n], seen'[n])
BY DEF HoldsTheJoin, Beats, RM!Reads, RM!Above

\* A write is stamped later than all its agent was given in this incarnation.
LEMMA WritesAbove ==
    ASSUME TypeOK, HoldsTheJoin, ClockIsLatest, NEW n \in Node, NEW x \in seen[n]
    PROVE  x[2].ts \in Nat /\ x[2].ts <= clock[n]
<1>1. x[1] \in Key /\ x[2] \in Entry
  BY DEF TypeOK, Slot
<1>2. mem[n][x[1]] # None /\ ~Beats(n, x[2], mem[n][x[1]])
  BY <1>1 DEF HoldsTheJoin
<1>3. mem[n][x[1]] \in Entry /\ mem[n][x[1]].ts <= clock[n] /\ clock[n] \in Nat
  BY <1>1, <1>2 DEF TypeOK, Row, ClockIsLatest
<1>4. x[2].ts \in Nat /\ mem[n][x[1]].ts \in Nat
  BY <1>1, <1>3 DEF Entry
<1> QED BY <1>2, <1>3, <1>4 DEF Beats

\* `set` is the abstract step of coming to know an entry.
LEMMA PutKnows ==
    ASSUME ByValue = Node, TypeOK, HoldsTheJoin, NEW n \in Node, NEW k \in Key, NEW e \in Entry,
           Put(n, k, e)
    PROVE  RM!Knows(n, <<k, e>>)
<1>1. HoldsTheJoin'
  BY PutJoins
<1>2. RM!Reads(mem'[n], seen'[n])
  BY <1>1, JoinReadsNext
<1>3. \A m \in Node \ {n} : mem'[m] = mem[m]
  BY DEF Put, TypeOK
<1>4. seen' = [seen EXCEPT ![n] = @ \cup {<<k, e>>}]
  BY DEF Put
<1> QED BY <1>2, <1>3, <1>4 DEF RM!Knows

LEMMA RefinesStep ==
    ASSUME Quiesced, ByValue = Node, TypeInv, IInv, Authentic, [Next]_vars
    PROVE  [RM!Next]_(RM!vars)
<1> USE DEF TypeInv, IInv
<1>1. ASSUME NEW n \in Node, NEW k \in Key, NEW v \in Value, LocalSet(n, k, v) PROVE RM!Write(n)
  <2> DEFINE e == [ts |-> clock[n] + 1, writer |-> n, value |-> v]
             w == <<k, e>>
  <2>1. /\ e \in Entry /\ Put(n, k, e) /\ written' = written \cup {w}
        /\ clock[n] \in Nat /\ e.ts = clock[n] + 1 /\ e.writer = n
    BY <1>1 DEF LocalSet, Entry, TypeOK
  <2> HIDE DEF e
  <2>2. RM!Knows(n, w)
    BY <2>1, PutKnows
  <2>3. \A x \in seen[n] : e.ts > x[2].ts
    <3> SUFFICES ASSUME NEW x \in seen[n] PROVE e.ts > x[2].ts
      OBVIOUS
    <3>1. x[2].ts \in Nat /\ x[2].ts <= clock[n]
      BY WritesAbove
    <3> QED BY <2>1, <3>1
  <2>4. w[2] = e /\ w \in written'
    BY <2>1
  <2> HIDE DEF w
  <2> QED BY <2>1, <2>2, <2>3, <2>4 DEF RM!Write
<1>2. ASSUME NEW n \in Node, NEW w \in merging[n], MergeKey(n, w[1], w[2]) PROVE RM!Learn(n)
  <2>1. w[1] \in Key /\ w[2] \in Entry /\ w = <<w[1], w[2]>> /\ w \in written
    BY DEF TypeOK, Slot, Authentic
  <2>2. Put(n, w[1], w[2]) /\ UNCHANGED written
    BY <1>2 DEF MergeKey
  <2>3. RM!Knows(n, w)
    BY <2>1, <2>2, PutKnows
  <2> QED BY <2>1, <2>2, <2>3 DEF RM!Learn
<1>3. ASSUME NEW n \in Node, NEW k \in Key, HydrateRow(n, k) PROVE RM!Learn(n)
  <2>1. PICK w \in written : w = <<k, db[n][k]>>
    BY <1>3 DEF HydrateRow, RowsExist, Authentic
  <2>2. HoldsTheJoin'
    BY IStep
  <2>3. RM!Reads(mem'[n], seen'[n])
    BY <2>2, JoinReadsNext
  <2>4. /\ seen' = [seen EXCEPT ![n] = @ \cup {w}] /\ UNCHANGED written
        /\ \A m \in Node \ {n} : mem'[m] = mem[m]
    BY <1>3, <2>1 DEF HydrateRow, TypeOK
  <2>5. RM!Knows(n, w)
    BY <2>3, <2>4 DEF RM!Knows
  <2> QED BY <2>4, <2>5 DEF RM!Learn
<1>4. ASSUME NEW n \in Node, Crash(n) PROVE RM!Forget(n)
  BY <1>4 DEF Crash, RM!Forget
<1>5. ASSUME NEW n \in Node,
             \/ Publish(n) \/ \E s \in net : BeginMerge(n, s)
             \/ \E w \in saving[n] : Persist(n, w[1], w[2])
             \/ Connect(n) \/ BeginHydrate(n) \/ EndHydrate(n) \/ Close(n)
      PROVE  UNCHANGED RM!vars
  BY <1>5 DEF Publish, BeginMerge, Persist, Connect, BeginHydrate, EndHydrate, Close, RM!vars
<1>6. CASE UNCHANGED vars
  BY <1>6 DEF vars, RM!vars
<1> QED BY <1>1, <1>2, <1>3, <1>4, <1>5, <1>6 DEF Next, Step, RM!Next

\* Every behaviour of agents that all break ties by value (the Python and the
\* TypeScript SDK) is one of ReplicatedMap: locks, snapshots, SQLite and restarts
\* do not show; an agent reads the greatest write it was given and stamps its
\* own above all of them.
THEOREM LWWImplementsReplicatedMap ==
    Quiesced /\ ByValue = Node /\ Spec => ImplementsReplicatedMap
<1>1. Quiesced /\ ByValue = Node => (Spec => ImplementsReplicatedMap)
  <2> SUFFICES ASSUME Quiesced, ByValue = Node PROVE Spec => ImplementsReplicatedMap
    OBVIOUS
  <2>1. Init => RM!Init
    BY DEF Init, RM!Init
  <2>2. TypeInv /\ IInv /\ Authentic /\ [Next]_vars => [RM!Next]_(RM!vars)
    BY RefinesStep
  <2>3. Spec => []IInv
    BY LWWInvariant
  <2> QED BY <2>1, <2>2, <2>3, LWWTypeInv, AuthenticInvariant, PTL
          DEF Spec, ImplementsReplicatedMap, RM!Spec
<1> QED BY <1>1

-----------------------------------------------------------------------------
(* Stamps *)

\* The stamps an agent has given out are behind its clock, or, until a durable
\* agent has read its rows back, behind a row of its database.
StampsBounded(n) ==
    \A w \in written : w[2].writer = n =>
        /\ w[2].ts > 0
        /\ IF n \in Durable /\ phase[n] # "ready"
           THEN \E k \in Key : db[n][k] # None /\ w[2].ts <= db[n][k].ts
           ELSE w[2].ts <= clock[n]

LEMMA StampsStep ==
    ASSUME Quiesced, ~CrashMidWrite, Mortal \subseteq Durable, TypeInv, IInv, [Next]_vars,
           StampsUnique, \A n \in Node : StampsBounded(n)
    PROVE  StampsUnique' /\ \A n \in Node : StampsBounded(n)'
<1> USE DEF TypeInv, IInv
<1>0. \A w \in written : w[2] \in Entry /\ w[2].ts \in Nat
  BY DEF TypeOK, Slot, Entry
<1>1. ASSUME NEW n \in Node, NEW k \in Key, NEW v \in Value, LocalSet(n, k, v)
      PROVE  StampsUnique' /\ \A m \in Node : StampsBounded(m)'
  <2> DEFINE e == [ts |-> clock[n] + 1, writer |-> n, value |-> v]
             w == <<k, e>>
  <2>1. /\ written' = written \cup {w} /\ clock[n] \in Nat /\ e.ts = clock[n] + 1 /\ e.writer = n
        /\ clock'[n] = clock[n] + 1 /\ \A m \in Node \ {n} : clock'[m] = clock[m]
        /\ UNCHANGED <<phase, db>> /\ w[2] = e
    BY <1>1 DEF LocalSet, TypeOK
  <2> HIDE DEF e, w
  <2>2. ~(n \in Durable /\ phase[n] # "ready")
    BY <1>1 DEF LocalSet, Usable
  <2>3. \A x \in written : x[2].writer = n => x[2].ts <= clock[n]
    BY <2>2 DEF StampsBounded
  <2>4. \A x \in written : x[2].writer = n => x[2].ts # e.ts /\ x[2].ts <= clock[n] + 1
    BY <1>0, <2>1, <2>3
  <2>5. StampsUnique'
    BY <2>1, <2>4 DEF StampsUnique
  <2>6. StampsBounded(n)'
    <3>1. e.ts > 0 /\ e.ts <= clock'[n]
      BY <2>1
    <3> QED BY <2>1, <2>2, <2>4, <3>1 DEF StampsBounded
  <2>7. \A m \in Node \ {n} : StampsBounded(m)'
    BY <2>1 DEF StampsBounded
  <2> QED BY <2>5, <2>6, <2>7
<1>2. ASSUME UNCHANGED written PROVE StampsUnique'
  BY <1>2 DEF StampsUnique
<1>3. ASSUME NEW m \in Node, UNCHANGED <<written, db>>, phase'[m] = phase[m],
             clock'[m] \in Nat, clock'[m] >= clock[m]
      PROVE  StampsBounded(m)'
  <2>1. clock[m] \in Nat
    BY DEF TypeOK
  <2>2. \A w \in written : w[2].ts <= clock[m] => w[2].ts <= clock'[m]
    BY <1>0, <1>3, <2>1
  <2> QED BY <1>3, <2>2 DEF StampsBounded
<1>4. ASSUME NEW n \in Node, NEW w \in merging[n], MergeKey(n, w[1], w[2])
      PROVE  StampsUnique' /\ \A m \in Node : StampsBounded(m)'
  <2>1. w[2].ts \in Nat
    BY DEF TypeOK, Slot, Entry
  <2>2. UNCHANGED <<written, db, phase>> /\ clock' = [clock EXCEPT ![n] = IF w[2].ts > @ THEN w[2].ts ELSE @]
    BY <1>4 DEF MergeKey
  <2>3. \A m \in Node : clock'[m] \in Nat /\ clock'[m] >= clock[m]
    BY <2>1, <2>2 DEF TypeOK
  <2> QED BY <1>2, <1>3, <2>2, <2>3
<1>5. ASSUME NEW n \in Node, NEW k \in Key, HydrateRow(n, k)
      PROVE  StampsUnique' /\ \A m \in Node : StampsBounded(m)'
  <2>1. db[n][k] \in Entry /\ db[n][k].ts \in Nat
    BY <1>5 DEF HydrateRow, RowsExist, TypeOK, Row, Entry
  <2>2. UNCHANGED <<written, db, phase>> /\ clock' = [clock EXCEPT ![n] = IF db[n][k].ts > @ THEN db[n][k].ts ELSE @]
    BY <1>5 DEF HydrateRow
  <2>3. \A m \in Node : clock'[m] \in Nat /\ clock'[m] >= clock[m]
    BY <2>1, <2>2 DEF TypeOK
  <2> QED BY <1>2, <1>3, <2>2, <2>3
<1>6. ASSUME NEW n \in Node, NEW w \in saving[n], Persist(n, w[1], w[2])
      PROVE  StampsUnique' /\ \A m \in Node : StampsBounded(m)'
  <2>1. phase[n] = "ready" /\ UNCHANGED <<written, clock, phase>>
    BY <1>6 DEF Persist, DbTracks
  <2>2. \A m \in Node \ {n} : db'[m] = db[m]
    BY <1>6 DEF Persist, TypeOK
  <2>3. StampsBounded(n)'
    BY <2>1 DEF StampsBounded
  <2>4. \A m \in Node \ {n} : StampsBounded(m)'
    BY <2>1, <2>2 DEF StampsBounded
  <2> QED BY <1>2, <2>1, <2>3, <2>4
<1>7. ASSUME NEW n \in Node, Connect(n) \/ BeginHydrate(n)
      PROVE  StampsUnique' /\ \A m \in Node : StampsBounded(m)'
  <2>1. /\ UNCHANGED <<written, clock, db>> /\ phase[n] # "ready" /\ phase'[n] # "ready"
        /\ \A m \in Node \ {n} : phase'[m] = phase[m]
    BY <1>7 DEF Connect, BeginHydrate, TypeOK
  <2>2. \A m \in Node : StampsBounded(m)'
    BY <2>1 DEF StampsBounded
  <2> QED BY <1>2, <2>1, <2>2
<1>8. ASSUME NEW n \in Node, EndHydrate(n)
      PROVE  StampsUnique' /\ \A m \in Node : StampsBounded(m)'
  <2>1. /\ UNCHANGED <<written, clock, db>> /\ phase[n] = "hydrating" /\ phase'[n] = "ready"
        /\ unread[n] = {} /\ \A m \in Node \ {n} : phase'[m] = phase[m]
    BY <1>8 DEF EndHydrate, TypeOK
  <2>2. n \in Durable /\ \A k \in Key : mem[n][k] = db[n][k]
    BY <2>1 DEF DbTracks
  <2>3. \A k \in Key : db[n][k] # None => db[n][k].ts \in Nat /\ db[n][k].ts <= clock[n] /\ clock[n] \in Nat
    BY <2>2 DEF ClockIsLatest, TypeOK, Row, Entry
  <2>4. \A w \in written : w[2].writer = n => w[2].ts <= clock[n]
    <3> SUFFICES ASSUME NEW w \in written, w[2].writer = n PROVE w[2].ts <= clock[n]
      OBVIOUS
    <3>1. PICK k \in Key : db[n][k] # None /\ w[2].ts <= db[n][k].ts
      BY <2>1, <2>2 DEF StampsBounded
    <3> QED BY <1>0, <2>3, <3>1
  <2>5. StampsBounded(n)'
    BY <2>1, <2>4 DEF StampsBounded
  <2>6. \A m \in Node \ {n} : StampsBounded(m)'
    BY <2>1 DEF StampsBounded
  <2> QED BY <1>2, <2>1, <2>5, <2>6
<1>9. ASSUME NEW n \in Node, Close(n) \/ Crash(n)
      PROVE  StampsUnique' /\ \A m \in Node : StampsBounded(m)'
  <2>1. /\ UNCHANGED <<written, db>> /\ n \in Durable /\ saving[n] = {} /\ phase'[n] = "closed"
        /\ \A m \in Node \ {n} : phase'[m] = phase[m] /\ clock'[m] = clock[m]
    BY <1>9 DEF Close, Crash, TypeOK, LockFree
  <2>2. ASSUME NEW w \in written, w[2].writer = n
        PROVE  \E k \in Key : db[n][k] # None /\ w[2].ts <= db[n][k].ts
    <3>1. CASE phase[n] # "ready"
      BY <2>1, <2>2, <3>1 DEF StampsBounded
    <3>2. CASE phase[n] = "ready"
      <4>1. \A k \in Key : mem[n][k] = db[n][k]
        BY <2>1, <3>2 DEF DbTracks
      <4>2. w[2].ts > 0 /\ w[2].ts <= clock[n] /\ clock[n] \in Nat
        BY <2>2, <3>2 DEF StampsBounded, TypeOK
      <4>3. clock[n] > 0
        BY <1>0, <4>2
      <4>4. PICK k \in Key : mem[n][k] # None /\ mem[n][k].ts = clock[n]
        BY <4>3 DEF ClockIsLatest
      <4> QED BY <4>1, <4>2, <4>4
    <3> QED BY <3>1, <3>2
  <2>3. StampsBounded(n)'
    BY <2>1, <2>2 DEF StampsBounded
  <2>4. \A m \in Node \ {n} : StampsBounded(m)'
    BY <2>1 DEF StampsBounded
  <2> QED BY <1>2, <2>1, <2>3, <2>4
<1>10. ASSUME NEW n \in Node, Publish(n) \/ \E s \in net : BeginMerge(n, s)
       PROVE  UNCHANGED <<written, clock, db, phase>>
  BY <1>10 DEF Publish, BeginMerge
<1>11. ASSUME UNCHANGED <<written, clock, db, phase>>
       PROVE  StampsUnique' /\ \A m \in Node : StampsBounded(m)'
  BY <1>11 DEF StampsUnique, StampsBounded
<1>12. CASE UNCHANGED vars
  BY <1>11, <1>12 DEF vars
<1> QED BY <1>1, <1>4, <1>5, <1>6, <1>7, <1>8, <1>9, <1>10, <1>11, <1>12 DEF Next, Step

\* If the agents that restart persist their map and none dies between a write and
\* its commit, no two writes ever made carry the same stamp: hydration gives a
\* restarted agent a clock at or past every stamp it had given out.
THEOREM LWWStampsUnique ==
    Quiesced /\ ~CrashMidWrite /\ Mortal \subseteq Durable /\ Spec => []StampsUnique
<1> DEFINE SInv == StampsUnique /\ \A n \in Node : StampsBounded(n)
<1>1. Quiesced /\ ~CrashMidWrite /\ Mortal \subseteq Durable => (Spec => []StampsUnique)
  <2> SUFFICES ASSUME Quiesced, ~CrashMidWrite, Mortal \subseteq Durable PROVE Spec => []StampsUnique
    OBVIOUS
  <2>1. Init => SInv
    BY DEF Init, StampsUnique, StampsBounded
  <2>2. TypeInv /\ IInv /\ SInv /\ [Next]_vars => SInv'
    BY StampsStep
  <2>3. Spec => []IInv
    BY LWWInvariant
  <2>4. SInv => StampsUnique
    OBVIOUS
  <2> HIDE DEF SInv
  <2> QED BY <2>1, <2>2, <2>3, <2>4, LWWTypeInv, PTL DEF Spec
<1> QED BY <1>1

-----------------------------------------------------------------------------
(* Convergence *)

\* The entries two agents hold for a key, when they were given the same writes:
\* both were given both, and neither beats the other.
LEMMA SameGiven ==
    ASSUME TypeOK, HoldsTheJoin, NEW m \in Node, NEW n \in Node, seen[m] = seen[n],
           NEW k \in Key, mem[m][k] # None
    PROVE  /\ mem[n][k] # None /\ mem[m][k] \in Entry /\ mem[n][k] \in Entry
           /\ <<k, mem[m][k]>> \in seen[m] /\ <<k, mem[n][k]>> \in seen[m]
           /\ ~Beats(m, mem[n][k], mem[m][k]) /\ ~Beats(n, mem[m][k], mem[n][k])
<1>1. PICK w : w = <<k, mem[m][k]>>
  OBVIOUS
<1>2. w[1] = k /\ w[2] = mem[m][k]
  BY <1>1
<1>3. w \in seen[m] /\ mem[n][k] # None /\ ~Beats(n, mem[m][k], mem[n][k])
  BY <1>1, <1>2 DEF HoldsTheJoin
<1>4. PICK x : x = <<k, mem[n][k]>>
  OBVIOUS
<1>5. x[1] = k /\ x[2] = mem[n][k]
  BY <1>4
<1>6. x \in seen[m] /\ ~Beats(m, mem[n][k], mem[m][k])
  BY <1>3, <1>4, <1>5 DEF HoldsTheJoin
<1>7. mem[m][k] \in Entry /\ mem[n][k] \in Entry
  BY <1>3 DEF TypeOK, Row
<1> QED BY <1>1, <1>3, <1>4, <1>6, <1>7

\* Neither of two entries beats the other only if they carry the same stamp.
LEMMA TiedStamps ==
    ASSUME NEW m \in Node, NEW n \in Node, NEW e \in Entry, NEW f \in Entry,
           ~Beats(m, f, e), ~Beats(n, e, f)
    PROVE  /\ e.ts = f.ts /\ e.writer = f.writer
           /\ m \in ByValue /\ n \in ByValue => e = f
<1>1. /\ e.ts \in Nat /\ f.ts \in Nat /\ e.writer \in Nat /\ f.writer \in Nat
      /\ e.value \in Nat /\ f.value \in Nat
  BY NodeAssumption DEF Entry
<1>2. e.ts = f.ts /\ e.writer = f.writer
  BY <1>1 DEF Beats
<1>3. m \in ByValue /\ n \in ByValue => e.value = f.value
  BY <1>1, <1>2 DEF Beats
<1>4. e.value = f.value => e = f
  BY <1>2 DEF Entry
<1> QED BY <1>2, <1>3, <1>4

\* Maps that agree wherever the first has an entry and the other way round.
LEMMA SameMaps ==
    ASSUME TypeOK, HoldsTheJoin, NEW m \in Node, NEW n \in Node, seen[m] = seen[n],
           \A k \in Key : mem[m][k] # None => mem[m][k] = mem[n][k]
    PROVE  mem[m] = mem[n]
<1>1. mem[m] \in [Key -> Row] /\ mem[n] \in [Key -> Row]
  BY DEF TypeOK
<1>2. ASSUME NEW k \in Key PROVE mem[m][k] = mem[n][k]
  <2>1. CASE mem[m][k] # None
    BY <2>1
  <2>2. CASE mem[m][k] = None
    <3>1. mem[n][k] # None => mem[m][k] # None
      BY SameGiven
    <3> QED BY <2>2, <3>1
  <2> QED BY <2>1, <2>2
<1> QED BY <1>1, <1>2

\* Agents whose SDK compares values (crdt.py set, and the TypeScript map) hold the
\* same map once given the same writes: the order of arrival, repetitions, late
\* snapshots and restarts do not matter, even if two writes carry one stamp.
THEOREM LWWConvergent == Quiesced /\ ByValue = Node /\ Spec => []Convergent
<1>1. Quiesced /\ ByValue = Node => (Spec => []Convergent)
  <2> SUFFICES ASSUME Quiesced, ByValue = Node PROVE Spec => []Convergent
    OBVIOUS
  <2>1. TypeInv /\ IInv => Convergent
    <3> SUFFICES ASSUME TypeOK, HoldsTheJoin, NEW m \in Node, NEW n \in Node, seen[m] = seen[n]
                 PROVE  mem[m] = mem[n]
      BY DEF TypeInv, IInv, Convergent
    <3>1. ASSUME NEW k \in Key, mem[m][k] # None PROVE mem[m][k] = mem[n][k]
      <4>1. PICK e \in Entry, f \in Entry : e = mem[m][k] /\ f = mem[n][k]
        BY <3>1, SameGiven
      <4>2. ~Beats(m, f, e) /\ ~Beats(n, e, f)
        BY <3>1, <4>1, SameGiven
      <4>3. e = f
        BY <4>2, TiedStamps
      <4> QED BY <4>1, <4>3
    <3> QED BY <3>1, SameMaps
  <2>2. Spec => []IInv
    BY LWWInvariant
  <2> QED BY <2>1, <2>2, LWWTypeInv, PTL
<1> QED BY <1>1

\* Agents of any SDKs do so, whether they compare values or not, if those that
\* restart persist their map and none dies between a write and its commit: then
\* there are no two writes of one stamp to choose between.
THEOREM LWWConvergentMixed ==
    Quiesced /\ ~CrashMidWrite /\ Mortal \subseteq Durable /\ Spec => []Convergent
<1>1. Quiesced /\ ~CrashMidWrite /\ Mortal \subseteq Durable => (Spec => []Convergent)
  <2> SUFFICES ASSUME Quiesced, ~CrashMidWrite, Mortal \subseteq Durable PROVE Spec => []Convergent
    OBVIOUS
  <2>1. TypeInv /\ IInv /\ Authentic /\ StampsUnique => Convergent
    <3> SUFFICES ASSUME TypeOK, HoldsTheJoin, Authentic, StampsUnique,
                        NEW m \in Node, NEW n \in Node, seen[m] = seen[n]
                 PROVE  mem[m] = mem[n]
      BY DEF TypeInv, IInv, Convergent
    <3>1. ASSUME NEW k \in Key, mem[m][k] # None PROVE mem[m][k] = mem[n][k]
      <4>1. PICK a, b : a = <<k, mem[m][k]>> /\ b = <<k, mem[n][k]>>
        OBVIOUS
      <4>2. a \in written /\ b \in written
        BY <3>1, <4>1, SameGiven DEF Authentic
      <4>3. mem[m][k].ts = mem[n][k].ts /\ mem[m][k].writer = mem[n][k].writer
        <5>1. PICK e \in Entry, f \in Entry : e = mem[m][k] /\ f = mem[n][k]
          BY <3>1, SameGiven
        <5>2. ~Beats(m, f, e) /\ ~Beats(n, e, f)
          BY <3>1, <5>1, SameGiven
        <5> QED BY <5>1, <5>2, TiedStamps
      <4>4. a[2] = mem[m][k] /\ b[2] = mem[n][k]
        BY <4>1
      <4>5. a = b
        BY <4>2, <4>3, <4>4 DEF StampsUnique
      <4> QED BY <4>4, <4>5
    <3> QED BY <3>1, SameMaps
  <2>2. Spec => []IInv
    BY LWWInvariant
  <2>3. Spec => []StampsUnique
    BY LWWStampsUnique
  <2> QED BY <2>1, <2>2, <2>3, LWWTypeInv, AuthenticInvariant, PTL
<1> QED BY <1>1
=============================================================================
