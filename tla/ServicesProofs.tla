---------------------------- MODULE ServicesProofs ----------------------------
(***************************************************************************)
(* Proofs about the sends to many peers, the chunked transfers and the     *)
(* webhook gateway's limit of MCServices, for every set of peers, calls,   *)
(* payloads, chunk sizes and threads.                                      *)
(***************************************************************************)
EXTENDS JoinProofs

\* A step of the services is one of the chosen component, or leaves it alone.
LEMMA OneService ==
    ASSUME [ServicesNext]_allVars
    PROVE  /\ F!Next \/ UNCHANGED fanoutVars
           /\ T!Next \/ UNCHANGED transferVars
           /\ W!Next \/ UNCHANGED webhookVars
<1>1. CASE UNCHANGED allVars
  BY <1>1 DEF allVars
<1>2. CASE OthersStill
  BY <1>2 DEF OthersStill, ServicesNext, allVars
<1> QED BY <1>1, <1>2 DEF ServicesNext

-----------------------------------------------------------------------------
(* send_broadcast and send_multicast *)

FanTypes ==
    /\ registry \subseteq Peer
    /\ DOMAIN fanPc = Sends
    /\ todo \in [Sends -> SUBSET Peer] /\ steady \in [Sends -> SUBSET Peer]
    /\ count \in [Sends -> Nat] /\ got \in [Sends -> [Peer -> Nat]]

Intended(c, p) == kind[c] = "broadcast" \/ p \in Capable
Reached(c) == {p \in Peer : got[c][p] = 1}

\* Before its loop a call has dispatched nothing.
Unsent(c) == count[c] = 0 /\ \A p \in Peer : got[c][p] = 0

\* While it loops, of the peers that stay those are yet to be reached that have
\* not been: its copy of the registry stands for what is left to do.
Halfway(c) ==
    /\ count[c] = Cardinality(Reached(c))
    /\ \A p \in Peer : got[c][p] <= 1 /\ (p \in todo[c] => got[c][p] = 0)
    /\ \A p \in steady[c] : Intended(c, p) <=> (p \in todo[c] \/ got[c][p] = 1)

Finished(c) ==
    \/ c \in relayed /\ count[c] = 1 /\ \A p \in Peer : got[c][p] = 0
    \/ /\ c \notin relayed /\ count[c] = Cardinality({p \in Peer : got[c][p] = 1})
       /\ \A p \in Peer : got[c][p] <= 1
       /\ \A p \in steady[c] : got[c][p] = 1 <=> (kind[c] = "broadcast" \/ p \in Capable)

Sending(c) ==
    /\ kind[c] \in {"broadcast", "multicast"}
    /\ fanPc[c] \in {"ready", "relaying", "looping", "done"}
    /\ fanPc[c] # "done" => c \notin relayed
    /\ fanPc[c] \in {"ready", "relaying"} => Unsent(c)
    /\ fanPc[c] = "looping" => Halfway(c)
    /\ fanPc[c] = "done" => Finished(c)

FanInv == FanTypes /\ \A c \in Sends : Sending(c)

LEMMA FanInit == F!Init => FanInv
<1> SUFFICES ASSUME F!Init PROVE FanInv
  OBVIOUS
<1>1. FanTypes
  BY DEF F!Init, FanTypes
<1>2. \A c \in Sends : Sending(c)
  BY DEF F!Init, Sending, Unsent
<1> QED BY <1>1, <1>2 DEF FanInv

\* A call of which nothing changes stays as it is.
LEMMA OtherCall ==
    ASSUME NEW c \in Sends, Sending(c), fanPc'[c] = fanPc[c], todo'[c] = todo[c], count'[c] = count[c],
           got'[c] = got[c], steady'[c] = steady[c], kind' = kind, c \in relayed <=> c \in relayed'
    PROVE  Sending(c)'
<1>1. Unsent(c) => Unsent(c)'
  BY DEF Unsent
<1>2. Halfway(c) => Halfway(c)'
  BY DEF Halfway, Reached, Intended
<1>3. Finished(c) => Finished(c)'
  BY DEF Finished
<1> QED BY <1>1, <1>2, <1>3 DEF Sending

\* The loop begins: its copy is the registry, or the part with the capability.
LEMMA LoopBegins ==
    ASSUME FanInv, NEW c \in Sends, F!Loop(c), Unsent(c), c \notin relayed,
           UNCHANGED <<registry, kind, count, got, relayed>>
    PROVE  FanInv'
<1>0. /\ FanTypes /\ registry \subseteq Peer /\ count \in [Sends -> Nat] /\ got \in [Sends -> [Peer -> Nat]]
      /\ \A d \in Sends : Sending(d)
  BY DEF FanInv, FanTypes
<1>1. /\ todo' = [todo EXCEPT ![c] = F!Audience(c)] /\ steady' = [steady EXCEPT ![c] = registry]
      /\ fanPc' = [fanPc EXCEPT ![c] = "looping"] /\ F!Audience(c) \subseteq registry
      /\ \A p \in registry : p \in F!Audience(c) <=> (kind[c] # "multicast" \/ p \in Capable)
  BY DEF F!Loop, F!Audience
<1>2. FanTypes'
  BY <1>0, <1>1 DEF FanTypes
<1>3. Sending(c)'
  <2>1. /\ todo'[c] = F!Audience(c) /\ steady'[c] = registry /\ fanPc'[c] = "looping"
        /\ count'[c] = 0 /\ \A p \in Peer : got'[c][p] = 0
    BY <1>0, <1>1 DEF FanTypes, Unsent
  <2>2. Reached(c)' = {}
    BY <2>1 DEF Reached
  <2>3. kind[c] \in {"broadcast", "multicast"}
    BY <1>0 DEF Sending
  <2>4. \A p \in registry : Intended(c, p)' <=> p \in F!Audience(c)
    BY <1>1, <2>3 DEF Intended
  <2>5. Halfway(c)'
    BY <1>0, <2>1, <2>2, <2>4, FS_EmptySet DEF Halfway
  <2> QED BY <2>1, <2>3, <2>5 DEF Sending
<1>4. ASSUME NEW d \in Sends, d # c PROVE Sending(d)'
  <2>1. fanPc'[d] = fanPc[d] /\ todo'[d] = todo[d] /\ steady'[d] = steady[d]
    BY <1>0, <1>1, <1>4 DEF FanTypes
  <2> QED BY <1>0, <2>1, OtherCall
<1> QED BY <1>2, <1>3, <1>4 DEF FanInv

\* One peer of the copy is dispatched to, and counted.
LEMMA DispatchStep ==
    ASSUME FanInv, NEW c \in Sends, NEW p \in Peer, F!Dispatch(c, p)
    PROVE  FanInv'
<1>0. /\ FanTypes /\ Sending(c) /\ \A d \in Sends : Sending(d)
      /\ todo \in [Sends -> SUBSET Peer] /\ count \in [Sends -> Nat] /\ got \in [Sends -> [Peer -> Nat]]
  BY DEF FanInv, FanTypes
<1>1. /\ fanPc[c] = "looping" /\ p \in todo[c]
      /\ todo' = [todo EXCEPT ![c] = @ \ {p}] /\ got' = [got EXCEPT ![c][p] = @ + 1]
      /\ count' = [count EXCEPT ![c] = @ + 1]
      /\ registry' = registry /\ kind' = kind /\ fanPc' = fanPc /\ relayed' = relayed /\ steady' = steady
  BY DEF F!Dispatch
<1>2. /\ got[c][p] = 0 /\ count[c] = Cardinality(Reached(c)) /\ Halfway(c)
  BY <1>0, <1>1 DEF Sending, Halfway
<1>3. /\ todo'[c] = todo[c] \ {p} /\ count'[c] = count[c] + 1 /\ got'[c][p] = 1
      /\ \A q \in Peer \ {p} : got'[c][q] = got[c][q]
  BY <1>0, <1>1, <1>2
<1>4. FanTypes'
  <2>1. todo' \in [Sends -> SUBSET Peer]
    BY <1>0, <1>1
  <2>2. count' \in [Sends -> Nat]
    BY <1>0, <1>1
  <2>3. got' \in [Sends -> [Peer -> Nat]]
    <3>1. PICK g : g = [got[c] EXCEPT ![p] = @ + 1]
      OBVIOUS
    <3>2. g \in [Peer -> Nat]
      BY <1>0, <1>2, <3>1
    <3>3. got' = [got EXCEPT ![c] = g]
      BY <1>1, <3>1
    <3> QED BY <1>0, <3>2, <3>3
  <2> QED BY <1>0, <1>1, <2>1, <2>2, <2>3 DEF FanTypes
<1>5. Sending(c)'
  <2>1. Reached(c)' = Reached(c) \cup {p} /\ p \notin Reached(c)
    BY <1>2, <1>3 DEF Reached
  <2>2. IsFiniteSet(Reached(c))
    BY PeersAssumption, FS_Subset DEF Reached
  <2>3. count'[c] = Cardinality(Reached(c)')
    <3>1. Cardinality(Reached(c) \cup {p}) = Cardinality(Reached(c)) + 1
      BY <2>1, <2>2, FS_AddElement
    <3>2. Cardinality(Reached(c)') = Cardinality(Reached(c) \cup {p})
      BY <2>1
    <3> QED BY <1>2, <1>3, <3>1, <3>2
  <2>4. \A q \in Peer : got'[c][q] <= 1 /\ (q \in todo'[c] => got'[c][q] = 0)
    BY <1>2, <1>3 DEF Halfway
  <2>5. \A q \in steady[c] : q \in Peer /\ (Intended(c, q)' <=> Intended(c, q))
    BY <1>0, <1>1 DEF FanTypes, Intended
  <2>6. \A q \in steady'[c] : Intended(c, q)' <=> (q \in todo'[c] \/ got'[c][q] = 1)
    <3> SUFFICES ASSUME NEW q \in steady[c]
                 PROVE  Intended(c, q)' <=> (q \in todo'[c] \/ got'[c][q] = 1)
      BY <1>1
    <3>1. CASE q = p
      BY <1>1, <1>2, <1>3, <2>5, <3>1 DEF Halfway
    <3>2. CASE q # p
      BY <1>2, <1>3, <2>5, <3>2 DEF Halfway
    <3> QED BY <3>1, <3>2
  <2>7. Halfway(c)'
    BY <2>3, <2>4, <2>6 DEF Halfway
  <2> QED BY <1>0, <1>1, <2>7 DEF Sending
<1>6. ASSUME NEW d \in Sends, d # c PROVE Sending(d)'
  <2>1. todo'[d] = todo[d] /\ count'[d] = count[d] /\ got'[d] = got[d]
    BY <1>0, <1>1, <1>6
  <2> QED BY <1>0, <1>1, <2>1, OtherCall
<1> QED BY <1>4, <1>5, <1>6 DEF FanInv

\* The other steps of a call: the relay is tried, it takes the message, or the
\* copy is used up and the call returns.
LEMMA CallStep ==
    ASSUME FanInv, NEW c \in Sends, F!BeginRelayed(c) \/ F!Relayed(c) \/ F!Return(c)
    PROVE  FanInv'
<1>0. /\ FanTypes /\ Sending(c) /\ \A d \in Sends : Sending(d)
      /\ DOMAIN fanPc = Sends /\ count \in [Sends -> Nat]
  BY DEF FanInv, FanTypes
<1>1. /\ UNCHANGED <<registry, kind, todo, got>> /\ \A d \in Sends \ {c} : d \in relayed <=> d \in relayed'
      /\ DOMAIN fanPc' = Sends /\ \A d \in Sends \ {c} : fanPc'[d] = fanPc[d]
      /\ steady' \in [Sends -> SUBSET Peer] /\ \A d \in Sends \ {c} : steady'[d] = steady[d]
  BY <1>0 DEF FanTypes, F!BeginRelayed, F!Relayed, F!Return
<1>2. count' \in [Sends -> Nat] /\ \A d \in Sends \ {c} : count'[d] = count[d]
  BY <1>0 DEF F!BeginRelayed, F!Relayed, F!Return
<1>3. FanTypes'
  BY <1>0, <1>1, <1>2 DEF FanTypes
<1>4. Sending(c)'
  <2>1. CASE F!BeginRelayed(c)
    <3>1. fanPc[c] = "ready" /\ fanPc'[c] = "relaying" /\ count' = count /\ relayed' = relayed
      BY <1>0, <2>1 DEF F!BeginRelayed
    <3>2. Unsent(c)'
      BY <1>0, <1>1, <3>1 DEF Sending, Unsent
    <3> QED BY <1>0, <1>1, <3>1, <3>2 DEF Sending
  <2>2. CASE F!Relayed(c)
    <3>1. fanPc[c] = "relaying" /\ fanPc'[c] = "done" /\ c \in relayed' /\ count'[c] = 1
      BY <1>0, <2>2 DEF F!Relayed
    <3>2. Finished(c)'
      BY <1>0, <1>1, <3>1 DEF Sending, Unsent, Finished
    <3> QED BY <1>0, <1>1, <3>1, <3>2 DEF Sending
  <2>3. CASE F!Return(c)
    <3>1. /\ fanPc[c] = "looping" /\ todo[c] = {} /\ fanPc'[c] = "done" /\ count' = count
          /\ relayed' = relayed /\ steady' = steady
      BY <1>0, <2>3 DEF F!Return
    <3>2. Halfway(c) /\ c \notin relayed
      BY <1>0, <3>1 DEF Sending
    <3>3. Finished(c)'
      BY <1>1, <3>1, <3>2 DEF Finished, Halfway, Reached, Intended
    <3> QED BY <1>0, <1>1, <3>1, <3>3 DEF Sending
  <2> QED BY <2>1, <2>2, <2>3
<1>5. ASSUME NEW d \in Sends, d # c PROVE Sending(d)'
  BY <1>0, <1>1, <1>2, <1>5, OtherCall
<1> QED BY <1>3, <1>4, <1>5 DEF FanInv

\* Peers and the relay come and go: a peer that leaves only stops being one that
\* stays.
LEMMA ChurnStep ==
    ASSUME FanInv, F!RelayChanges \/ \E p \in Peer : F!Register(p) \/ F!Remove(p)
    PROVE  FanInv'
<1>0. FanTypes /\ (\A d \in Sends : Sending(d)) /\ steady \in [Sends -> SUBSET Peer]
  BY DEF FanInv, FanTypes
<1>1. /\ registry' \subseteq Peer /\ UNCHANGED <<kind, fanPc, todo, count, got, relayed>>
      /\ steady' \in [Sends -> SUBSET Peer]
      /\ \A d \in Sends : steady'[d] \subseteq steady[d]
  BY <1>0 DEF FanTypes, F!RelayChanges, F!Register, F!Remove
<1>2. FanTypes'
  BY <1>0, <1>1 DEF FanTypes
<1>3. ASSUME NEW d \in Sends PROVE Sending(d)'
  <2>1. Unsent(d) => Unsent(d)'
    BY <1>1 DEF Unsent
  <2>2. Halfway(d) => Halfway(d)'
    BY <1>1 DEF Halfway, Reached, Intended
  <2>3. Finished(d) => Finished(d)'
    BY <1>1 DEF Finished
  <2> QED BY <1>0, <1>1, <2>1, <2>2, <2>3 DEF Sending
<1> QED BY <1>2, <1>3 DEF FanInv

LEMMA FanStep == FanInv /\ (F!Next \/ UNCHANGED fanoutVars) => FanInv'
<1> SUFFICES ASSUME FanInv, F!Next \/ UNCHANGED fanoutVars PROVE FanInv'
  OBVIOUS
<1>1. ASSUME NEW c \in Sends, F!Begin(c) \/ F!RelayFailed(c) PROVE FanInv'
  <2>1. fanPc[c] \in {"ready", "relaying"} /\ F!Loop(c) /\ UNCHANGED <<registry, kind, count, got, relayed>>
    BY <1>1 DEF F!Begin, F!RelayFailed
  <2>2. Unsent(c) /\ c \notin relayed
    BY <2>1 DEF FanInv, Sending
  <2> QED BY <2>1, <2>2, LoopBegins
<1>2. CASE UNCHANGED fanoutVars
  <2>1. UNCHANGED <<registry, kind, fanPc, todo, count, got, relayed, steady>>
    BY <1>2 DEF fanoutVars
  <2>2. FanTypes'
    BY <2>1 DEF FanInv, FanTypes
  <2>3. \A d \in Sends : Sending(d)'
    BY <2>1, OtherCall DEF FanInv
  <2> QED BY <2>2, <2>3 DEF FanInv
<1> QED BY <1>1, <1>2, DispatchStep, CallStep, ChurnStep DEF F!Next

\* send_broadcast and send_multicast: whatever peers register and leave meanwhile,
\* and however many calls run at once, a call that returns has written one envelope
\* to the relay's connection and dispatched none itself, or has dispatched to each
\* intended peer that stayed exactly once, and returns how many.
THEOREM FanOutIsExact == ServicesSpec => []FanOutExact
<1>1. ServicesInit => FanInv
  BY FanInit DEF ServicesInit
<1>2. FanInv /\ [ServicesNext]_allVars => FanInv'
  <2> SUFFICES ASSUME FanInv, [ServicesNext]_allVars PROVE FanInv'
    OBVIOUS
  <2>1. F!Next \/ UNCHANGED fanoutVars
    BY OneService
  <2> QED BY <2>1, FanStep
<1>3. FanInv => FanOutExact
  <2>1. \A A : F!Cardinality(A) = Cardinality(A)
    BY DEF F!Cardinality, Cardinality, F!IsFiniteSet, IsFiniteSet
  <2> QED BY <2>1 DEF FanInv, Sending, Finished, FanOutExact, F!FanOutExact
<1> QED BY <1>1, <1>2, <1>3, PTL DEF ServicesSpec

-----------------------------------------------------------------------------
(* Chunked transfers *)

\* The entries a transfer may have in _chunks.
Entries(t) == {<<i, T!Chunk(t, i)>> : i \in T!Indices(t)}

\* What the four dictionaries hold of one transfer.
Book(t, list, have, age) ==
    /\ list \in Seq(Entries(t)) /\ Once(list)
    /\ have = Indexed(list) /\ have # T!Indices(t)
    /\ age \in 0..(Timeout + 1)

Agree(ch, re, to, st) ==
    /\ DOMAIN ch = DOMAIN st /\ DOMAIN re = DOMAIN st /\ DOMAIN to = DOMAIN st
    /\ DOMAIN st \subseteq Transfers
    /\ \A t \in DOMAIN st : Book(t, ch[t], re[t], st[t])

Delivered(t) == \E r \in results : r[1] = t

\* The age of a transfer is the time since its first chunk until it is delivered
\* or that time exceeds the timeout, and what was received is what came in time.
OnTime(t) ==
    /\ elapsed[t] = -1 => t \notin DOMAIN stamp /\ inTime[t] = {}
    /\ ~Delivered(t) /\ elapsed[t] \in 0..Timeout =>
           t \in DOMAIN stamp /\ stamp[t] = elapsed[t] /\ received[t] = inTime[t]
    /\ ~Delivered(t) => inTime[t] # T!Indices(t)

TransferInv ==
    /\ Agree(chunks, received, total, stamp)
    /\ elapsed \in [Transfers -> -1..(Timeout + 1)] /\ DOMAIN inTime = Transfers
    /\ \A t \in Transfers : OnTime(t)
    /\ ChunksExact

\* math.ceil: a payload that is not empty has a first chunk.
LEMMA SomeChunk == ASSUME NEW t \in Transfers PROVE 0 \in T!Indices(t)
<1>1. Size[t] \in Nat \ {0} /\ ChunkSize \in Nat \ {0}
  BY TransferAssumption
<1>2. (Size[t] + ChunkSize - 1) \div ChunkSize \in Nat /\ (Size[t] + ChunkSize - 1) \div ChunkSize >= 1
  BY <1>1
<1> QED BY <1>2 DEF T!Indices, T!TotalChunks

\* The age after a tick, capped.
LEMMA Aged ==
    ASSUME NEW a \in 0..(Timeout + 1)
    PROVE  /\ T!Min({a + 1, Timeout + 1}) \in 0..(Timeout + 1)
           /\ a <= Timeout => T!Min({a + 1, Timeout + 1}) = a + 1
           /\ a = Timeout + 1 => T!Min({a + 1, Timeout + 1}) = Timeout + 1
<1>1. Timeout \in Nat
  BY TransferAssumption
<1>2. CASE a <= Timeout
  <2>1. T!Min({a + 1, Timeout + 1}) = a + 1
    BY <1>1, <1>2 DEF T!Min
  <2> QED BY <1>1, <1>2, <2>1
<1>3. CASE a = Timeout + 1
  <2>1. T!Min({a + 1, Timeout + 1}) = Timeout + 1
    BY <1>1, <1>3 DEF T!Min
  <2> QED BY <1>1, <1>3, <2>1
<1> QED BY <1>1, <1>2, <1>3

LEMMA OnlyItems ==
    ASSUME NEW f, NEW A
    PROVE  DOMAIN T!Only(f, A) = DOMAIN f \cap A /\ \A u \in DOMAIN f \cap A : T!Only(f, A)[u] = f[u]
BY DEF T!Only

\* What is filed and then forgotten leaves no trace.
LEMMA PutForgotten ==
    ASSUME NEW f, NEW t, NEW v
    PROVE  T!Only(T!Put(f, t, v), Transfers \ {t}) = T!Only(f, Transfers \ {t})
BY DEF T!Only, T!Put

LEMMA AgreeOnly ==
    ASSUME NEW ch, NEW re, NEW to, NEW st, Agree(ch, re, to, st), NEW A
    PROVE  Agree(T!Only(ch, A), T!Only(re, A), T!Only(to, A), T!Only(st, A))
<1>1. PICK d : d = DOMAIN st \cap A
  OBVIOUS
<1>2. /\ DOMAIN T!Only(ch, A) = d /\ DOMAIN T!Only(re, A) = d /\ DOMAIN T!Only(to, A) = d
      /\ DOMAIN T!Only(st, A) = d /\ d \subseteq Transfers
  BY <1>1, OnlyItems DEF Agree
<1>3. ASSUME NEW u \in d PROVE Book(u, T!Only(ch, A)[u], T!Only(re, A)[u], T!Only(st, A)[u])
  <2>1. T!Only(ch, A)[u] = ch[u] /\ T!Only(re, A)[u] = re[u] /\ T!Only(st, A)[u] = st[u]
    BY <1>1, OnlyItems DEF Agree
  <2>2. Book(u, ch[u], re[u], st[u])
    BY <1>1 DEF Agree
  <2> QED BY <2>1, <2>2
<1> QED BY <1>2, <1>3 DEF Agree

LEMMA AgreePut ==
    ASSUME NEW ch, NEW re, NEW to, NEW st, Agree(ch, re, to, st),
           NEW t \in Transfers, NEW list, NEW have, NEW n, NEW age, Book(t, list, have, age)
    PROVE  Agree(T!Put(ch, t, list), T!Put(re, t, have), T!Put(to, t, n), T!Put(st, t, age))
<1>1. PICK c2, r2, n2, s2 : /\ c2 = T!Put(ch, t, list) /\ r2 = T!Put(re, t, have)
                            /\ n2 = T!Put(to, t, n) /\ s2 = T!Put(st, t, age)
  OBVIOUS
<1>2. /\ DOMAIN c2 = DOMAIN st \cup {t} /\ DOMAIN r2 = DOMAIN st \cup {t}
      /\ DOMAIN n2 = DOMAIN st \cup {t} /\ DOMAIN s2 = DOMAIN st \cup {t}
  BY <1>1 DEF Agree, T!Put
<1>3. c2[t] = list /\ r2[t] = have /\ s2[t] = age
  BY <1>1 DEF T!Put
<1>4. \A u \in DOMAIN st \ {t} : c2[u] = ch[u] /\ r2[u] = re[u] /\ s2[u] = st[u]
  BY <1>1 DEF Agree, T!Put
<1>5. ASSUME NEW u \in DOMAIN st \cup {t} PROVE Book(u, c2[u], r2[u], s2[u])
  <2>1. CASE u = t
    BY <1>3, <2>1
  <2>2. CASE u # t
    <3>1. Book(u, ch[u], re[u], st[u])
      BY <2>2 DEF Agree
    <3> QED BY <1>4, <2>2, <3>1
  <2> QED BY <2>1, <2>2
<1>6. Agree(c2, r2, n2, s2)
  BY <1>2, <1>5 DEF Agree
<1> QED BY <1>1, <1>6

LEMMA TransferInit == T!Init => TransferInv
<1> SUFFICES ASSUME T!Init PROVE TransferInv
  OBVIOUS
<1>1. Agree(chunks, received, total, stamp)
  BY DEF T!Init, Agree
<1>2. elapsed \in [Transfers -> -1..(Timeout + 1)] /\ DOMAIN inTime = Transfers
  BY TransferAssumption DEF T!Init
<1>3. \A t \in Transfers : OnTime(t)
  BY SomeChunk DEF T!Init, OnTime
<1>4. ChunksExact
  BY DEF T!Init, ChunksExact, T!Exact
<1> QED BY <1>1, <1>2, <1>3, <1>4 DEF TransferInv

\* A transfer that is only purged, if it is too old.
LEMMA Purged ==
    ASSUME TransferInv, NEW u \in Transfers,
           u \in DOMAIN stamp' <=> (u \in DOMAIN stamp /\ u \in T!NotStale),
           u \in DOMAIN stamp' => stamp'[u] = stamp[u] /\ received'[u] = received[u],
           elapsed'[u] = elapsed[u], Delivered(u) => Delivered(u)',
           inTime'[u] = inTime[u] \/ (Delivered(u)' /\ elapsed[u] # -1)
    PROVE  OnTime(u)'
<1>1. OnTime(u) /\ Timeout \in Nat
  BY TransferAssumption DEF TransferInv
<1>2. elapsed'[u] = -1 => u \notin DOMAIN stamp' /\ inTime'[u] = {}
  BY <1>1 DEF OnTime
<1>3. ASSUME ~Delivered(u)', elapsed'[u] \in 0..Timeout
      PROVE  u \in DOMAIN stamp' /\ stamp'[u] = elapsed'[u] /\ received'[u] = inTime'[u]
  <2>1. u \in DOMAIN stamp /\ stamp[u] = elapsed[u] /\ received[u] = inTime[u] /\ inTime'[u] = inTime[u]
    BY <1>1, <1>3 DEF OnTime
  <2>2. u \in T!NotStale
    BY <1>1, <1>3, <2>1 DEF T!NotStale
  <2> QED BY <2>1, <2>2
<1>4. ~Delivered(u)' => inTime'[u] # T!Indices(u)
  BY <1>1 DEF OnTime
<1> QED BY <1>2, <1>3, <1>4 DEF OnTime

\* The four dictionaries after _purge_stale.
LEMMA PurgeKeeps ==
    ASSUME TransferInv, T!Keep(T!Purge)
    PROVE  /\ Agree(chunks, received, total, stamp)'
           /\ \A u \in Transfers : /\ u \in DOMAIN stamp' <=> (u \in DOMAIN stamp /\ u \in T!NotStale)
                                   /\ u \in DOMAIN stamp' => stamp'[u] = stamp[u] /\ received'[u] = received[u]
<1>1. /\ chunks' = T!Only(chunks, T!NotStale) /\ received' = T!Only(received, T!NotStale)
      /\ total' = T!Only(total, T!NotStale) /\ stamp' = T!Only(stamp, T!NotStale)
  BY DEF T!Keep, T!Purge
<1>2. Agree(chunks, received, total, stamp)
  BY DEF TransferInv
<1>3. Agree(chunks', received', total', stamp')
  BY <1>1, <1>2, AgreeOnly
<1>4. DOMAIN received = DOMAIN stamp
  BY <1>2 DEF Agree
<1>5. Agree(chunks, received, total, stamp)'
  BY <1>3 DEF Agree, Book, Once, Indexed, Entries
<1>6. DOMAIN stamp' = DOMAIN stamp \cap T!NotStale /\ \A u \in DOMAIN stamp' : stamp'[u] = stamp[u]
  BY <1>1, OnlyItems
<1>7. \A u \in DOMAIN stamp' : received'[u] = received[u]
  BY <1>1, <1>4, <1>6 DEF T!Only
<1> QED BY <1>5, <1>6, <1>7

LEMMA SkippedStep == ASSUME TransferInv, T!IngestWithoutData PROVE TransferInv'
<1>1. T!Keep(T!Purge) /\ UNCHANGED <<results, elapsed, inTime>>
  BY DEF T!IngestWithoutData
<1>2. \A u \in Transfers : Delivered(u) => Delivered(u)'
  BY <1>1 DEF Delivered
<1>3. \A u \in Transfers : OnTime(u)'
  BY <1>1, <1>2, PurgeKeeps, Purged
<1>4. ChunksExact'
  BY <1>1 DEF TransferInv, ChunksExact, T!Exact, T!Payload
<1> QED BY <1>1, <1>3, <1>4, PurgeKeeps DEF TransferInv

\* A chunk that is there already came in time if its transfer has, and no new one
\* is counted.
LEMMA DuplicateStep ==
    ASSUME TransferInv, NEW t \in Transfers, NEW i \in T!Indices(t), T!IngestDuplicate(t, i)
    PROVE  TransferInv'
<1>1. /\ T!Keep(T!Purge) /\ results' = results
      /\ elapsed' = [elapsed EXCEPT ![t] = IF @ = -1 THEN 0 ELSE @]
      /\ inTime' = [inTime EXCEPT ![t] = IF elapsed[t] <= Timeout THEN @ \cup {i} ELSE @]
      /\ i \in T!Get(T!Only(received, T!NotStale), t, {})
  BY DEF T!IngestDuplicate, T!Notes
<1>2. /\ OnTime(t) /\ elapsed \in [Transfers -> -1..(Timeout + 1)] /\ DOMAIN inTime = Transfers
      /\ DOMAIN received = DOMAIN stamp /\ Timeout \in Nat
  BY TransferAssumption DEF TransferInv, Agree
<1>3. t \in DOMAIN stamp /\ t \in T!NotStale /\ i \in received[t]
  <2>1. PICK f : f = T!Only(received, T!NotStale)
    OBVIOUS
  <2>2. t \in DOMAIN f /\ i \in f[t]
    BY <1>1, <2>1 DEF T!Get
  <2> QED BY <1>2, <2>1, <2>2 DEF T!Only
<1>4. elapsed[t] # -1 /\ elapsed' = elapsed
  <2>1. elapsed[t] # -1
    BY <1>2, <1>3 DEF OnTime
  <2> QED BY <1>1, <1>2, <2>1
<1>5. \A u \in Transfers : Delivered(u) <=> Delivered(u)'
  BY <1>1 DEF Delivered
<1>6. DOMAIN inTime' = Transfers /\ \A u \in Transfers : inTime'[u] = inTime[u] \/ (u = t /\ Delivered(t))
  <2>1. DOMAIN inTime' = Transfers /\ \A u \in Transfers \ {t} : inTime'[u] = inTime[u]
    BY <1>1, <1>2
  <2>2. CASE elapsed[t] <= Timeout /\ ~Delivered(t)
    <3>1. elapsed[t] \in 0..Timeout
      BY <1>2, <1>4, <2>2
    <3>2. i \in inTime[t]
      BY <1>2, <1>3, <2>2, <3>1 DEF OnTime
    <3> QED BY <1>1, <1>2, <2>1, <3>2
  <2>3. CASE ~(elapsed[t] <= Timeout)
    BY <1>1, <1>2, <2>1, <2>3
  <2> QED BY <2>1, <2>2, <2>3
<1>7. ASSUME NEW u \in Transfers PROVE OnTime(u)'
  <2>1. inTime'[u] = inTime[u] \/ (Delivered(u)' /\ elapsed[u] # -1)
    BY <1>4, <1>5, <1>6
  <2> QED BY <1>1, <1>4, <1>5, <2>1, PurgeKeeps, Purged
<1>8. ChunksExact'
  BY <1>1 DEF TransferInv, ChunksExact, T!Exact, T!Payload
<1> QED BY <1>1, <1>2, <1>4, <1>6, <1>7, <1>8, PurgeKeeps DEF TransferInv

\* A list of chunks with one more, and the indices in it.
LEMMA Listed ==
    ASSUME NEW t \in Transfers, NEW i \in T!Indices(t), NEW list \in Seq(Entries(t)), NEW have,
           have = Indexed(list), Once(list), i \notin have
    PROVE  LET more == Append(list, <<i, T!Chunk(t, i)>>)
           IN  more \in Seq(Entries(t)) /\ have \cup {i} = Indexed(more) /\ Once(more)
<1>1. PICK e, more : e = <<i, T!Chunk(t, i)>> /\ more = Append(list, e)
  OBVIOUS
<1>2. e \in Entries(t) /\ e[1] = i
  BY <1>1 DEF Entries
<1>3. /\ more \in Seq(Entries(t)) /\ Len(list) \in Nat /\ DOMAIN list = 1..Len(list)
      /\ DOMAIN more = 1..(Len(list) + 1) /\ more[Len(list) + 1] = e
      /\ \A k \in 1..Len(list) : more[k] = list[k]
  BY <1>1, <1>2, AppendProperties, LenProperties
<1>4. DOMAIN more = DOMAIN list \cup {Len(list) + 1}
  BY <1>3
<1>5. have \cup {i} = Indexed(more)
  BY <1>2, <1>3, <1>4 DEF Indexed
<1>6. Once(more)
  BY <1>2, <1>3, <1>4 DEF Indexed, Once
<1> QED BY <1>1, <1>3, <1>5, <1>6

\* The list of a transfer all of whose indices have arrived joins to its payload.
LEMMA CompleteJoins ==
    ASSUME NEW t \in Transfers, NEW list \in Seq(Entries(t)), Once(list), Indexed(list) = T!Indices(t)
    PROVE  T!Join(list) = T!Payload(t)
<1>1. Len(list) \in Nat /\ DOMAIN list = 1..Len(list) /\ \A k \in DOMAIN list : list[k] \in Entries(t)
  OBVIOUS
<1>2. Complete(list, T!TotalChunks(t))
  BY <1>1 DEF Complete, T!Indices
<1>3. \A k \in DOMAIN list : list[k][2] = T!Chunk(t, list[k][1])
  BY <1>1 DEF Entries
<1> QED BY <1>2, <1>3, JoinExact

\* A new chunk, filed under its transfer or completing it.
LEMMA NewStep ==
    ASSUME TransferInv, NEW t \in Transfers, NEW i \in T!Indices(t), T!IngestNew(t, i)
    PROVE  TransferInv'
<1>1. PICK ch, re, to, st : /\ ch = T!Only(chunks, T!NotStale) /\ re = T!Only(received, T!NotStale)
                            /\ to = T!Only(total, T!NotStale) /\ st = T!Only(stamp, T!NotStale)
  OBVIOUS
<1>2. PICK list, have, n, age :
          /\ have = T!Get(re, t, {}) \cup {i} /\ list = Append(T!Get(ch, t, <<>>), <<i, T!Chunk(t, i)>>)
          /\ n = T!Get(to, t, T!TotalChunks(t)) /\ age = T!Get(st, t, 0)
  OBVIOUS
<1>3. /\ elapsed' = [elapsed EXCEPT ![t] = IF @ = -1 THEN 0 ELSE @]
      /\ inTime' = [inTime EXCEPT ![t] = IF elapsed[t] <= Timeout THEN @ \cup {i} ELSE @]
  BY DEF T!IngestNew, T!Notes
<1>4. \/ /\ have = T!Indices(t) /\ results' = results \cup {<<t, T!Join(list)>>}
         /\ chunks' = T!Only(T!Put(ch, t, list), Transfers \ {t})
         /\ received' = T!Only(T!Put(re, t, have), Transfers \ {t})
         /\ total' = T!Only(T!Put(to, t, n), Transfers \ {t})
         /\ stamp' = T!Only(T!Put(st, t, age), Transfers \ {t})
      \/ /\ have # T!Indices(t) /\ results' = results
         /\ chunks' = T!Put(ch, t, list) /\ received' = T!Put(re, t, have)
         /\ total' = T!Put(to, t, n) /\ stamp' = T!Put(st, t, age)
  <2>1. T!Purge[1] = ch /\ T!Purge[2] = re /\ T!Purge[3] = to /\ T!Purge[4] = st
    BY <1>1 DEF T!Purge
  <2>2. PICK filed : filed = <<T!Put(ch, t, list), T!Put(re, t, have), T!Put(to, t, n), T!Put(st, t, age)>>
    OBVIOUS
  <2>3. IF have = T!Indices(t)
        THEN results' = results \cup {<<t, T!Join(list)>>} /\ T!Keep(T!Forget(filed, t))
        ELSE T!Keep(filed) /\ results' = results
    BY <1>2, <2>1, <2>2 DEF T!IngestNew
  <2>4. /\ filed[1] = T!Put(ch, t, list) /\ filed[2] = T!Put(re, t, have)
        /\ filed[3] = T!Put(to, t, n) /\ filed[4] = T!Put(st, t, age)
    BY <2>2
  <2>5. \A k \in 1..4 : T!Forget(filed, t)[k] = T!Only(filed[k], Transfers \ {t})
    BY DEF T!Forget
  <2>6. /\ T!Forget(filed, t)[1] = T!Only(filed[1], Transfers \ {t})
        /\ T!Forget(filed, t)[2] = T!Only(filed[2], Transfers \ {t})
        /\ T!Forget(filed, t)[3] = T!Only(filed[3], Transfers \ {t})
        /\ T!Forget(filed, t)[4] = T!Only(filed[4], Transfers \ {t})
    BY <2>5
  <2> QED BY <2>3, <2>4, <2>6 DEF T!Keep
<1>5. /\ Agree(chunks, received, total, stamp) /\ OnTime(t)
      /\ elapsed \in [Transfers -> -1..(Timeout + 1)] /\ DOMAIN inTime = Transfers
      /\ DOMAIN received = DOMAIN stamp /\ Timeout \in Nat
  BY TransferAssumption DEF TransferInv, Agree
<1>6. Agree(ch, re, to, st)
  BY <1>1, <1>5, AgreeOnly
<1>7. /\ DOMAIN ch = DOMAIN st /\ DOMAIN re = DOMAIN st
      /\ DOMAIN st = DOMAIN stamp \cap T!NotStale
      /\ \A u \in DOMAIN st : st[u] = stamp[u] /\ re[u] = received[u]
  <2>1. DOMAIN ch = DOMAIN st /\ DOMAIN re = DOMAIN st
    BY <1>6 DEF Agree
  <2>2. DOMAIN st = DOMAIN stamp \cap T!NotStale /\ \A u \in DOMAIN st : st[u] = stamp[u]
    BY <1>1, OnlyItems
  <2>3. \A u \in DOMAIN st : re[u] = received[u]
    BY <1>1, <1>5, <2>2 DEF T!Only
  <2> QED BY <2>1, <2>2, <2>3
<1>8. /\ elapsed' \in [Transfers -> -1..(Timeout + 1)] /\ DOMAIN inTime' = Transfers
      /\ \A u \in Transfers \ {t} : elapsed'[u] = elapsed[u] /\ inTime'[u] = inTime[u]
      /\ elapsed'[t] = (IF elapsed[t] = -1 THEN 0 ELSE elapsed[t])
      /\ inTime'[t] = (IF elapsed[t] <= Timeout THEN inTime[t] \cup {i} ELSE inTime[t])
  BY <1>3, <1>5
<1>9. \A u \in Transfers : Delivered(u) => Delivered(u)'
  BY <1>4 DEF Delivered
<1>10. ASSUME NEW u \in Transfers \ {t},
              u \in DOMAIN stamp' <=> u \in DOMAIN st,
              u \in DOMAIN st => stamp'[u] = st[u] /\ received'[u] = re[u]
       PROVE  OnTime(u)'
  BY <1>7, <1>8, <1>9, <1>10, Purged
<1>11. list \in Seq(Entries(t)) /\ have = Indexed(list) /\ Once(list) /\ age \in 0..(Timeout + 1)
  <2>1. i \notin T!Get(re, t, {})
    BY <1>1 DEF T!IngestNew, T!Purge
  <2>2. CASE t \in DOMAIN st
    <3>1. PICK l0, h0 : l0 = ch[t] /\ h0 = re[t]
      OBVIOUS
    <3>2. /\ l0 \in Seq(Entries(t)) /\ h0 = Indexed(l0) /\ Once(l0) /\ st[t] \in 0..(Timeout + 1)
      BY <1>6, <2>2, <3>1 DEF Agree, Book
    <3>3. list = Append(l0, <<i, T!Chunk(t, i)>>) /\ have = h0 \cup {i} /\ age = st[t] /\ i \notin h0
      BY <1>2, <1>7, <2>1, <2>2, <3>1 DEF T!Get
    <3>4. list \in Seq(Entries(t)) /\ have = Indexed(list) /\ Once(list)
      BY <3>2, <3>3, Listed
    <3> QED BY <3>2, <3>3, <3>4
  <2>3. CASE t \notin DOMAIN st
    <3>1. PICK l0, h0 : l0 = <<>> /\ h0 = {}
      OBVIOUS
    <3>2. /\ l0 \in Seq(Entries(t)) /\ h0 = Indexed(l0) /\ Once(l0) /\ 0 \in 0..(Timeout + 1)
      BY <1>5, <3>1 DEF Indexed, Once
    <3>3. list = Append(l0, <<i, T!Chunk(t, i)>>) /\ have = h0 \cup {i} /\ age = 0 /\ i \notin h0
      BY <1>2, <1>7, <2>3, <3>1 DEF T!Get
    <3>4. list \in Seq(Entries(t)) /\ have = Indexed(list) /\ Once(list)
      BY <3>2, <3>3, Listed
    <3> QED BY <3>2, <3>3, <3>4
  <2> QED BY <2>2, <2>3
<1>12. \A r \in results : r[2] = T!Payload(r[1])
  BY DEF TransferInv, ChunksExact, T!Exact
<1>13. CASE have = T!Indices(t) /\ results' = results \cup {<<t, T!Join(list)>>}
            /\ chunks' = T!Only(T!Put(ch, t, list), Transfers \ {t})
            /\ received' = T!Only(T!Put(re, t, have), Transfers \ {t})
            /\ total' = T!Only(T!Put(to, t, n), Transfers \ {t})
            /\ stamp' = T!Only(T!Put(st, t, age), Transfers \ {t})
  <2>1. /\ chunks' = T!Only(ch, Transfers \ {t}) /\ received' = T!Only(re, Transfers \ {t})
        /\ total' = T!Only(to, Transfers \ {t}) /\ stamp' = T!Only(st, Transfers \ {t})
    BY <1>13, PutForgotten
  <2>2. Agree(chunks, received, total, stamp)'
    <3>1. Agree(chunks', received', total', stamp')
      BY <1>6, <2>1, AgreeOnly
    <3> QED BY <3>1 DEF Agree, Book, Once, Indexed, Entries
  <2>3. OnTime(t)'
    <3>1. Delivered(t)'
      <4>1. PICK r : r = <<t, T!Join(list)>>
        OBVIOUS
      <4>2. r[1] = t
        BY <4>1
      <4> QED BY <1>13, <4>1, <4>2 DEF Delivered
    <3>2. elapsed'[t] # -1
      BY <1>5, <1>8
    <3> QED BY <3>1, <3>2 DEF OnTime
  <2>4. ASSUME NEW u \in Transfers \ {t} PROVE OnTime(u)'
    <3>1. DOMAIN stamp' = DOMAIN st \cap (Transfers \ {t})
      BY <2>1, OnlyItems
    <3>2. u \in DOMAIN st => stamp'[u] = st[u] /\ received'[u] = re[u]
      BY <1>7, <2>1 DEF T!Only
    <3> QED BY <1>10, <3>1, <3>2
  <2>5. ChunksExact'
    <3>1. T!Join(list) = T!Payload(t)
      BY <1>13, <1>11, CompleteJoins
    <3>2. ASSUME NEW r \in results' PROVE r[2] = T!Payload(r[1])
      <4>1. CASE r \in results
        BY <1>12, <4>1
      <4>2. CASE r = <<t, T!Join(list)>>
        BY <3>1, <4>2
      <4> QED BY <1>13, <4>1, <4>2
    <3> QED BY <3>2 DEF ChunksExact, T!Exact, T!Payload
  <2> QED BY <1>8, <2>2, <2>3, <2>4, <2>5 DEF TransferInv
<1>14. CASE have # T!Indices(t) /\ results' = results
            /\ chunks' = T!Put(ch, t, list) /\ received' = T!Put(re, t, have)
            /\ total' = T!Put(to, t, n) /\ stamp' = T!Put(st, t, age)
  <2>1. Book(t, list, have, age)
    BY <1>14, <1>11 DEF Book
  <2>2. Agree(chunks, received, total, stamp)'
    <3>1. Agree(chunks', received', total', stamp')
      BY <1>6, <1>14, <2>1, AgreePut
    <3> QED BY <3>1 DEF Agree, Book, Once, Indexed, Entries
  <2>3. /\ DOMAIN stamp' = DOMAIN st \cup {t} /\ stamp'[t] = age /\ received'[t] = have
        /\ \A u \in DOMAIN st \ {t} : stamp'[u] = st[u] /\ received'[u] = re[u]
    BY <1>7, <1>14 DEF T!Put
  <2>4. OnTime(t)'
    <3>1. elapsed'[t] # -1 /\ (Delivered(t)' <=> Delivered(t))
      BY <1>5, <1>8, <1>14 DEF Delivered
    <3>2. CASE Delivered(t)
      BY <3>1, <3>2 DEF OnTime
    <3>3. CASE elapsed[t] = -1
      <4>1. t \notin DOMAIN st /\ inTime[t] = {}
        BY <1>5, <1>7, <3>3 DEF OnTime
      <4>2. age = 0 /\ have = {i} /\ inTime'[t] = {i} /\ elapsed'[t] = 0
        BY <1>2, <1>5, <1>7, <1>8, <3>3, <4>1 DEF T!Get
      <4> QED BY <1>14, <2>3, <3>1, <4>2 DEF OnTime
    <3>4. CASE elapsed[t] \in 0..Timeout /\ ~Delivered(t)
      <4>1. t \in DOMAIN stamp /\ stamp[t] = elapsed[t] /\ received[t] = inTime[t]
        BY <1>5, <3>4 DEF OnTime
      <4>2. t \in DOMAIN st
        BY <1>5, <1>7, <3>4, <4>1 DEF T!NotStale
      <4>3. age = elapsed[t] /\ have = inTime[t] \cup {i} /\ inTime'[t] = inTime[t] \cup {i} /\ elapsed'[t] = elapsed[t]
        BY <1>2, <1>5, <1>7, <1>8, <3>4, <4>1, <4>2 DEF T!Get
      <4> QED BY <1>14, <2>3, <3>1, <4>3 DEF OnTime
    <3>5. CASE elapsed[t] = Timeout + 1 /\ ~Delivered(t)
      <4>1. inTime'[t] = inTime[t] /\ elapsed'[t] = Timeout + 1 /\ inTime[t] # T!Indices(t)
        BY <1>5, <1>8, <3>5 DEF OnTime
      <4> QED BY <1>5, <3>1, <4>1 DEF OnTime
    <3>6. elapsed[t] = -1 \/ elapsed[t] \in 0..Timeout \/ elapsed[t] = Timeout + 1
      BY <1>5
    <3> QED BY <3>2, <3>3, <3>4, <3>5, <3>6
  <2>5. ASSUME NEW u \in Transfers \ {t} PROVE OnTime(u)'
    BY <1>10, <2>3
  <2>6. ChunksExact'
    BY <1>14, <1>12 DEF ChunksExact, T!Exact, T!Payload
  <2> QED BY <1>8, <2>2, <2>4, <2>5, <2>6 DEF TransferInv
<1> QED BY <1>4, <1>13, <1>14

LEMMA TickStep == ASSUME TransferInv, T!Tick PROVE TransferInv'
<1>1. /\ stamp' = [t \in DOMAIN stamp |-> T!Min({stamp[t] + 1, Timeout + 1})]
      /\ elapsed' = [t \in Transfers |-> IF elapsed[t] = -1 THEN -1 ELSE T!Min({elapsed[t] + 1, Timeout + 1})]
      /\ UNCHANGED <<chunks, received, total, results, inTime>>
  BY DEF T!Tick
<1>2. /\ Agree(chunks, received, total, stamp) /\ Timeout \in Nat
      /\ elapsed \in [Transfers -> -1..(Timeout + 1)] /\ DOMAIN inTime = Transfers
  BY TransferAssumption DEF TransferInv
<1>3. Agree(chunks, received, total, stamp)'
  <2>1. \A t \in DOMAIN stamp : stamp'[t] \in 0..(Timeout + 1)
    <3> SUFFICES ASSUME NEW t \in DOMAIN stamp PROVE stamp'[t] \in 0..(Timeout + 1)
      OBVIOUS
    <3>1. stamp[t] \in 0..(Timeout + 1)
      BY <1>2 DEF Agree, Book
    <3> QED BY <1>1, <3>1, Aged
  <2>2. Agree(chunks, received, total, stamp')
    BY <1>1, <1>2, <2>1 DEF Agree, Book
  <2>3. Agree(chunks', received', total', stamp')
    BY <1>1, <2>2
  <2> QED BY <2>3 DEF Agree, Book, Once, Indexed, Entries
<1>4. ASSUME NEW t \in Transfers
      PROVE  /\ elapsed'[t] \in -1..(Timeout + 1) /\ (elapsed'[t] = -1 <=> elapsed[t] = -1)
             /\ elapsed'[t] \in 0..Timeout => elapsed[t] \in 0..Timeout /\ elapsed'[t] = elapsed[t] + 1
  <2>1. CASE elapsed[t] = -1
    BY <1>1, <1>2, <2>1
  <2>2. CASE elapsed[t] \in 0..Timeout
    <3>1. elapsed'[t] = elapsed[t] + 1
      BY <1>1, <1>2, <2>2, Aged
    <3> QED BY <1>2, <2>2, <3>1
  <2>3. CASE elapsed[t] = Timeout + 1
    <3>1. elapsed'[t] = Timeout + 1
      BY <1>1, <1>2, <2>3, Aged
    <3> QED BY <1>2, <2>3, <3>1
  <2> QED BY <1>2, <2>1, <2>2, <2>3
<1>5. ASSUME NEW t \in Transfers PROVE OnTime(t)'
  <2>1. OnTime(t) /\ (Delivered(t)' <=> Delivered(t)) /\ DOMAIN stamp' = DOMAIN stamp
    BY <1>1 DEF TransferInv, Delivered
  <2>2. ASSUME ~Delivered(t)', elapsed'[t] \in 0..Timeout
        PROVE  t \in DOMAIN stamp' /\ stamp'[t] = elapsed'[t] /\ received'[t] = inTime'[t]
    <3>1. elapsed[t] \in 0..Timeout /\ elapsed'[t] = elapsed[t] + 1
      BY <1>4, <2>2
    <3>2. t \in DOMAIN stamp /\ stamp[t] = elapsed[t] /\ received[t] = inTime[t]
      BY <2>1, <2>2, <3>1 DEF OnTime
    <3>3. stamp'[t] = stamp[t] + 1
      BY <1>1, <1>2, <3>1, <3>2, Aged
    <3> QED BY <1>1, <2>1, <3>1, <3>2, <3>3
  <2>3. elapsed'[t] = -1 => t \notin DOMAIN stamp' /\ inTime'[t] = {}
    BY <1>1, <1>4, <2>1 DEF OnTime
  <2>4. ~Delivered(t)' => inTime'[t] # T!Indices(t)
    BY <1>1, <2>1 DEF OnTime
  <2> QED BY <2>2, <2>3, <2>4 DEF OnTime
<1>6. elapsed' \in [Transfers -> -1..(Timeout + 1)] /\ DOMAIN inTime' = Transfers
  BY <1>1, <1>2, <1>4
<1>7. ChunksExact'
  BY <1>1 DEF TransferInv, ChunksExact, T!Exact, T!Payload
<1> QED BY <1>3, <1>5, <1>6, <1>7 DEF TransferInv

LEMMA TransferStep == TransferInv /\ [ServicesNext]_allVars => TransferInv'
<1> SUFFICES ASSUME TransferInv, [ServicesNext]_allVars PROVE TransferInv'
  OBVIOUS
<1>1. T!Next \/ UNCHANGED transferVars
  BY OneService
<1>2. CASE UNCHANGED transferVars
  <2>1. UNCHANGED <<chunks, received, total, stamp, results, elapsed, inTime>>
    BY <1>2 DEF transferVars
  <2>2. Agree(chunks, received, total, stamp)'
    <3>1. Agree(chunks', received', total', stamp')
      BY <2>1 DEF TransferInv
    <3> QED BY <3>1 DEF Agree, Book, Once, Indexed, Entries
  <2>3. \A t \in Transfers : OnTime(t)'
    BY <2>1 DEF TransferInv, OnTime, Delivered
  <2>4. ChunksExact'
    BY <2>1 DEF TransferInv, ChunksExact, T!Exact, T!Payload
  <2> QED BY <2>1, <2>2, <2>3, <2>4 DEF TransferInv
<1> QED BY <1>1, <1>2, SkippedStep, DuplicateStep, NewStep, TickStep DEF T!Next

\* ChunkReassembler.ingest returns the payload that send_chunked split, for every
\* payload and chunk size, whatever the order of the chunks, the repetitions and
\* the purges.
THEOREM TransferExact == ServicesSpec => []ChunksExact
<1>1. ServicesInit => TransferInv
  BY TransferInit DEF ServicesInit
<1>2. TransferInv => ChunksExact
  BY DEF TransferInv
<1> QED BY <1>1, <1>2, TransferStep, PTL DEF ServicesSpec

\* ChunkReassembler.ingest: for every payload, chunk size and order of arrival, a
\* transfer whose chunks all came within the timeout of the first has been handed
\* over, and so is never purged before.
THEOREM TransferInTime == ServicesSpec => []InTimeIsDelivered
<1>1. ServicesInit => TransferInv
  BY TransferInit DEF ServicesInit
<1>2. TransferInv => InTimeIsDelivered
  BY DEF TransferInv, OnTime, Delivered, InTimeIsDelivered, T!InTimeIsDelivered
<1> QED BY <1>1, <1>2, TransferStep, PTL DEF ServicesSpec

\* ChunkReassembler: its four dictionaries always have the same keys, so that
\* _purge_stale, which goes by the timestamps, leaves nothing behind.
THEOREM TransferBooksAgree == ServicesSpec => []BooksAgree
<1>1. ServicesInit => TransferInv
  BY TransferInit DEF ServicesInit
<1>2. TransferInv => BooksAgree
  BY DEF TransferInv, Agree, Book, Indexed, BooksAgree, T!BooksAgree
<1> QED BY <1>1, <1>2, TransferStep, PTL DEF ServicesSpec

-----------------------------------------------------------------------------
(* The limit of the webhook gateway *)

\* Of the times in q, those from t on.
Since(q, t) == {k \in DOMAIN q : q[k] >= t}

\* What _rate_limits[ip] was at some time: its count is of requests that passed
\* since its window began (n is the time, q when the requests passed).
Honest(e, n, q) ==
    /\ DOMAIN e = {"count", "start"} /\ e.count \in Nat /\ e.start \in Nat
    /\ e.start <= n /\ e.count <= Cardinality(Since(q, e.start))

\* A request that will be refused for the entry it has read is refused duly.
Due(r) == r.saw.count # 0 /\ ~(r.at - r.saw.start > HookMinute) /\ r.saw.count >= Limit => r.due

\* The entry, and each that a thread has read, however long ago.
HookInv ==
    /\ now \in Nat /\ passed \in Seq(Nat) /\ wronged = 0
    /\ DOMAIN request = Threads /\ Honest(hookEntry, now, passed)
    /\ \A h \in Threads : /\ request[h].at \in Nat /\ request[h].at <= now
                          /\ Honest(request[h].saw, now, passed) /\ Due(request[h])

LEMMA SinceSize ==
    ASSUME NEW q \in Seq(Nat), NEW t \in Int
    PROVE  /\ IsFiniteSet(Since(q, t)) /\ Cardinality(Since(q, t)) \in Nat
           /\ \A u \in Int : u <= t => Cardinality(Since(q, t)) <= Cardinality(Since(q, u))
<1>1. DOMAIN q = 1..Len(q) /\ Len(q) \in Nat
  BY LenProperties
<1>2. IsFiniteSet(DOMAIN q)
  BY <1>1, FS_Interval
<1>3. ASSUME NEW u \in Int PROVE IsFiniteSet(Since(q, u))
  BY <1>2, FS_Subset DEF Since
<1>4. ASSUME NEW u \in Int, u <= t PROVE Cardinality(Since(q, t)) <= Cardinality(Since(q, u))
  <2>1. \A k \in DOMAIN q : q[k] \in Nat
    OBVIOUS
  <2>2. Since(q, t) \subseteq Since(q, u)
    BY <1>4, <2>1 DEF Since
  <2> QED BY <1>3, <2>2, FS_Subset
<1> QED BY <1>3, <1>4, FS_CardinalityType

\* One more request passes: it counts for every window that has begun.
LEMMA OneMore ==
    ASSUME NEW q \in Seq(Nat), NEW n \in Nat, NEW t \in Nat, t <= n
    PROVE  Cardinality(Since(Append(q, n), t)) = Cardinality(Since(q, t)) + 1
<1>1. PICK a, m : a = Append(q, n) /\ m = Len(q)
  OBVIOUS
<1>2. /\ m \in Nat /\ DOMAIN q = 1..m /\ DOMAIN a = 1..(m + 1) /\ a[m + 1] = n /\ \A k \in 1..m : a[k] = q[k]
  BY <1>1, AppendProperties, LenProperties
<1>3. Since(a, t) = Since(q, t) \cup {m + 1} /\ m + 1 \notin Since(q, t)
  BY <1>2 DEF Since
<1>4. IsFiniteSet(Since(q, t))
  BY SinceSize
<1>5. Cardinality(Since(q, t) \cup {m + 1}) = Cardinality(Since(q, t)) + 1
  BY <1>3, <1>4, FS_AddElement
<1> QED BY <1>1, <1>3, <1>5

\* An entry stays honest as time goes on and requests pass.
LEMMA StaysHonest ==
    ASSUME NEW n \in Nat, NEW m \in Nat, n <= m, NEW q \in Seq(Nat), NEW e, Honest(e, n, q)
    PROVE  Honest(e, m, q) /\ Honest(e, m, Append(q, n))
<1>1. e.count \in Nat /\ e.start \in Nat /\ e.start <= n /\ e.start <= m /\ e.count <= Cardinality(Since(q, e.start))
  BY DEF Honest
<1>2. Cardinality(Since(q, e.start)) \in Nat /\ Cardinality(Since(Append(q, n), e.start)) = Cardinality(Since(q, e.start)) + 1
  <2>1. e.start \in Int
    BY <1>1
  <2>2. Cardinality(Since(q, e.start)) \in Nat
    BY <2>1, SinceSize
  <2>3. Cardinality(Since(Append(q, n), e.start)) = Cardinality(Since(q, e.start)) + 1
    BY <1>1, OneMore
  <2> QED BY <2>2, <2>3
<1>3. e.count <= Cardinality(Since(Append(q, n), e.start))
  BY <1>1, <1>2
<1>4. DOMAIN e = {"count", "start"}
  BY DEF Honest
<1> QED BY <1>1, <1>3, <1>4 DEF Honest

LEMMA HookInit == W!Init => HookInv
<1> SUFFICES ASSUME W!Init PROVE HookInv
  OBVIOUS
<1>1. /\ now = 0 /\ passed = <<>> /\ wronged = 0 /\ hookEntry = W!NoEntry /\ DOMAIN request = Threads
      /\ \A h \in Threads : request[h].at = 0 /\ request[h].saw = W!NoEntry
  BY DEF W!Init, W!At
<1>2. W!NoEntry.count = 0 /\ W!NoEntry.start = 0 /\ DOMAIN W!NoEntry = {"count", "start"}
  BY DEF W!NoEntry
<1>3. passed \in Seq(Nat) /\ Cardinality(Since(passed, 0)) \in Nat
  <2>1. passed \in Seq(Nat) /\ 0 \in Int
    BY <1>1
  <2> QED BY <2>1, SinceSize
<1>4. Honest(W!NoEntry, now, passed)
  BY <1>1, <1>2, <1>3 DEF Honest
<1>5. \A h \in Threads : Due(request[h])
  BY <1>1, <1>2 DEF Due
<1> QED BY <1>1, <1>3, <1>4, <1>5 DEF HookInv

\* What a step of a thread leaves to be shown: of the entry, and of its request.
LEMMA HookKept ==
    ASSUME HookInv, NEW h \in Threads, NEW p, NEW t \in Nat, NEW e, NEW d,
           request' = [request EXCEPT ![h] = W!At(p, t, e, d)], Due(W!At(p, t, e, d)), t <= now, Honest(e, now, passed'), now' = now, passed' = passed \/ passed' = Append(passed, now),
           wronged' = 0, Honest(hookEntry', now, passed')
    PROVE  HookInv'
<1>1. now \in Nat /\ passed \in Seq(Nat) /\ DOMAIN request = Threads
  BY DEF HookInv
<1>2. passed' \in Seq(Nat)
  <2>1. Append(passed, now) \in Seq(Nat)
    BY <1>1, AppendProperties
  <2> QED BY <1>1, <2>1
<1>3. /\ DOMAIN request' = Threads /\ request'[h].at = t /\ request'[h].saw = e /\ Due(request'[h])
      /\ \A g \in Threads \ {h} : request'[g] = request[g]
  <2>1. request'[h] = W!At(p, t, e, d)
    BY <1>1
  <2> QED BY <1>1, <2>1 DEF W!At
<1>4. ASSUME NEW g \in Threads \ {h}
      PROVE  /\ request'[g].at \in Nat /\ request'[g].at <= now /\ Honest(request'[g].saw, now, passed')
             /\ Due(request'[g])
  <2>1. /\ request'[g] = request[g] /\ request[g].at \in Nat /\ request[g].at <= now
        /\ Honest(request[g].saw, now, passed) /\ Due(request[g])
    BY <1>3 DEF HookInv
  <2>2. Honest(request[g].saw, now, passed) /\ Honest(request[g].saw, now, Append(passed, now))
    BY <1>1, <2>1, StaysHonest
  <2> QED BY <2>1, <2>2
<1>5. ASSUME NEW g \in Threads
      PROVE  /\ request'[g].at \in Nat /\ request'[g].at <= now /\ Honest(request'[g].saw, now, passed')
             /\ Due(request'[g])
  BY <1>3, <1>4
<1>6. \A g \in Threads : Due(request[g])'
  BY <1>5 DEF Due
<1> QED BY <1>1, <1>2, <1>3, <1>5, <1>6 DEF HookInv

\* What the request of a thread knows, and of the entry it may have read.
LEMMA HookStep == HookInv /\ (W!Next \/ UNCHANGED webhookVars) => HookInv'
<1> SUFFICES ASSUME HookInv, W!Next \/ UNCHANGED webhookVars PROVE HookInv'
  OBVIOUS
<1>0. /\ now \in Nat /\ passed \in Seq(Nat) /\ wronged = 0 /\ Honest(hookEntry, now, passed)
      /\ DOMAIN request = Threads
      /\ \A h \in Threads : /\ request[h].at \in Nat /\ request[h].at <= now
                            /\ Honest(request[h].saw, now, passed) /\ Due(request[h])
  BY DEF HookInv
<1>1. ASSUME NEW q \in Seq(Nat) PROVE Honest(W!NoEntry, now, q)
  <2>1. /\ W!NoEntry.count = 0 /\ W!NoEntry.start = 0 /\ DOMAIN W!NoEntry = {"count", "start"}
        /\ Cardinality(Since(q, 0)) \in Nat
    BY SinceSize DEF W!NoEntry
  <2> QED BY <1>0, <2>1 DEF Honest
<1>2. ASSUME NEW h \in Threads, W!ReadClock(h) PROVE HookInv'
  <2>1. /\ request' = [request EXCEPT ![h] = W!At("timed", now, W!NoEntry, FALSE)]
        /\ now' = now /\ hookEntry' = hookEntry /\ passed' = passed /\ wronged' = 0
    BY <1>0, <1>2 DEF W!ReadClock
  <2>2. Honest(W!NoEntry, now, passed') /\ Honest(hookEntry', now, passed') /\ now <= now
    BY <1>0, <1>1, <2>1
  <2>3. Due(W!At("timed", now, W!NoEntry, FALSE))
    BY DEF Due, W!At, W!NoEntry
  <2> QED BY <1>0, <2>1, <2>2, <2>3, HookKept
<1>3. ASSUME NEW h \in Threads, W!ReadEntry(h) PROVE HookInv'
  <2>1. PICK b, d : b = request[h].at /\ d = (W!Cardinality(W!PassedSince(b - HookMinute)) >= Limit)
    OBVIOUS
  <2>2. /\ request' = [request EXCEPT ![h] = W!At("read", b, hookEntry, d)]
        /\ now' = now /\ hookEntry' = hookEntry /\ passed' = passed /\ wronged' = 0
    BY <1>0, <1>3, <2>1 DEF W!ReadEntry
  <2>3. Honest(hookEntry, now, passed) /\ b \in Nat /\ b <= now /\ HookMinute \in Nat /\ Limit \in Nat
    BY <1>0, <2>1, HookAssumption
  <2>4. W!Cardinality(W!PassedSince(b - HookMinute)) = Cardinality(Since(passed, b - HookMinute))
    <3>1. \A A : W!Cardinality(A) = Cardinality(A)
      BY DEF W!Cardinality, Cardinality, W!IsFiniteSet, IsFiniteSet
    <3>2. W!PassedSince(b - HookMinute) = Since(passed, b - HookMinute)
      BY DEF W!PassedSince, Since
    <3> QED BY <3>1, <3>2
  <2>5. ASSUME hookEntry.count # 0, ~(b - hookEntry.start > HookMinute), hookEntry.count >= Limit PROVE d
    <3>1. /\ hookEntry.count \in Nat /\ hookEntry.start \in Nat
          /\ hookEntry.count <= Cardinality(Since(passed, hookEntry.start))
      BY <2>3 DEF Honest
    <3>2. b - HookMinute \in Int /\ hookEntry.start \in Int /\ b - HookMinute <= hookEntry.start
      BY <2>3, <2>5, <3>1
    <3>3. /\ Cardinality(Since(passed, hookEntry.start)) \in Nat
          /\ Cardinality(Since(passed, b - HookMinute)) \in Nat
          /\ Cardinality(Since(passed, hookEntry.start)) <= Cardinality(Since(passed, b - HookMinute))
      BY <1>0, <3>2, SinceSize
    <3>4. Cardinality(Since(passed, b - HookMinute)) >= Limit
      BY <2>3, <2>5, <3>1, <3>3
    <3> QED BY <2>1, <2>4, <3>4
  <2>6. Due(W!At("read", b, hookEntry, d))
    BY <2>5 DEF Due, W!At
  <2> QED BY <1>0, <2>2, <2>3, <2>6, HookKept
<1>4. ASSUME NEW h \in Threads, W!WriteBack(h) PROVE HookInv'
  <2>1. /\ request' = [request EXCEPT ![h] = W!At("idle", 0, W!NoEntry, FALSE)]
        /\ now' = now /\ passed' = Append(passed, now) /\ wronged' = 0
        /\ hookEntry' = IF W!WindowOver(request[h]) THEN [count |-> 1, start |-> request[h].at]
                        ELSE [request[h].saw EXCEPT !.count = @ + 1]
    BY <1>0, <1>4 DEF W!WriteBack, W!Trigger
  <2>2. PICK e, b : e = request[h].saw /\ b = request[h].at
    OBVIOUS
  <2>3. Honest(e, now, passed) /\ b \in Nat /\ b <= now
    BY <1>0, <2>2
  <2>4. Honest(hookEntry', now, passed')
    <3>1. CASE hookEntry' = [count |-> 1, start |-> b]
      <4>1. hookEntry'.count = 1 /\ hookEntry'.start = b /\ DOMAIN hookEntry' = {"count", "start"}
        BY <3>1
      <4>2. Cardinality(Since(passed, b)) \in Nat /\ Cardinality(Since(passed', b)) = Cardinality(Since(passed, b)) + 1
        BY <1>0, <2>1, <2>3, SinceSize, OneMore
      <4> QED BY <2>3, <4>1, <4>2 DEF Honest
    <3>2. CASE hookEntry' = [e EXCEPT !.count = @ + 1]
      <4>1. /\ hookEntry'.start = e.start /\ hookEntry'.count = e.count + 1
            /\ DOMAIN hookEntry' = {"count", "start"}
        BY <2>3, <3>2 DEF Honest
      <4>2. e.count \in Nat /\ e.start \in Nat /\ e.start <= now /\ e.count <= Cardinality(Since(passed, e.start))
        BY <2>3 DEF Honest
      <4>3. /\ Cardinality(Since(passed, e.start)) \in Nat
            /\ Cardinality(Since(passed', e.start)) = Cardinality(Since(passed, e.start)) + 1
        BY <1>0, <2>1, <4>2, SinceSize, OneMore
      <4>4. e.count + 1 <= Cardinality(Since(passed', e.start)) /\ e.count + 1 \in Nat
        BY <4>2, <4>3
      <4> QED BY <4>1, <4>2, <4>4 DEF Honest
    <3> QED BY <2>1, <2>2, <3>1, <3>2
  <2>5. Honest(W!NoEntry, now, passed') /\ 0 \in Nat /\ 0 <= now
    <3>1. Append(passed, now) \in Seq(Nat)
      BY <1>0, AppendProperties
    <3>2. Honest(W!NoEntry, now, Append(passed, now))
      BY <1>1, <3>1
    <3> QED BY <1>0, <2>1, <3>2
  <2>6. Due(W!At("idle", 0, W!NoEntry, FALSE))
    BY DEF Due, W!At, W!NoEntry
  <2> QED BY <2>1, <2>4, <2>5, <2>6, HookKept
<1>5. ASSUME NEW h \in Threads, W!TooMany(h) PROVE HookInv'
  <2>1. /\ request' = [request EXCEPT ![h] = W!At("idle", 0, W!NoEntry, FALSE)]
        /\ now' = now /\ passed' = passed /\ hookEntry' = hookEntry
        /\ ~W!WindowOver(request[h]) /\ request[h].saw.count >= Limit
        /\ wronged' = IF request[h].due THEN wronged ELSE wronged + 1
    BY <1>5 DEF W!TooMany
  <2>2. request[h].due
    BY <1>0, <2>1 DEF W!WindowOver, Due
  <2>3. wronged' = 0
    BY <1>0, <2>1, <2>2
  <2>4. Honest(W!NoEntry, now, passed') /\ Honest(hookEntry', now, passed') /\ 0 \in Nat /\ 0 <= now
    BY <1>0, <1>1, <2>1
  <2>5. Due(W!At("idle", 0, W!NoEntry, FALSE))
    BY DEF Due, W!At, W!NoEntry
  <2> QED BY <2>1, <2>3, <2>4, <2>5, HookKept
<1>6. CASE W!Tick
  <2>1. now' = now + 1 /\ hookEntry' = hookEntry /\ request' = request /\ passed' = passed /\ wronged' = wronged
    BY <1>6 DEF W!Tick
  <2>2. now' \in Nat /\ now <= now'
    BY <1>0, <2>1
  <2>3. \A e : Honest(e, now, passed) => Honest(e, now', passed)
    BY <1>0, <2>2, StaysHonest
  <2>4. \A h \in Threads : request[h].at <= now'
    BY <1>0, <2>1
  <2>5. \A h \in Threads : Due(request[h])'
    BY <1>0, <2>1 DEF Due
  <2> QED BY <1>0, <2>1, <2>2, <2>3, <2>4, <2>5 DEF HookInv
<1>7. CASE UNCHANGED webhookVars
  BY <1>0, <1>7 DEF HookInv, webhookVars, Due
<1> QED BY <1>2, <1>3, <1>4, <1>5, <1>6, <1>7 DEF W!Next

\* _check_rate_limit of the webhook: however many threads read and write back the
\* entry of an address in whatever order, the updates they lose never make it
\* refuse a request unless, when the request read the entry, Limit others had
\* passed since a minute before it read the clock.
THEOREM WebhookRefusesOnlyWhenDue == ServicesSpec => []RefusedOnlyWhenDue
<1>1. ServicesInit => HookInv
  BY HookInit DEF ServicesInit
<1>2. HookInv /\ [ServicesNext]_allVars => HookInv'
  <2> SUFFICES ASSUME HookInv, [ServicesNext]_allVars PROVE HookInv'
    OBVIOUS
  <2>1. W!Next \/ UNCHANGED webhookVars
    BY OneService
  <2> QED BY <2>1, HookStep
<1>3. HookInv => RefusedOnlyWhenDue
  BY DEF HookInv, RefusedOnlyWhenDue, W!RefusedOnlyWhenDue
<1> QED BY <1>1, <1>2, <1>3, PTL DEF ServicesSpec
=============================================================================
