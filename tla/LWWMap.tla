------------------------------- MODULE LWWMap -------------------------------
(***************************************************************************)
(* The Last-Writer-Wins map every agent keeps as its shared memory         *)
(* (tpcp/memory/crdt.py), its SQLite write-through, and the STATE_SYNC      *)
(* exchange by which agents merge each other's maps (core/node.py).        *)
(*                                                                         *)
(* A write takes the map's asyncio lock, changes the in-memory entry, and  *)
(* only then awaits the commit, still under the lock; serialize_state does *)
(* not take the lock, so an entry may reach a peer before it is durable.   *)
(*                                                                         *)
(* Agents and values are naturals: the code compares writer ids and the    *)
(* canonical JSON of values as strings, and only their order matters.      *)
(***************************************************************************)
EXTENDS Naturals, FiniteSets

CONSTANTS
    Node,           \* agents sharing one map
    Key, Value,     \* keys and (ranks of) values
    Durable,        \* the agents constructed with a db_path
    Mortal,         \* the agents that may stop and crash
    ByValue,        \* the agents whose SDK breaks a (timestamp, writer) tie
                    \* by value: Python and TypeScript; Go, Rust, Java do not
    None,           \* "no entry for this key"
    Quiesced,       \* TRUE: the map of a durable agent is written only between
                    \* connect() and close(), and closed only when idle
    CrashMidWrite,  \* TRUE: a crash may fall between a write and its commit
    MaxClock,       \* bound: local writes stop at this Lamport time
    MaxSyncs,       \* bound: distinct snapshots ever sent
    MaxRestarts     \* bound: crashes and close() calls in a behaviour

ASSUME NodeAssumption == Node \subseteq Nat /\ Value \subseteq Nat
ASSUME SubsetAssumption == Durable \subseteq Node /\ ByValue \subseteq Node
                           /\ Mortal \subseteq Node
ASSUME BoundAssumption == MaxClock \in Nat /\ MaxRestarts \in Nat /\ MaxSyncs \in Nat
ASSUME FlagAssumption == Quiesced \in BOOLEAN /\ CrashMidWrite \in BOOLEAN

Entry == [ts : Nat, writer : Node, value : Value]
ASSUME NoneAssumption == None \notin Entry

VARIABLES
    mem,        \* _state: the in-memory entry of each key
    clock,      \* logical_clock
    phase,      \* SQLite: "closed", "opened" (connected, not yet hydrated),
                \* "hydrating" (lock held, rows being read), "ready"
    unread,     \* rows the hydration has still to read
    db,         \* rows committed to lww_map
    saving,     \* the write-through in flight: at most one <<key, entry>>
    merging,    \* entries that running merge() calls have still to set
    net,        \* every serialized state ever sent; a copy may arrive late,
                \* twice, out of order, or never
    written,    \* ghost: every local write ever made, as <<key, entry>>
    seen,       \* ghost: what `set` or hydration gave this incarnation
    restarts    \* bound counter

vars == <<mem, clock, phase, unread, db, saving, merging, net, written, seen, restarts>>

Slot == Key \X Entry
Row == Entry \cup {None}

\* Mutant: the last arrival of a timestamp wins, whoever wrote it.
BeatsLastArrival(n, e, f) == e.ts >= f.ts
\* Mutant: no agent compares values.
BeatsWithoutValue(n, e, f) ==
    \/ e.ts > f.ts
    \/ e.ts = f.ts /\ e.writer > f.writer

\* The branch of `set` that replaces an existing entry f by e at agent n.
Beats(n, e, f) ==
    \/ e.ts > f.ts
    \/ e.ts = f.ts /\ e.writer > f.writer
    \/ n \in ByValue /\ e.ts = f.ts /\ e.writer = f.writer /\ e.value > f.value

\* Mutant: the incoming entry replaces the existing one unconditionally.
UpdatesAlways(n, k, e) == TRUE

Updates(n, k, e) == mem[n][k] = None \/ Beats(n, e, mem[n][k])

LockFree(n) == saving[n] = {} /\ phase[n] # "hydrating"
Connected(n) == phase[n] # "closed"

\* The discipline a caller of a durable map may or may not keep.
Usable(n) == ~Quiesced \/ n \notin Durable \/ phase[n] = "ready"

Init ==
    /\ mem = [n \in Node |-> [k \in Key |-> None]]
    /\ clock = [n \in Node |-> 0]
    /\ phase = [n \in Node |-> "closed"]
    /\ unread = [n \in Node |-> {}]
    /\ db = [n \in Node |-> [k \in Key |-> None]]
    /\ saving = [n \in Node |-> {}]
    /\ merging = [n \in Node |-> {}]
    /\ net = {}
    /\ written = {}
    /\ seen = [n \in Node |-> {}]
    /\ restarts = 0

-----------------------------------------------------------------------------
(* set() and merge() *)

\* Mutant: a losing write is persisted too.
PutSavesLosers(n, k, e) ==
    /\ mem' = IF Updates(n, k, e) THEN [mem EXCEPT ![n][k] = e] ELSE mem
    /\ saving' = IF Connected(n) THEN [saving EXCEPT ![n] = {<<k, e>>}] ELSE saving
    /\ seen' = [seen EXCEPT ![n] = @ \cup {<<k, e>>}]

\* The body of `set` once the lock is held: update the entry if it wins, and
\* start the write-through if the map is connected.
Put(n, k, e) ==
    /\ mem' = IF Updates(n, k, e) THEN [mem EXCEPT ![n][k] = e] ELSE mem
    /\ saving' = IF Updates(n, k, e) /\ Connected(n)
                 THEN [saving EXCEPT ![n] = {<<k, e>>}] ELSE saving
    /\ seen' = [seen EXCEPT ![n] = @ \cup {<<k, e>>}]

\* set(key, value): the local write advances the Lamport clock.
LocalSet(n, k, v) ==
    /\ Usable(n) /\ LockFree(n)
    /\ clock[n] < MaxClock
    /\ clock' = [clock EXCEPT ![n] = @ + 1]
    /\ LET e == [ts |-> clock[n] + 1, writer |-> n, value |-> v]
       IN Put(n, k, e) /\ written' = written \cup {<<k, e>>}
    /\ UNCHANGED <<phase, unread, db, merging, net, restarts>>

\* serialize_state() sent as a State_Sync; it reads _state without the lock.
Publish(n) ==
    /\ \E k \in Key : mem[n][k] # None
    /\ net' = net \cup {mem[n]} /\ Cardinality(net') <= MaxSyncs
    /\ UNCHANGED <<mem, clock, phase, unread, db, saving, merging, written, seen, restarts>>

\* _handle_state_sync starts merge(payload.state).
BeginMerge(n, s) ==
    /\ Usable(n)
    /\ merging' = [merging EXCEPT ![n] = @ \cup {<<k, s[k]>> : k \in {j \in Key : s[j] # None}}]
    /\ merging'[n] # merging[n]
    /\ UNCHANGED <<mem, clock, phase, unread, db, saving, net, written, seen, restarts>>

\* Mutant: receiving an entry does not advance the Lamport clock.
MergeKeyWithoutClock(n, k, e) ==
    /\ Usable(n) /\ LockFree(n)
    /\ merging' = [merging EXCEPT ![n] = @ \ {<<k, e>>}]
    /\ Put(n, k, e)
    /\ UNCHANGED <<clock, phase, unread, db, net, written, restarts>>

\* One key of a merge(): set(key, value, timestamp, writer_id). The lock is
\* released between keys, so other writes may come in between.
MergeKey(n, k, e) ==
    /\ Usable(n) /\ LockFree(n)
    /\ merging' = [merging EXCEPT ![n] = @ \ {<<k, e>>}]
    /\ clock' = [clock EXCEPT ![n] = IF e.ts > @ THEN e.ts ELSE @]
    /\ Put(n, k, e)
    /\ UNCHANGED <<phase, unread, db, net, written, restarts>>

-----------------------------------------------------------------------------
(* SQLite persistence *)

\* Mutant: INSERT OR IGNORE keeps the row the key already has.
PersistOrIgnore(n, k, e) ==
    /\ db' = IF db[n][k] = None THEN [db EXCEPT ![n][k] = e] ELSE db
    /\ saving' = [saving EXCEPT ![n] = {}]
    /\ UNCHANGED <<mem, clock, phase, unread, merging, net, written, seen, restarts>>

\* _persist_unlocked: INSERT OR REPLACE and commit, then the lock is released.
Persist(n, k, e) ==
    /\ db' = [db EXCEPT ![n][k] = e]
    /\ saving' = [saving EXCEPT ![n] = {}]
    /\ UNCHANGED <<mem, clock, phase, unread, merging, net, written, seen, restarts>>

\* Mutant: the connection is usable at once, the rows are not read.
ConnectWithoutHydrate(n) ==
    /\ n \in Durable /\ phase[n] = "closed" /\ LockFree(n)
    /\ phase' = [phase EXCEPT ![n] = "connected"]
    /\ UNCHANGED <<mem, clock, unread, db, saving, merging, net, written, seen, restarts>>

\* connect(): open the database and create the table under the lock.
Connect(n) ==
    /\ n \in Durable /\ phase[n] = "closed" /\ LockFree(n)
    /\ phase' = [phase EXCEPT ![n] = "opened"]
    /\ UNCHANGED <<mem, clock, unread, db, saving, merging, net, written, seen, restarts>>

\* _hydrate_from_db takes the lock and issues its SELECT.
BeginHydrate(n) ==
    /\ phase[n] = "opened" /\ LockFree(n)
    /\ phase' = [phase EXCEPT ![n] = "hydrating"]
    /\ unread' = [unread EXCEPT ![n] = {k \in Key : db[n][k] # None}]
    /\ UNCHANGED <<mem, clock, db, saving, merging, net, written, seen, restarts>>

\* Mutant: hydration restores the entry but not the clock.
HydrateRowWithoutClock(n, k) ==
    /\ phase[n] = "hydrating" /\ k \in unread[n]
    /\ mem' = [mem EXCEPT ![n][k] = db[n][k]]
    /\ unread' = [unread EXCEPT ![n] = @ \ {k}]
    /\ seen' = [seen EXCEPT ![n] = @ \cup {<<k, db[n][k]>>}]
    /\ UNCHANGED <<clock, phase, db, saving, merging, net, written, restarts>>

\* One row: the in-memory entry is overwritten without comparing.
HydrateRow(n, k) ==
    /\ phase[n] = "hydrating" /\ k \in unread[n]
    /\ mem' = [mem EXCEPT ![n][k] = db[n][k]]
    /\ clock' = [clock EXCEPT ![n] = IF db[n][k].ts > @ THEN db[n][k].ts ELSE @]
    /\ unread' = [unread EXCEPT ![n] = @ \ {k}]
    /\ seen' = [seen EXCEPT ![n] = @ \cup {<<k, db[n][k]>>}]
    /\ UNCHANGED <<phase, db, saving, merging, net, written, restarts>>

EndHydrate(n) ==
    /\ phase[n] = "hydrating" /\ unread[n] = {}
    /\ phase' = [phase EXCEPT ![n] = "ready"]
    /\ UNCHANGED <<mem, clock, unread, db, saving, merging, net, written, seen, restarts>>

\* close(): a write-through that has not committed is lost with the connection
\* (its set() raises), the entry stays in memory.
Close(n) ==
    /\ n \in Mortal /\ phase[n] = "ready" /\ restarts < MaxRestarts
    /\ Quiesced => LockFree(n) /\ merging[n] = {}
    /\ phase' = [phase EXCEPT ![n] = "closed"]
    /\ saving' = [saving EXCEPT ![n] = {}]
    /\ restarts' = restarts + 1
    /\ UNCHANGED <<mem, clock, unread, db, merging, net, written, seen>>

\* The process dies and is started again with a fresh LWWMap.
Crash(n) ==
    /\ n \in Mortal /\ restarts < MaxRestarts
    /\ CrashMidWrite \/ saving[n] = {}
    /\ mem' = [mem EXCEPT ![n] = [k \in Key |-> None]]
    /\ clock' = [clock EXCEPT ![n] = 0]
    /\ phase' = [phase EXCEPT ![n] = "closed"]
    /\ unread' = [unread EXCEPT ![n] = {}]
    /\ saving' = [saving EXCEPT ![n] = {}]
    /\ merging' = [merging EXCEPT ![n] = {}]
    /\ seen' = [seen EXCEPT ![n] = {}]
    /\ restarts' = restarts + 1
    /\ UNCHANGED <<db, net, written>>

-----------------------------------------------------------------------------
Step(n) ==
    \/ \E k \in Key, v \in Value : LocalSet(n, k, v)
    \/ Publish(n)
    \/ \E s \in net : BeginMerge(n, s)
    \/ \E w \in merging[n] : MergeKey(n, w[1], w[2])
    \/ \E w \in saving[n] : Persist(n, w[1], w[2])
    \/ Connect(n) \/ BeginHydrate(n) \/ EndHydrate(n)
    \/ \E k \in Key : HydrateRow(n, k)
    \/ Close(n) \/ Crash(n)

Next == \E n \in Node : Step(n)

Spec == Init /\ [][Next]_vars

\* The event loop runs every started coroutine on; start_listening connects
\* the map; and the application keeps sending its state, of which a fresh copy
\* eventually gets through (the code itself never re-sends a lost State_Sync).
Fairness ==
    \A n \in Node :
        /\ \A k \in Key, e \in [ts : 1..MaxClock, writer : Node, value : Value] :
               WF_vars(<<k, e>> \in merging[n] /\ MergeKey(n, k, e))
        /\ WF_vars(\E w \in saving[n] : Persist(n, w[1], w[2]))
        /\ WF_vars(Connect(n) \/ BeginHydrate(n) \/ EndHydrate(n))
        /\ WF_vars(\E k \in Key : HydrateRow(n, k))
        /\ WF_vars(Publish(n))
        /\ \A m \in Node : SF_vars(mem[m] \in net /\ BeginMerge(n, mem[m]))

FairSpec == Spec /\ Fairness
-----------------------------------------------------------------------------
(* Properties *)

\* Shapes of the variables of crdt.py and of the model's ghosts.
TypeOK ==
    /\ mem \in [Node -> [Key -> Row]]
    /\ clock \in [Node -> Nat]
    /\ phase \in [Node -> {"closed", "opened", "hydrating", "ready"}]
    /\ unread \in [Node -> SUBSET Key]
    /\ db \in [Node -> [Key -> Row]]
    /\ saving \in [Node -> SUBSET Slot]
    /\ merging \in [Node -> SUBSET Slot]
    /\ net \subseteq [Key -> Row]
    /\ written \subseteq Slot
    /\ seen \in [Node -> SUBSET Slot]
    /\ restarts \in Nat

\* Whatever order local writes, merges of late or repeated snapshots and
\* hydrated rows came in, the entry held for a key is the greatest of those
\* applied to it: the incremental comparison in `set` computes a join.
HoldsTheJoin ==
    \A n \in Node, k \in Key :
        /\ mem[n][k] # None => <<k, mem[n][k]>> \in seen[n]
        /\ \A w \in seen[n] : w[1] = k => mem[n][k] # None /\ ~Beats(n, w[2], mem[n][k])

\* Two agents that were given the same writes hold the same map, in whatever order
\* `set`, merge() and the hydration took them, restarts and ties included.
Convergent == \A m, n \in Node : seen[m] = seen[n] => mem[m] = mem[n]

\* logical_clock is exactly the greatest timestamp held, also after close(),
\* reconnect, crash and hydration: it never lags behind an entry (the next
\* local write would lose) and never runs ahead of what a restart restores.
ClockIsLatest ==
    \A n \in Node :
        /\ \A k \in Key : mem[n][k] # None => mem[n][k].ts <= clock[n]
        /\ clock[n] > 0 => \E k \in Key : mem[n][k] # None /\ mem[n][k].ts = clock[n]

\* A (timestamp, writer) stamp names one write among all ever made, restarts
\* included, so that LWW never has to choose between two values of the same
\* stamp: hydration restores the clock the last incarnation had.
StampsUnique ==
    \A a, b \in written : a[2].ts = b[2].ts /\ a[2].writer = b[2].writer => a = b

\* When a connected durable map is idle, SQLite holds exactly what it holds in
\* memory: every winning write was written through and no losing one was.
DbMirrorsMemory ==
    \A n \in Node : phase[n] = "ready" /\ LockFree(n) => db[n] = mem[n]

\* An entry is only ever replaced by one that beats it (RFC-001 6.1: "the entry
\* with the higher Lamport timestamp wins"): in memory while the agent stays up,
\* hydrating, reconnecting and merging included, and in SQLite across restarts.
Advances(n, k) ==
    mem'[n][k] = mem[n][k] \/ mem[n][k] = None \/ Beats(n, mem'[n][k], mem[n][k])
DbAdvances(n, k) ==
    db'[n][k] = db[n][k] \/ db[n][k] = None \/ Beats(n, db'[n][k], db[n][k])
NeverRegresses ==
    [][\A n \in Node, k \in Key : (Crash(n) \/ Advances(n, k)) /\ DbAdvances(n, k)]_vars

\* Once agents stop writing and failing (both are bounded), all of them end
\* up holding the same map and keep it.
Agreed == \A n, m \in Node : mem[n] = mem[m]
EventuallyAgree == <>[]Agreed

\* The map implements the abstract ReplicatedMap: an agent that has been given
\* a set of writes reads their greatest, reads nothing that was never
\* written, and its own writes win over all it has seen.
RM == INSTANCE ReplicatedMap WITH known <- seen, read <- mem
ImplementsReplicatedMap == RM!Spec
=============================================================================
