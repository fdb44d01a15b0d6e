# TPCP (agent-telepathy): TLA+ models, model checks and proofs

TPCP lets agents exchange signed envelopes over WebSockets, either directly or
through an A-DNS relay, and share a small replicated memory. This directory
models the parts of it where order, failure and concurrency matter. All names
and line numbers refer to the repository (`PROJECT.json`, "map", gives the
lines every definition stands for).

    tlc -workers 2 -config LWWSafety.cfg MCLWWMap      # one of the runs below
    tlapm LWWMapProofs.tla                             # one of the proof modules

## 1. The system

| Part (Python reference SDK unless said otherwise) | State | Operations | Talks to | What is hard | What makes it correct |
|---|---|---|---|---|---|
| **Shared memory** `memory/crdt.py` | `_state` (key → value, timestamp, writer), `logical_clock`, SQLite table | `set`, `merge`, `connect` + hydration, `close`, `serialize_state` | STATE_SYNC handler of the node; peers' snapshots | snapshots late, repeated, lost; the lock is released between the keys of a merge; memory changes before the commit; crashes | join semantics, clock and table agree with the map, agents converge |
| **Peer delivery and dead-letter queue** `core/node.py`, `core/queue.py` | `peer_registry`, `_peer_connections`, `_dlq`, `_running` | `send_message`, `_dispatch_envelope`, `_get_peer_connection`, `_reconnect_and_drain`, `register_peer`, `remove_peer`, `start_listening`, `stop_listening` | peers over WebSockets | one drain task per failed send, all sharing queue and pool across awaits; connection lost under a written frame; full queue | nothing lost or multiplied inside the agent; queued messages are drained |
| **A-DNS relay** `relay/server.py` and the agents' relay loop `core/node.py` 200-272 | `registry`, `_pending_challenges`, rate limiters; `_adns_ws`, `_adns_registered` | handshake → challenge → answer → registered; unicast; fan-out; clean-up | every agent | one coroutine per connection; registry read before an await and changed after it; half-open sockets; reconnects | registry refers to live connections; a confirmed agent is reachable; messages forwarded at most once and, between registered agents, delivered |
| **Inbound pipeline** `core/node.py` 304-473, `security/acl.py` | `_seen_messages`, `peer_registry`, ACL rules | TTL, duplicate check, signature, ACL, dispatch to the intent's handler | all of the above | copies over several connections and during a handler's await, expiry of the cache, order of the checks | each accepted message is handled once per window |
| **Acknowledged sends** `core/node.py` 460-549 | `_pending_acks`, futures | wait 30 s for ACK / NACK; cancel on stop | inbound pipeline | timeout against answer, answer during the dispatch, cancelled callers | every call ends, with the outcome its answer says, and leaves no entry |
| **Broadcast, multicast** `core/node.py` 551-608 | – | loop over a copy of the registry, or one envelope to the relay | delivery, relay | peers and relay change during the loop | one envelope to the relay, or one message to every peer that stays; the count is right |
| **Chunked transfer** `core/chunker.py`, `core/reassembler.py` | four dictionaries per transfer | split, ingest, purge | inbound pipeline | interleaved, repeated, late chunks | reassembled = sent, nothing given up in time, nothing kept for ever |
| **Rate limits** `relay/server.py` 48-74, 230-239, `relay/webhook.py` | token bucket per connection, challenges and requests per address | consume, issue, count | relay, webhook's thread pool | fractions, window boundaries, unlocked counter | the rate promised, no undue refusal |
| **Modbus adapter** | `_client`, `_retry_queue` | `execute_write`, `drain_retry_queue`, `connect`, `disconnect`, `poll_registers` | device, node | awaits inside a drain, link and client change under a poll | no failed command lost, polling goes on |
| **CAN adapter** | `_bus`, `_running`, reader thread | `start_listening`, `stop_listening` | bus, event loop | thread outliving its session | one reader, frames in order |
| **OPC-UA adapter** | `_client` | `start_subscription`, `execute_write` | server | client replaced across awaits | no connection leak |
| **Home Assistant adapter** | `_session`, `_listening_task` | `start_event_stream`, `execute_service_call`, `stop` | Home Assistant | a listener that retries everything | it ends when stopped |
| **MQTT and ROS2 adapters** | client, subscriptions | readings into STATE_SYNC broadcasts | broker or ROS, shared memory | client thread, reordering, equal timestamps | the swarm sees the latest reading |
| **Vector bank, crypto, schemas, framework adapters, CLI, mock node** | – | – | – | – | mostly pure functions or third-party glue |
| **TypeScript, Go, Rust, Java SDKs** | as the Python node | as the Python node | interoperate with it | differences in tie-breaking and reconnection | same answers as the Python SDK |
| **Kubernetes, CI** | – | – | – | – | configuration |

## 2. The modules

| Module | Models | Status |
|---|---|---|
| `LWWMap` | `crdt.py` and the State_Sync exchange | checked and proved |
| `ReplicatedMap` | abstract specification of shared memory | refined by `LWWMap` (checked and proved) |
| `LWWMapProofs` | theorems about `LWWMap` | proved |
| `MessageQueue` | `queue.py` as operators on a sequence | used by `PeerDelivery` |
| `PeerDelivery` | delivery to one peer: sends, pool, queue, drain tasks | checked and proved |
| `AtLeastOnce` | abstract specification of sending to a peer | refined by `PeerDelivery` (checked and proved) |
| `PeerDeliveryProofs` | theorems about `PeerDelivery` | proved |
| `Relay` | the relay's coroutines and the agents' relay loop | checked and proved |
| `RelayProofs` | theorems about `Relay` | proved |
| `Inbound` | the inbound pipeline and acknowledged sends | checked and proved |
| `InboundProofs` | theorems about `Inbound` | proved |
| `RateLimits` | the relay's token bucket and challenge limit | checked and proved |
| `RateLimitsProofs` | the bounds on both | proved |
| `Transfer` | chunker and reassembler | checked and proved |
| `Webhook` | the gateway's request limit on its thread pool | checked and proved |
| `FanOut` | `send_broadcast`, `send_multicast` | checked and proved |
| `Modbus`, `CanBus`, `OpcUa` | the adapter of that name | checked and proved |
| `HomeAssistant` | the adapter of that name | checked (liveness) |
| `SensorBridge` | MQTT and ROS2 telemetry down to the merge at a receiver | checked and proved |
| `MCLWWMap`, `MCInbound` | symmetry, and the envelopes of `Inbound`'s runs | |
| `MCServices` | the nine components that work on their own, one of which a behaviour runs | |
| `JoinProofs` | sorting and joining the chunks of a transfer | proved |
| `ServicesProofs` | theorems about `FanOut`, `Transfer`, `Webhook` | proved |
| `AdapterProofs` | theorems about the adapters | proved |

Definitions whose comment starts with "Mutant:" are not part of a model: they
are faulty variants of the definition that follows them. Each property of a
passing run is paired in `PROJECT.json` with a variant under which it fails.

### LWWMap

`mem[n]`, `clock[n]`, `db[n]` are `_state`, `logical_clock` and the committed
rows. The asyncio lock is not a variable: it is held exactly while a
write-through (`saving`) or the hydration is in flight (`LockFree`). `LocalSet`
is `set` without a timestamp; `BeginMerge`/`MergeKey` is `merge`, one `set` per
key with the lock free in between; `Persist` is the commit that ends a `set`;
`Connect`, `BeginHydrate`, `HydrateRow`, `EndHydrate` are `connect()`; `Close`
drops an uncommitted write-through with the connection; `Crash` restarts the
process with nothing but `db`. `Publish` serialises without the lock, as
the code does, so a peer can learn an entry before it is durable. `net` keeps
every snapshot ever sent; a behaviour that never merges one is its loss, one
that merges it again its duplication. Writer ids and values are naturals because
the code only compares them (`writer_id >`, `json.dumps(...) >`).

`ByValue` is the set of agents whose SDK compares values when timestamp and
writer agree: Python and TypeScript do, Go, Rust and Java keep the first.

`Quiesced` is the discipline a user of a durable map has to keep: write, merge
and close only between the end of `connect()` and `close()`, with nothing in
flight. The code does not enforce it, and the node itself keeps it only up to
`stop_listening`. All runs, and all theorems but the one about types, assume it: without it
`_hydrate_from_db`, which stores every row without comparing (crdt.py:81),
replaces an entry that was written or merged before `connect()` by an older row.

### MessageQueue and PeerDelivery

One agent, one peer. The queue methods hold an uncontended asyncio lock and
contain no await, so each is atomic, and dequeueing and the write inside
`ws.send` are one step: the first suspension is `ws.send`'s flush. `send[m]` and
`drain[m]` are the program points of `send_message(m)` and of the drain task its
failure started. A connection is `open`, `closing` (a close is scheduled but the
socket still OPEN), `broken` (cut by the network, not noticed) or `closed`
(`send` raises). `Fresh` reuses the names of connections nobody refers to, so
`Conn` bounds the connections alive at once, not their number. `StopBegin` and
`StopEnd` are the two halves of `stop_listening` around its await: the pool is
cleared after it, with whatever was put there meanwhile. Nothing is said about
the order of arrival: two drain tasks, each with a connection of its own, take
turns at the queue and may overtake each other. `Held` is what is left of the
messages: with a task, in the queue or on a connection. `AtLeastOnce` says what
may become of them, without saying where they are or who moves them.

### Relay

A session is a connection of an agent. The agent sends one handshake on it
(`broadcast_discovery`), so a session also names the nonce of its challenge:
an answer verifies iff the pending challenge is the session's own. The
coroutine of a session reads (`Reads`), awaits the challenge it sent
(`challenging`) or awaits a forward (`forwarding`, with the targets still to do
and the agents found stale). `Deregister` is the `del` loop of the fan-out,
which stops at the first id that is gone (the KeyError is caught by the loop of
`_handle_connection`). `Throttle` stands for the token bucket and the size
limit: some frame closes the connection. The limit of ten challenges per minute
and address (`Limit`) is `RefuseHello`: the handshake is dropped and the
connection kept. `issued` counts, up to `Limit`, the entries ever made in
`_challenge_rate_limits`, those of unregistered senders' messages included
(`DropUnverified`); from `Limit` on any challenge may be refused, since which
agents share an address and how much time has passed is left open (`RateLimits`
has the list itself, with its ages). `refused` (a ghost) has the sessions whose
handshake was dropped. The TTL is left out. Agents are honest and hold their key.

`prompt` is chosen in the initial state. When TRUE an agent reconnects only
after the relay is through with its previous session: the coroutine has cleaned
up, and no fan-out is still waiting on it or about to deregister the agent.
When FALSE the relay learns of a lost connection late. Both are in every run,
and each property says which one it is about. Noticing a disconnection quickly
is by itself not enough for `prompt`: a broadcast that has failed on an agent
and awaits a slower one deregisters the agent afterwards even if it has
registered again meanwhile. So `PromptIsRegistered` and `PromptlyRegistered` say
nothing of the races with an old session; `ConfirmedIsRegistered` and
`EventuallyRegistered`, without `prompt`, do, and are violated (section 4).

### Inbound

An envelope is a record of what the pipeline tells apart: id, sender, intent,
TTL, kind of payload, what the signature covers, and whom or which message it
refers to. A frame runs from its arrival to the first await of its handler in
one step, because `_process_inbound` awaits nothing before: `DropExpired`,
`DropDuplicate`, `Refuse` and one action per handler are the ways it can go.
Handlers that await (the application's, and the merge of a snapshot) are
`BeginHandler` and `EndHandler` or `HandlerRaises`; meanwhile their connection
reads nothing, the others do. `seen` maps an envelope to its age in the cache;
ages stop at `Window`, where the code forgets.

`call[m]`, `fut[m]` and `timer[m]` are a `send_message(require_ack=True)`, its
future and its timer, which `wait_for` arms only after the dispatch. The timer
cancels the future (`TimerFires`) and the call wakes later (`Wake`);
`TimerOvertakesAnswer` is Python 3.12's `wait_for`, in which a timer that is due
in the iteration that set the result wins (CI runs 3.11 and 3.12).
`CancelCaller` is the application cancelling the task that awaits the call. The
node's own ACKs cannot be built (`CanSign`, see section 4); the answers that
arrive are signed over the payload alone, as the verification expects.

### RateLimits, Webhook

Tokens are counted in units of which a tick adds `Rate` and a message costs
`Cost`, so fractions of a token are exact. `debt` is a ghost that turns "in any
interval" into a state predicate: the largest excess of what was let through
over what the rate allows, over all intervals ending now. A challenge is a
`Ticket` with its age: `issued` is the address's list, which drops old entries
only when the next challenge is asked for, and `recent` (a ghost) all that were
issued within the last minute. A ticket is used again once both have forgotten
it, so `Ticket` bounds the challenges remembered at once. The webhook's limiter
is a plain function FastAPI runs on a thread pool: reading the clock, reading
the entry and writing it are three steps of each thread. Lost updates and the
fixed window let more than 60 requests a minute through; what is checked is the
other direction, that nobody is refused unduly. The ghost `passed` has the time
at which each request passed, and `due`, fixed when a thread reads the entry,
whether `Limit` of them passed since a minute before that thread read the clock.
Requests that passed between the two readings count: a thread with a stale clock
can be refused although nobody had passed when it read the clock.

### Transfer, FanOut

`Transfer`'s four functions are the reassembler's four dictionaries, with their
keys. A payload is a sequence of distinct bytes, so that a wrong order, a gap or
a mixture of transfers shows. `Sorted` is `sorted()`, given by what it does, since
no two chunks kept of a transfer have the same index. The chunks come from peers, because
`send_chunked` on a `TPCPNode` raises at its first chunk (section 4).
`FanOut` takes `_dispatch_envelope` to send or queue, which is what
`PeerDelivery` shows, and lets peers and the relay connection come and go
between any two dispatches. A call is `relayed` when its send to the relay has
returned, that is, when the frame is written. What becomes of it the node does
not learn: `_adns_ws` is set before the agent is registered and stays set after
it is deregistered, and the relay drops what an unregistered agent sends
(`DropUnverified` of `Relay`); and a send that raises may have left its frame with
the relay, which fans it out while the fallback dispatches to every peer again.
`FanOutExact` is therefore about what the node itself writes and dispatches.

### The adapters

* `Modbus`: the tasks are calls of `execute_write` and `drain_retry_queue`, each
  with its copy of the queue and what failed again; a step is the code between
  two awaits of the device. An error response of the device counts as written,
  since `_do_write` does not look at it. A register read that began over a link
  (`reading`) may return whatever becomes of the client; one that begins without
  a link (`raising`) fails.
* `CanBus`: a session is one `start_listening` with its bus and thread. The flag
  `_running` is shared, so a thread that outlived its session would be revived
  by the next one; that it cannot rests on the join of 2 s being longer than
  the `recv` timeout of 1 s (`JoinSuffices`).
* `OpcUa`: clients are named by the call that created them. Overlapping
  `start_subscription` calls do leak a client; the property is about the others.
* `HomeAssistant`: a second `start_event_stream` orphans the first listener,
  which then retries on a closed session for ever; the property excludes it.
* `SensorBridge`: the ROS2 half stamps every reading 1 (ros2_adapter.py:182), so
  of two readings the one with the greater JSON text stays; `LatestShown` is
  therefore about MQTT, and assumes that no two readings are packed in the same
  millisecond and that the wall clock does not go back. `start_ros2_spin` only
  creates the node; that somebody spins it is assumed. The event loop runs.

## 3. The runs

| Run | Result | Instance | Shows |
|---|---|---|---|
| `lww_safety` | pass | 2 agents, 1 durable, 2 keys, clock ≤ 2, 2 snapshots, 1 restart (130 610 states) | `HoldsTheJoin`, `ClockIsLatest`, `StampsUnique`, `DbMirrorsMemory`, `NeverRegresses`, refinement of `ReplicatedMap` |
| `lww_converge` | pass | 2 agents, 1 durable, 1 key, 2 values, crash mid-write | `Convergent`, `EventuallyAgree`, also when a lost write's timestamp is used again for another value |
| `lww_mixed_sdks` | violation | one agent with, one without the value tie-break | the SDKs do not converge |
| `delivery` | pass | 2 sends, 2 connections, queue of 1, 1 cut, 1 outage, 2 register/remove/start/stop (745 682 states) | `NothingVanishes`, `OneOwner`, `DuplicateOnlyAfterLoss`, `NeverStranded`, `EventuallySettled`, refinement of `AtLeastOnce` |
| `dlq_stranded` | violation | 2 sends, 2 register/remove | a message for an unregistered peer is never drained |
| `relay` | pass | 3 agents, 1 message (unicast or broadcast), 1 flaky agent with 2 sessions, a limit of 2 challenges (212 015 states) | `NoDanglingEntry`, `PromptIsRegistered`, `AtMostOnce`, `PromptlyRegistered`, `EventuallyRouted` |
| `relay_stale` | violation | 2 agents, 1 message | a forward on a lost connection deregisters the new one |
| `relay_rejoin` | violation | 1 agent, 2 sessions | a handshake during a stale pending challenge is ignored for good |
| `inbound` | pass | 2 peers, 2 connections, 7 envelopes of which 3 arrive, 1 call, window of 2 ticks, timeout of 1, 1 policy or registry change, stop or cancellation (338 724 states) | `HandledOncePerWindow`, `OutcomeIsTruthful`, `PendingIsLive`, `CallsEnd` |
| `ack_emitted` | violation | the same | a node with `auto_ack` handles a message and sends no ACK |
| `services` | pass | nine components, one per behaviour, bounds below (1 278 469 states) | `ChunksExact`, `InTimeIsDelivered`, `BooksAgree`; `Throughput`, `ChallengesPerMinute`; `RefusedOnlyWhenDue`; `FanOutExact`; `RetriesKept`, `PollsOn`; `OneReader`; `NoConnectionLeak`; `StopsListening`; `LatestShown` |
| `modbus_lost` | violation | 2 or more overlapping writes | a command queued during a drain is lost |

Why the bounds are enough. Two agents and two keys give every order of two
writes, a snapshot of both and a merge interleaved with a local write; the
proofs of section 5 remove the bounds of this and of the other runs for all
their safety properties. A queue of one with two sends fills, evicts from both ends and has a task holding
a message while another is queued; two drain tasks are the least that can
interleave; two connections are what two tasks can hold, and a third party
would only repeat one of their roles. Three agents are needed for a fan-out that
fails on one target while another is pending; two sessions for everything about
reconnecting; a limit of two, below the four handshakes of the run, lets the
third and the fourth be refused or not. (`relay_stale` and `relay_rejoin` have
the code's limit of ten, which they cannot reach.) In `inbound`, three arrivals give a handshake and what it
unlocks, both copies of a message around its expiry, or an ACK and a NACK for
one call; two connections are what a second copy during a handler needs; the
window is longer than the timeout, as in the code. In `services`: two transfers, one with
a short last chunk, and six chunks allow every order with repetitions and a
purge in between; three threads at a limit of two lose an update and are then
refused; two fan-outs over three peers, of which two have the capability, meet
three changes; three writes, a drain
and a queue of two fill, overlap and fail, while two registers are polled for two
cycles; three CAN and Home Assistant sessions are a stop and two restarts; three
overlapping subscriptions and a write cover every owner of a client; three
readings whose values are ordered neither like time nor against it would show a
tie broken by value. `CHECK_DEADLOCK FALSE` is set where the bounded program
ends: all messages sent, all tasks done.

### Fairness

* `LWWMap`: coroutines that are ready run (WF on merges, commits, hydration);
  `start_listening` connects the map. The application keeps publishing its map
  and a fresh copy gets through (WF/SF on `Publish`, `BeginMerge`). The code
  never re-sends a lost State_Sync itself, so this is an assumption about the
  application and about TCP, not about `crdt.py`.
* `PeerDelivery`: the event loop runs ready tasks; TCP delivers a frame or the
  connection is found dead (the keepalive of websockets); the peer comes back.
  Nothing makes the application register, remove, start or stop.
* `Relay`: coroutines run on, pings discover a lost connection, and an agent's
  loop (`while self._running`) retries for ever. No fairness on losing
  connections, on sending, or on throttling.
* `Inbound`: time passes, and the event loop runs a call whose dispatch, timer
  or future is ready. Nothing makes an answer arrive. `CallsEnd` takes the
  dispatch to end, which the open timeout and keepalive of websockets see to.
* `HomeAssistant`: the event loop runs each listener that can go on (WF on its
  steps). Events, faults, starts and stops are not fair.

## 4. What the runs found

1. `lww_mixed_sdks`: RFC-001 calls the tie rule "identical across all
   implementations"; Go, Rust and Java lack its last case, and an agent without
   persistence does reuse a stamp after a restart.
2. `dlq_stranded`: "messages queue up and drain automatically"; a message for a
   peer that is not registered yet has no drain task, and registering starts none.
3. `relay_stale`: `del self.registry[...]` after an awaited send does not check
   that the entry is still the connection that failed.
4. `relay_rejoin`: the pending-challenge guard ignores the only handshake of a
   reconnecting agent.
5. `ack_emitted`: ACK and NACK are signed over the payload and `ack_info`, whose
   UUID `json.dumps` does not serialise; every attempt raises and is logged, so
   no Python node ever acknowledges, and `require_ack` between two of them ends
   in a timeout. `send_message` with `chunk_info` raises the same way. (Were the
   UUID serialised, the receiver would still verify the payload alone.)
6. `modbus_lost`: `drain_retry_queue` replaces the queue after its awaits.

Seen while modelling, without a run:

* The eleventh challenge of an address within a minute is not sent
  (server.py:236). The agent sends one handshake per connection and waits, so it
  stays connected and unregistered. Its back-off does not rule that out: it is
  reset by every successful connect (node.py:215), a clean close skips it, and
  all agents behind one address share the limit. `PromptlyRegistered` says that
  for agents that reconnect promptly there is no other cause.
* A broadcast the relay drops is counted, and the known peers are not tried; one
  the relay fans out may be repeated to every peer by the fallback, under other
  message ids (see FanOut in section 2).
* Overlapping drains of the Modbus queue write its commands twice.
* Hydration overwrites entries written before `connect()` (section 2).
* Drain tasks do not keep FIFO order although `queue.py` says so.
* The webhook's limit can be exceeded.
* A cancelled caller's entry stays in `_pending_acks` until `stop_listening`.
* A message id is marked as seen before its signature is checked.

## 5. Proofs

The theorems hold for every value of the constants that the named ASSUMEs of the
component's module allow. TLC evaluates those assumptions in the runs.

| Proof module | Theorems | Assumptions |
|---|---|---|
| `LWWMapProofs` | `LWWTypeOK`; `LWWHoldsTheJoin`, `LWWClockIsLatest`, `LWWDbMirrorsMemory`, `LWWNeverRegresses` (under `Quiesced`); `LWWImplementsReplicatedMap`; `LWWStampsUnique`; `LWWConvergent`, `LWWConvergentMixed` | agents and values are naturals, `None` is no entry, the flags are Boolean |
| `PeerDeliveryProofs` | `DeliveryTypeOK`, `DeliveryOneOwner`, `DeliveryNothingVanishes`, `DeliveryEvictsOnlyWhenFull`, `DeliveryNeverStranded`, `DeliveryDuplicateOnlyAfterLoss`, `DeliveryImplementsAtLeastOnce` | the bounds are naturals, `NoConn` is no connection, the queue holds at least one message |
| `RelayProofs` | `RelayTypeOK`, `RelayNoDanglingEntry`, `RelayPromptIsRegistered`, `RelayAtMostOnce` | an agent has at least one session; `All` is no agent, `None` neither session nor message, a control frame no message |
| `InboundProofs` | `InboundTypeOK`, `InboundHandledOncePerWindow`, `InboundPendingIsLive`, `InboundOutcomeIsTruthful` | window and timeout positive, the application registers peers, envelopes well-formed, ids distinct |
| `RateLimitsProofs` | `BucketThroughput`, `ChallengesLimited` | rate, price, burst and limit are naturals, a minute is at least one tick |
| `ServicesProofs` | `FanOutIsExact`, `TransferInTime`, `TransferBooksAgree`, `TransferExact` (with `JoinProofs`), `WebhookRefusesOnlyWhenDue` | finitely many peers; chunks and payloads of at least one byte (`send_chunked` refuses others); limit and window are naturals |
| `AdapterProofs` | `AdapterNoConnectionLeak`, `AdapterLatestShown`, `AdapterOneReader`, `AdapterPollsOn`, `AdapterRetriesKept` | calls have distinct names; at least one register and one poll; readings, queue size and sessions are naturals |

Hypotheses beyond these, each a discipline the code does not enforce or a fact
about its settings:

* `Quiesced` for all of `LWWMap` but its types (section 2).
* `ByValue = Node` for the refinement and for `LWWConvergent`: with an agent that
  keeps the first of two equal stamps, a map is not the join of what it saw
  (finding 1).
* `~CrashMidWrite` and `Mortal \subseteq Durable` for `LWWStampsUnique` and
  `LWWConvergentMixed`: an agent that restarts without its last write, or without
  any, gives its stamp out again.
* `JoinSuffices` for `AdapterOneReader`: the join of 2 s outlasts `recv`'s 1 s.

### Why the invariants had to be strengthened

**LWWMap.** Hydration must not overwrite anything newer, so one has to know what
memory holds during it: `DbTracks` says how `db` relates to `mem` in each phase
(equal up to the write in flight when connected; in memory nothing, or what the
rows say, before the hydration has read them). With `DbTracks`, a hydrated row is
the join of what was seen of its key, the clock is the greatest timestamp, and a
commit brings the row to the memory's entry. The inductive invariant is
`HoldsTheJoin /\ ClockIsLatest /\ DbTracks` on top of the type invariant (which
includes `RowsExist`: an unread row is there). `set`'s effect is proved once
(`PutType`, `PutJoins`, `PutClock`, `PutTracks`, `PutAdvances`) and cited by the
local write and by the merge; joins need `Beats` to be irreflexive and
transitive, which is proved for agents with and without the value comparison.
The half of `NeverRegresses` about SQLite adds `SavingBeats`: the write in
flight beats the row it will replace.

The refinement needs `Authentic`: every entry in memory, table, merge, commit or
snapshot was once written by a `set`, so what a step adds to a replica is
something the abstract map has. A local write maps to `Write`, a merged key or a
hydrated row to `Learn`, the loss of the memory to `Forget`, and the other steps
to stutters. `LWWStampsUnique` needs `StampsBounded`:
the stamps an agent gave out are at or below its clock, or, until its rows are
read back, below some row; so hydration brings the clock past them.

Strong convergence (`Convergent`: same entries seen, same map) is what
`HoldsTheJoin` is for. If every agent compares values, each map is the greatest
of what its agent saw, which the set of it determines, even where a stamp was
used twice. If some keep the first of two entries with equal stamps, two maps
may only differ in such entries; `Authentic` and `StampsUnique` say that there
are none as long as no agent restarts without its last write. Together the two
theorems say when finding 1 is harmless.

**PeerDelivery.** `Hands` ties what a task holds to its program point. `Owned`
adds to `OneOwner` that a message is neither queued nor with a drain task before
its call has ended, which is what makes the enqueueing of a failed send safe;
`Kept` adds to `NothingVanishes` that a message being flushed has been written,
so that a task may forget it when the flush returns. `NeverStranded` and
`DuplicateOnlyAfterLoss` speak about behaviours without calls of register,
remove, start and stop; `Steady` keeps what holds there, and `Calm` says that
while no connection was lost each message is written once: what is still pending
is on no connection, what is on one is on no other and not yet read. The actions
are first reduced to the five things they can do to the owners of a message
(`SendMoves`, `SendQueues`, `DrainMoves`, `DrainTakes`, `DrainReturns`).

The refinement of `AtLeastOnce` looks at a step from four sides. The tasks and
the queue hold nothing they did not hold before, except the message the step
accepts (`InsideFrom`, `AcceptsOne`); what is written to a connection is in the
hand of a task at that moment, and only what was on a connection or is just
being written is cut (`WiresFrom`); a message is given up only by a full queue
with one more message in hand, hence when more are held than there is room for
(`EvictsFrom`, of which `DeliveryEvictsOnlyWhenFull` is the form that counts all
messages sent); and what is not held any more has a reason, because nothing
vanishes (`DeliveryNothingVanishes`, which in turn needs that whatever is held
was sent: `Inside`, `WireSent`). `Receive` maps to `Arrive`, the first step of a
`send_message` call to `Accept`, every other step to `Lapse` or a stutter.

**Relay.** `Entries` adds to `NoDanglingEntry` whose connection an entry is.
`PromptIsRegistered` is far from inductive: it needs that the agent has no other
session the relay knows of (`Alone`), that no fan-out has another one as a
target or is about to deregister the agent (`Undisturbed`), and that "registered"
still on its way counts as told; `Clients` and `Pairs` say whose the connections
are. `AtMostOnce` needs to follow a message from the sender: before the relay
reads it nobody forwards or holds it (`Uplink`), one coroutine forwards it, and
whoever is left to do in its fan-out does not hold it yet (`FanningOut`).

**Inbound.** `InboundHandledOncePerWindow` rests on `Remembered`: what was
handled less than a window ago is in the cache and not marked as older than
that. The clean-up keeps it (`FreshRemembers`), because it drops only entries a
full window old; a refused copy marks anew and only makes an entry younger. The
two properties of calls rest on `CallInv`, one conjunct per call: `Books` adds
that a live call in the dictionary has a future that is open or timed out (so
the other outcomes have removed it); `Truth` says what each state of future,
timer and call implies about the answers heard. The delicate case is a timer
that is due: it runs only while the future is open, hence while nothing was
heard, so an answer handled before it was due excludes it for good.

**RateLimits.** Debt and what the bucket would hold if refilled now never exceed
the burst together (`Throughput` says nothing of the tokens left). The challenges
of the last minute are those of the address's list that are not too old, with
the same ages (`ChallengeInv`): what the list drops is of no interest.

**FanOut, Webhook, Transfer.** During its loop a call has reached, of the peers
that stay, those that are no longer in its copy of the registry (`Halfway`). The
age of an undelivered transfer is the time since its first chunk as long as that
is within the timeout, and what was received is what came in time (`OnTime`); a
purge therefore takes nothing that still had a chance. Every entry of the
webhook's dictionary a thread has read, however stale, counts at most the
requests that passed since its window began (`Honest`), so writing it back or
counting on from it can only make the limiter milder. `Due` carries what that
says at the reading of the entry to the refusal.

`ChunksExact` rests on the conjunct of `Agree` by which a list of chunks holds,
once each, the indices received, with the bytes the payload has there. When the
list is complete, `_reassemble` sorts and joins it, and `JoinProofs` shows that
this is the payload. `SortedComplete`: the least place at which the sorted list
has another entry than the one with its index would precede that entry with a
greater index. `JoinFolds`: the join of the community modules' fold satisfies
its recursion, because a function with that recursion exists for every number of
places. `JoinExact`: the first k sorted chunks join to a prefix of the payload as
long as they are together. The three are inductions over numbers. The
library's induction theorems cannot be used with the provers at hand, so each is
carried out on the least number for which the statement fails (`LeastOf`, from
the well-foundedness of < on the naturals).

**Adapters.** OPC-UA: one subscription at a time, and while it replaces the
client no client is connected (`OneClient`); a write's own client is up only
while it writes. MQTT: timestamps follow the readings along the queue of the
client thread and the event loop (`Waiting`, `Stamped`), so the merge keeps the
greatest reading. CAN: only the thread of the current bus runs, and the frames
of a session are in order along bus, event loop and callback (`InOrder`). Modbus:
what was packed precedes the register to be read next (`Past`); a drain has
everything in its hands that the queue still shows and was not written
(`Handed`), so replacing the queue by what failed again loses nothing, as long as
calls do not overlap, which is where finding 6 begins.

### Only model-checked

* Liveness (outside the prover's logic): `EventuallyAgree`, `EventuallySettled`,
  `PromptlyRegistered`, `EventuallyRouted`, `CallsEnd`, `StopsListening`. Every
  safety property and both refinements that a passing run checks are proved.
* The violations of section 4, which are counterexamples.

## 6. Not modelled

* Message contents, the cryptography and canonical JSON (what a signature covers
  is all the modelled properties need), field validation, logging, metrics.
* The relay's health endpoint, TTL arithmetic, and `RelayTPCPNode`'s rewriting
  of handshakes.
* `MessageQueue.drain` (bulk) and `queue_stats`: the first has no caller, the
  second only reads.
* A `set` whose `execute` or `commit` raises (crdt.py:89-93): memory would keep
  the entry and the table not, so `DbMirrorsMemory` is about writes that succeed.
* A peer that is registered again at another address: a drain task keeps the
  endpoint it read when it started (node.py:657), and `PeerDelivery` has one
  address per peer.
* A relay restart; `_connect_to_adns` finding its connection closed with code
  1000/1001 (it reconnects without back-off, otherwise the same).
* The address a handshake registers (`ws://host` without a port).
* CAN's `execute_send`, the adapters' `unpack_request`, ROS2 images: conversions
  that keep no state.
* Framework adapters, CLI, mock node, vector search, deployment: conversions
  around libraries, floating point, or configuration.
* The nodes of the TypeScript, Go, Rust and Java SDKs.

## 7. Plan

Done: `LWWMap` + `ReplicatedMap`; `MessageQueue` + `PeerDelivery`; `Relay`;
`Inbound`; `Transfer`; `RateLimits`; `Webhook`; `FanOut`; the industrial
adapters; and every safety property of theirs proved.

Next:

1. `Inbound` composed with `PeerDelivery`'s duplicates: what is read twice after
   a lost connection is handled once, as long as the copies are no further apart
   than the window of the cache.
2. `NodeTs`, and the Go/Rust/Java nodes: guarded reconnection with at most ten
   retries; what is left in the queue when it gives up.
