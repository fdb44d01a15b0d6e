----------------------------- MODULE MCServices -----------------------------
(***************************************************************************)
(* The components that work each on its own: what surrounds the message    *)
(* core of a node.  A behaviour is one of the component `which`; the       *)
(* others stay as they are initially.                                      *)
(***************************************************************************)
EXTENDS RateLimits, Sequences

CONSTANTS
    Transfers, Size, ChunkSize, Timeout, MaxChunkArrivals,   \* Transfer
    Threads, Limit, HookMinute, HookMaxTime, MaxRequests,    \* Webhook
    Peer, Capable, Sends, MaxChurn,                          \* FanOut
    Command, Drainer, MaxQueue, Registers, MaxPolls, MaxLinks, \* Modbus
    MaxSessions, MaxFrames, JoinSuffices,                    \* CanBus
    Subscribe, WriteCall, NoClient,                          \* OpcUa
    Listener, MaxEvents, MaxFaults,                          \* HomeAssistant (with MaxSessions)
    Value, MaxTime, MaxLosses                                \* SensorBridge

\* Every call creates its own client.
ASSUME CallsAssumption == Subscribe \cap WriteCall = {} /\ NoClient \notin Subscribe \cup WriteCall

ASSUME BusAssumption == MaxSessions \in Nat /\ JoinSuffices \in BOOLEAN

\* send_chunked raises ValueError on an empty payload and on chunks below 1024 bytes.
ASSUME TransferAssumption ==
    /\ ChunkSize \in Nat \ {0} /\ Timeout \in Nat
    /\ \A t \in Transfers : Size[t] \in Nat \ {0}

ASSUME PeersAssumption == IsFiniteSet(Peer)

ASSUME HookAssumption == Limit \in Nat /\ HookMinute \in Nat

ASSUME PollAssumption == Registers \in Nat \ {0} /\ MaxPolls \in Nat \ {0} /\ MaxQueue \in Nat

ASSUME ReadingAssumption == Value \in Seq(Nat)

\* One transfer that fills its chunks, the others with a shorter last chunk.
MCSize == [t \in Transfers |-> IF t = CHOOSE u \in Transfers : TRUE THEN 2 * ChunkSize ELSE 2 * ChunkSize + 1]

\* The ranks of three readings: neither the order of time nor its reverse.
MCValue == <<2, 1, 3>>

VARIABLES
    which,
    chunks, received, total, stamp, results, elapsed, inTime, ingests,  \* Transfer
    now, hookEntry, request, passed, wronged, requests,  \* Webhook
    registry, relay, kind, fanPc, todo, count, got, relayed, steady, churn,  \* FanOut
    client, queue, task, poll, written, dropped, failed, overlapped, links,  \* Modbus
    running, bus, sessions, open, thread, stopping, frames, rx, ready, given,  \* CanBus
    shared, link, pc, using, notified, opcOverlapped,  \* OpcUa
    session, closed, current, listener, uses, closing, restarted, clock, handed, faults,  \* HomeAssistant
    bridge, time, started, broker, read, inbox, loopq, mesh, meshEntry, merged, packed, tied, losses    \* SensorBridge

T == INSTANCE Transfer
W == INSTANCE Webhook WITH entry <- hookEntry, Minute <- HookMinute, MaxTime <- HookMaxTime
F == INSTANCE FanOut WITH pc <- fanPc
M == INSTANCE Modbus
C == INSTANCE CanBus
O == INSTANCE OpcUa WITH overlapped <- opcOverlapped
H == INSTANCE HomeAssistant WITH task <- listener, stopping <- closing, given <- handed
S == INSTANCE SensorBridge WITH entry <- meshEntry

transferVars == <<chunks, received, total, stamp, results, elapsed, inTime, ingests>>
webhookVars == <<now, hookEntry, request, passed, wronged, requests>>
fanoutVars == <<registry, relay, kind, fanPc, todo, count, got, relayed, steady, churn>>
modbusVars == <<client, queue, task, poll, written, dropped, failed, overlapped, links>>
canVars == <<running, bus, sessions, open, thread, stopping, frames, rx, ready, given>>
opcuaVars == <<shared, link, pc, using, notified, opcOverlapped>>
homeVars == <<session, closed, current, listener, uses, closing, restarted, clock, handed, faults>>
sensorVars == <<bridge, time, started, broker, read, inbox, loopq, mesh, meshEntry, merged, packed, tied, losses>>
allVars == <<which, vars, transferVars, webhookVars, fanoutVars, modbusVars, canVars, opcuaVars, homeVars, sensorVars>>

\* Only the chosen component may begin in one of several states.
ServicesInit ==
    /\ which \in {"transfer", "limits", "webhook", "fanout", "modbus", "can", "opcua", "home", "sensor"}
    /\ Init /\ T!Init /\ W!Init /\ F!Init /\ M!Init /\ C!Init /\ O!Init /\ H!Init /\ S!Init
    /\ which # "sensor" => bridge = "mqtt"
    /\ which # "fanout" => ~relay /\ kind = [c \in Sends |-> "broadcast"]

\* A component that has not been chosen does not change.
OthersStill ==
    /\ UNCHANGED which
    /\ IF which = "transfer" THEN TRUE ELSE UNCHANGED transferVars
    /\ IF which = "limits" THEN TRUE ELSE UNCHANGED vars
    /\ IF which = "webhook" THEN TRUE ELSE UNCHANGED webhookVars
    /\ IF which = "fanout" THEN TRUE ELSE UNCHANGED fanoutVars
    /\ IF which = "modbus" THEN TRUE ELSE UNCHANGED modbusVars
    /\ IF which = "can" THEN TRUE ELSE UNCHANGED canVars
    /\ IF which = "opcua" THEN TRUE ELSE UNCHANGED opcuaVars
    /\ IF which = "home" THEN TRUE ELSE UNCHANGED homeVars
    /\ IF which = "sensor" THEN TRUE ELSE UNCHANGED sensorVars

ServicesNext ==
    \/ which = "transfer" /\ T!Next /\ OthersStill
    \/ which = "limits" /\ Next /\ OthersStill
    \/ which = "webhook" /\ W!Next /\ OthersStill
    \/ which = "fanout" /\ F!Next /\ OthersStill
    \/ which = "modbus" /\ M!Next /\ OthersStill
    \/ which = "can" /\ C!Next /\ OthersStill
    \/ which = "opcua" /\ O!Next /\ OthersStill
    \/ which = "home" /\ H!Next /\ OthersStill
    \/ which = "sensor" /\ S!Next /\ OthersStill

ServicesSpec == ServicesInit /\ [][ServicesNext]_allVars /\ H!Fairness

-----------------------------------------------------------------------------
(* Properties *)

\* ChunkReassembler.ingest returns the payload that was split, whatever the
\* order, the repetitions and the purges.
ChunksExact == T!Exact

\* A transfer whose chunks all came within the timeout of the first has been
\* handed over by ChunkReassembler.ingest.
InTimeIsDelivered == T!InTimeIsDelivered

\* The four dictionaries of the ChunkReassembler always have the same keys.
BooksAgree == T!BooksAgree

\* _check_rate_limit of the webhook refuses a request only if Limit others had
\* passed, when it read the entry, since a minute before it read the clock.
RefusedOnlyWhenDue == W!RefusedOnlyWhenDue

\* send_broadcast and send_multicast write one envelope to the relay's connection,
\* or dispatch to each intended peer that stays registered exactly once, and
\* return how many.
FanOutExact == F!FanOutExact

\* The Modbus retry queue keeps every failed command, as long as calls of
\* execute_write and drain_retry_queue do not overlap.
RetriesKept == M!RetriesKept

\* poll_registers outlives every failure of the link, and packs in order.
PollsOn == M!PollsOn

\* After stop_listening of the CAN adapter no thread is left to be revived by
\* the next start_listening, and a session gets its frames in order.
OneReader == C!OneReader

\* start_subscription and execute_write of the OPC-UA adapter leave no
\* connection up that nobody can close.
NoConnectionLeak == O!NoConnectionLeak

\* A listener of the Home Assistant adapter ends once its session is closed,
\* unless another was started while it lived.
StopsListening == H!StopsListening

\* The swarm holds the latest MQTT reading that has reached it.
LatestShown == S!LatestShown
=============================================================================
