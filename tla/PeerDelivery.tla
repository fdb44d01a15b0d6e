---------------------------- MODULE PeerDelivery ----------------------------
(***************************************************************************)
(* How one agent gets messages to one peer (core/node.py): send_message    *)
(* and _dispatch_envelope, the connection pool of _get_peer_connection,    *)
(* the dead-letter queue, and the _reconnect_and_drain tasks.  All of it   *)
(* is asyncio: the steps of this module are the runs of code between two   *)
(* awaits.  The network may cut a connection at any time; the agent learns *)
(* of it later.                                                            *)
(*                                                                         *)
(* Messages are numbered in the order in which their send calls start.     *)
(* Each failed send starts a drain task, so drain tasks are named by       *)
(* messages too.                                                           *)
(***************************************************************************)
EXTENDS MessageQueue, FiniteSets

CONSTANTS
    MaxMsg,     \* bound: calls of send_message for the peer
    Conn,       \* bound: WebSocket connections alive at the same time
    NoConn,     \* no cached connection
    MaxBreaks,  \* bound: connection cuts
    MaxOutages, \* bound: times the peer becomes unreachable
    MaxChurn    \* bound: register, remove, start and stop calls

ASSUME NoConnAssumption == NoConn \notin Conn
ASSUME BoundAssumption == MaxMsg \in Nat /\ MaxBreaks \in Nat /\ MaxOutages \in Nat /\ MaxChurn \in Nat

Msg == 1..MaxMsg

VARIABLES
    registered, \* peer_registry has the peer
    running,    \* _running
    stopping,   \* stop_listening is awaiting the close of the cached connection
    queue,      \* the peer's dead-letter queue
    cached,     \* _peer_connections[peer]
    conn,       \* state of each connection: "free", "open", "closing" (a close()
                \* is scheduled), "broken" (cut, not yet noticed), "closed"
    wire,       \* messages written to a connection, not yet read by the peer
    send,       \* where each send_message call is
    drain,      \* where each drain task is
    peerUp,     \* a connect() to the peer succeeds
    delivered,  \* messages the peer has read
    twice,      \* ghost: messages it has read more than once
    evicted,    \* ghost: messages the queue gave up
    cut,        \* ghost: messages on a connection the network cut
    breaks, outages, churn  \* bound counters

tasks == <<send, drain>>
pool == <<cached, conn, wire>>
dlq == <<queue, evicted>>
node == <<registered, running, stopping, churn>>
arrived == <<delivered, twice>>
net == <<peerUp, arrived, cut, breaks, outages>>
vars == <<registered, running, stopping, queue, cached, conn, wire, send, drain,
          peerUp, delivered, twice, evicted, cut, breaks, outages, churn>>

\* A task is at a program point, on a connection, with a message in hand.
At(p) == [pc |-> p, on |-> NoConn, has |-> {}]
On(p, c, m) == [pc |-> p, on |-> c, has |-> {m}]

\* The name of a connection that is empty and that nothing refers to any more,
\* closed or just abandoned, stands for the next one.
Fresh(c) ==
    /\ wire[c] = <<>> /\ cached # c
    /\ \A m \in Msg : send[m].on # c /\ drain[m].on # c

Init ==
    /\ registered = TRUE /\ running = TRUE /\ stopping = FALSE
    /\ queue = <<>>
    /\ cached = NoConn
    /\ conn = [c \in Conn |-> "free"]
    /\ wire = [c \in Conn |-> <<>>]
    /\ send = [m \in Msg |-> At("idle")]
    /\ drain = [m \in Msg |-> At("off")]
    /\ peerUp = TRUE
    /\ delivered = {} /\ twice = {}
    /\ evicted = {} /\ cut = {}
    /\ breaks = 0 /\ outages = 0 /\ churn = 0

-----------------------------------------------------------------------------
(* send_message / _dispatch_envelope *)

\* The message goes to the back of the queue.
ToQueue(m) ==
    /\ queue' = Enqueue(queue, m)
    /\ evicted' = evicted \cup EnqueueEvicts(queue)

\* The next call of send_message reaches _dispatch_envelope.
Calls(m) == send[m].pc = "idle" /\ \A k \in 1..(m - 1) : send[k].pc # "idle"

\* Peer unknown: queue the message and return; no drain task is started.
DispatchUnregistered(m) ==
    /\ Calls(m) /\ ~registered
    /\ ToQueue(m)
    /\ send' = [send EXCEPT ![m] = At("done")]
    /\ UNCHANGED <<drain, pool, node, net>>

\* ws.send(): the frame is written at once, on a cut connection to nowhere;
\* then the call awaits the flush.
Write(c, m) ==
    IF conn[c] = "broken"
    THEN cut' = cut \cup {m} /\ UNCHANGED wire
    ELSE wire' = [wire EXCEPT ![c] = Append(@, m)] /\ UNCHANGED cut

\* Peer known: write to the cached connection if it is open, else forget it
\* and await a new one.
DispatchCached(m) ==
    /\ Calls(m) /\ registered
    /\ cached # NoConn /\ conn[cached] \in {"open", "broken"}
    /\ Write(cached, m)
    /\ send' = [send EXCEPT ![m] = On("flushing", cached, m)]
    /\ UNCHANGED <<drain, dlq, cached, conn, node, peerUp, arrived, breaks, outages>>

DispatchConnect(m) ==
    /\ Calls(m) /\ registered
    /\ cached # NoConn => conn[cached] = "closed"
    /\ cached' = NoConn
    /\ send' = [send EXCEPT ![m] = On("connecting", NoConn, m)]
    /\ UNCHANGED <<drain, dlq, conn, wire, node, net>>

\* connect() returned: the new connection replaces whatever is cached, and
\* the caller writes the frames of q to it.
Opens(c, q) ==
    /\ peerUp /\ Fresh(c)
    /\ conn' = [conn EXCEPT ![c] = "open"]
    /\ cached' = c
    /\ wire' = [wire EXCEPT ![c] = q]

SendConnected(m, c) ==
    /\ send[m].pc = "connecting"
    /\ Opens(c, <<m>>)
    /\ send' = [send EXCEPT ![m] = On("flushing", c, m)]
    /\ UNCHANGED <<drain, dlq, node, net>>

\* Mutant: the message is queued, but no drain task is started.
FallbackWithoutDrain(m) ==
    /\ ToQueue(m)
    /\ send' = [send EXCEPT ![m] = At("done")]
    /\ UNCHANGED drain

\* Falling through to the queue: enqueue and start a drain task, in one step.
Fallback(m) ==
    /\ ToQueue(m)
    /\ send' = [send EXCEPT ![m] = At("done")]
    /\ drain' = [drain EXCEPT ![m] = At("starting")]

SendRefused(m) ==
    /\ send[m].pc = "connecting" /\ ~peerUp
    /\ Fallback(m)
    /\ UNCHANGED <<pool, node, net>>

\* Mutant: no return after a successful ws.send().
SendFlushedFallsThrough(m) ==
    /\ send[m].pc = "flushing"
    /\ Fallback(m)
    /\ UNCHANGED <<pool, node, net>>

\* ws.send() returned; the connection may have closed since.
SendFlushed(m) ==
    /\ send[m].pc = "flushing"
    /\ send' = [send EXCEPT ![m] = At("done")]
    /\ UNCHANGED <<drain, dlq, pool, node, net>>

\* ws.send() raised: the entry cached by now, whichever it is, is dropped.
SendFailed(m) ==
    /\ send[m].pc = "flushing" /\ conn[send[m].on] = "closed"
    /\ cached' = NoConn
    /\ Fallback(m)
    /\ UNCHANGED <<conn, wire, node, net>>

-----------------------------------------------------------------------------
(* _reconnect_and_drain *)

\* The outer loop test: go on only while running and something is queued.
NextRound(d) ==
    drain' = [drain EXCEPT ![d] = IF running /\ HasMessages(queue)
                                  THEN At("connecting") ELSE At("off")]

DrainStart(d) ==
    /\ drain[d].pc = "starting"
    /\ IF registered THEN NextRound(d) ELSE drain' = [drain EXCEPT ![d] = At("off")]
    /\ UNCHANGED <<send, dlq, pool, node, net>>

\* Mutant: the head of the queue is peeked at, not taken.
TakesPeeking(d, c, p) ==
    /\ drain' = [drain EXCEPT ![d] = IF HasMessages(queue)
                                     THEN On(p, c, Head(queue)) ELSE At("off")]
    /\ UNCHANGED queue

\* One round of the inner loop on connection c, up to point p in ws.send():
\* dequeue_one, so that the message is in this task's hand only; or the queue
\* is empty and the task ends.
Takes(d, c, p) ==
    IF HasMessages(queue)
    THEN /\ drain' = [drain EXCEPT ![d] = On(p, c, Head(queue))]
         /\ queue' = DequeueOne(queue)
    ELSE drain' = [drain EXCEPT ![d] = At("off")] /\ UNCHANGED queue

DrainConnected(d, c) ==
    /\ drain[d].pc = "connecting"
    /\ Takes(d, c, "flushing")
    /\ Opens(c, IF HasMessages(queue) THEN <<Head(queue)>> ELSE <<>>)
    /\ UNCHANGED <<send, evicted, node, net>>

\* Mutant: the task ends at the first refused connection.
DrainRefusedGivesUp(d) ==
    /\ drain[d].pc = "connecting" /\ ~peerUp
    /\ drain' = [drain EXCEPT ![d] = At("off")]
    /\ UNCHANGED <<send, dlq, pool, node, net>>

DrainRefused(d) ==
    /\ drain[d].pc = "connecting" /\ ~peerUp
    /\ drain' = [drain EXCEPT ![d] = At("sleeping")]
    /\ UNCHANGED <<send, dlq, pool, node, net>>

\* ws.send() returned: the next message is written, or refused by a
\* connection that has closed since.
DrainFlushed(d) ==
    /\ drain[d].pc = "flushing"
    /\ LET c == drain[d].on IN
           /\ Takes(d, c, IF conn[c] = "closed" THEN "refused" ELSE "flushing")
           /\ IF HasMessages(queue) /\ conn[c] # "closed"
              THEN Write(c, Head(queue)) ELSE UNCHANGED <<wire, cut>>
    /\ UNCHANGED <<send, evicted, cached, conn, node, peerUp, arrived, breaks, outages>>

\* ws.send() raises.
DrainSendRaises(d) ==
    \/ drain[d].pc = "refused"
    \/ drain[d].pc = "flushing" /\ conn[drain[d].on] = "closed"

\* Mutant: the message in hand is forgotten when its send fails.
DrainFailedForgets(d) ==
    /\ DrainSendRaises(d)
    /\ drain' = [drain EXCEPT ![d] = At("sleeping")]
    /\ UNCHANGED <<send, dlq, pool, node, net>>

\* Mutant: the message in hand is given up when its send fails.
DrainFailedGivesUp(d) ==
    /\ DrainSendRaises(d)
    /\ evicted' = evicted \cup drain[d].has
    /\ drain' = [drain EXCEPT ![d] = At("sleeping")]
    /\ UNCHANGED <<send, queue, pool, node, net>>

\* ... the message goes back with enqueue_front, and the task backs off.
DrainFailed(d) ==
    /\ DrainSendRaises(d)
    /\ \E m \in drain[d].has : queue' = EnqueueFront(queue, m)
    /\ evicted' = evicted \cup EnqueueFrontEvicts(queue)
    /\ drain' = [drain EXCEPT ![d] = At("sleeping")]
    /\ UNCHANGED <<send, pool, node, net>>

DrainWake(d) ==
    /\ drain[d].pc = "sleeping"
    /\ NextRound(d)
    /\ UNCHANGED <<send, dlq, pool, node, net>>

-----------------------------------------------------------------------------
(* register_peer, remove_peer, start_listening, stop_listening *)

Churns == churn < MaxChurn /\ churn' = churn + 1

RegisterPeer ==
    /\ Churns /\ ~registered
    /\ registered' = TRUE
    /\ UNCHANGED <<running, stopping, dlq, pool, tasks, net>>

\* The cached connection, if any (a drain task may have opened one since the
\* peer was removed), is forgotten now and closed by a task of its own.
RemovePeer ==
    /\ Churns /\ (registered \/ cached # NoConn)
    /\ registered' = FALSE
    /\ cached' = NoConn
    /\ conn' = IF cached # NoConn /\ conn[cached] = "open"
               THEN [conn EXCEPT ![cached] = "closing"] ELSE conn
    /\ UNCHANGED <<running, stopping, dlq, wire, tasks, net>>

StopBegin ==
    /\ Churns /\ running
    /\ running' = FALSE /\ stopping' = TRUE
    /\ conn' = IF cached # NoConn /\ conn[cached] \in {"open", "broken"}
               THEN [conn EXCEPT ![cached] = "closed"] ELSE conn
    /\ UNCHANGED <<registered, dlq, cached, wire, tasks, net>>

\* _peer_connections.clear() after the await: also forgets a connection opened
\* meanwhile.
StopEnd ==
    /\ stopping
    /\ stopping' = FALSE /\ cached' = NoConn
    /\ UNCHANGED <<registered, running, churn, dlq, conn, wire, tasks, net>>

Start ==
    /\ Churns /\ ~running /\ ~stopping
    /\ running' = TRUE
    /\ UNCHANGED <<registered, stopping, dlq, pool, tasks, net>>

-----------------------------------------------------------------------------
(* The network and the peer *)

\* The peer reads a frame; a closed connection still delivers what it carried.
Receive(c) ==
    /\ conn[c] # "broken" /\ wire[c] # <<>>
    /\ LET m == Head(wire[c]) IN
           /\ delivered' = delivered \cup {m}
           /\ twice' = IF m \in delivered THEN twice \cup {m} ELSE twice
    /\ wire' = [wire EXCEPT ![c] = Tail(@)]
    /\ UNCHANGED <<cached, conn, dlq, tasks, node, peerUp, cut, breaks, outages>>

\* The network cuts a connection: what is on it is gone.
Break(c) ==
    /\ conn[c] \in {"open", "closing"} /\ breaks < MaxBreaks
    /\ conn' = [conn EXCEPT ![c] = "broken"]
    /\ cut' = cut \cup Elems(wire[c])
    /\ wire' = [wire EXCEPT ![c] = <<>>]
    /\ breaks' = breaks + 1
    /\ UNCHANGED <<cached, dlq, tasks, node, peerUp, arrived, outages>>

\* The agent's side of a cut or closing connection becomes CLOSED.
Notice(c) ==
    /\ conn[c] \in {"broken", "closing"}
    /\ conn' = [conn EXCEPT ![c] = "closed"]
    /\ UNCHANGED <<cached, wire, dlq, tasks, node, net>>

PeerDown ==
    /\ peerUp /\ outages < MaxOutages
    /\ peerUp' = FALSE /\ outages' = outages + 1
    /\ UNCHANGED <<arrived, cut, breaks, dlq, pool, tasks, node>>

PeerBack ==
    /\ ~peerUp
    /\ peerUp' = TRUE
    /\ UNCHANGED <<arrived, cut, breaks, outages, dlq, pool, tasks, node>>

-----------------------------------------------------------------------------
SendStep(m) ==
    \/ SendRefused(m) \/ SendFlushed(m) \/ SendFailed(m)
    \/ \E c \in Conn : SendConnected(m, c)

DrainStep(d) ==
    \/ DrainStart(d) \/ DrainRefused(d) \/ DrainFlushed(d) \/ DrainFailed(d) \/ DrainWake(d)
    \/ \E c \in Conn : DrainConnected(d, c)

Next ==
    \/ \E m \in Msg : \/ DispatchUnregistered(m) \/ DispatchCached(m) \/ DispatchConnect(m)
                      \/ SendStep(m) \/ DrainStep(m)
    \/ RegisterPeer \/ RemovePeer \/ StopBegin \/ StopEnd \/ Start
    \/ \E c \in Conn : Receive(c) \/ Break(c) \/ Notice(c)
    \/ PeerDown \/ PeerBack

Spec == Init /\ [][Next]_vars

\* The event loop runs every ready task; TCP delivers or fails in the end; the
\* peer comes back.
Fairness ==
    /\ \A m \in Msg : WF_vars(SendStep(m)) /\ WF_vars(DrainStep(m))
    /\ WF_vars(StopEnd)
    /\ \A c \in Conn : WF_vars(Receive(c)) /\ WF_vars(Notice(c))
    /\ WF_vars(PeerBack)

FairSpec == Spec /\ Fairness
-----------------------------------------------------------------------------
(* Properties *)

Task(points) ==
    [pc : points, on : Conn \cup {NoConn}, has : {{}} \cup {{m} : m \in Msg}]

\* Shapes of the state of node.py and queue.py; the queue never exceeds
\* max_size_per_peer.
TypeOK ==
    /\ registered \in BOOLEAN /\ running \in BOOLEAN /\ stopping \in BOOLEAN
    /\ queue \in Seq(Msg) /\ Len(queue) <= MaxSize
    /\ cached \in Conn \cup {NoConn}
    /\ conn \in [Conn -> {"free", "open", "closing", "broken", "closed"}]
    /\ wire \in [Conn -> Seq(Msg)]
    /\ send \in [Msg -> Task({"idle", "connecting", "flushing", "done"})]
    /\ drain \in [Msg -> Task({"off", "starting", "connecting", "flushing", "refused", "sleeping"})]
    /\ peerUp \in BOOLEAN
    /\ delivered \subseteq Msg /\ twice \subseteq delivered
    /\ evicted \in SUBSET Msg /\ cut \in SUBSET Msg
    /\ breaks \in 0..MaxBreaks /\ outages \in 0..MaxOutages /\ churn \in 0..MaxChurn

Sent == {m \in Msg : send[m].pc # "idle"}
InHand == UNION {send[m].has \cup drain[m].has : m \in Msg}
OnWire == UNION {Elems(wire[c]) : c \in Conn}

\* Nothing disappears inside the agent: a message given to send_message is
\* with a task, queued, on a connection, with the peer, or was given up by the
\* full queue or on a connection the network cut.
NothingVanishes ==
    Sent \subseteq InHand \cup Elems(queue) \cup OnWire \cup delivered \cup evicted \cup cut

\* A message has one owner at a time: sends, several drain tasks of the same
\* peer and the queue never hold it twice, so the queue cannot multiply it.
OneOwner ==
    /\ \A i, j \in DOMAIN queue : queue[i] = queue[j] => i = j
    /\ Elems(queue) \cap InHand = {}
    /\ \A m, d \in Msg : /\ send[m].has \cap drain[d].has = {}
                         /\ m # d => /\ drain[m].has \cap drain[d].has = {}
                                     /\ send[m].has \cap send[d].has = {}

\* The peer reads a message twice only if a connection was lost under it after
\* it had been written (the receiver's duplicate check is for exactly these).
DuplicateOnlyAfterLoss == twice # {} => breaks + churn > 0

\* The pool, the queue and the drain tasks of node.py implement the abstract
\* AtLeastOnce: a message stays with the agent or on a connection until the peer
\* has read it or it is lost, one that is gone never comes back, and the queue
\* gives one up only when at that moment more are held than it has room for.
Held == InHand \cup Elems(queue) \cup OnWire
ALO == INSTANCE AtLeastOnce WITH
    accepted <- Sent, held <- Held, arrived <- delivered, givenUp <- evicted, Room <- MaxSize
ImplementsAtLeastOnce == ALO!Spec

\* With the peer registered and the agent running throughout, queued messages
\* always have a drain task that will look at them again.
NeverStranded ==
    churn = 0 /\ HasMessages(queue) => \E d \in Msg : drain[d].pc # "off"

\* ... and therefore, once the peer stays reachable, everything sent is
\* delivered except what was evicted or was on a cut connection.
Settled == \A m \in Sent : m \in delivered \cup evicted \cup cut
EventuallySettled == [](churn = 0) => []<>Settled

\* README: "messages queue up and drain automatically when it's back. No
\* messages are ever lost": however the peer and the agent come and go, a
\* message is delivered in the end if both stay, the queue did not overflow
\* and no connection was cut.
AllDelivered ==
    <>[](registered /\ running) => []<>(Sent \subseteq delivered \cup evicted \cup cut)
=============================================================================
