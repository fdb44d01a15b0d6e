------------------------------- MODULE FanOut -------------------------------
(***************************************************************************)
(* send_broadcast and send_multicast of core/node.py, while the peer       *)
(* registry changes under them.  A broadcast goes to the relay if there is *)
(* one, and to each known peer otherwise or if that fails; a multicast     *)
(* goes to the known peers with a capability.  The dispatch to one peer    *)
(* (module PeerDelivery) never raises: it sends or queues.  The send to    *)
(* the relay returns when the frame is written: whether the relay reads    *)
(* it, and forwards it, nobody here learns.                                *)
(***************************************************************************)
EXTENDS Integers, FiniteSets

CONSTANTS
    Peer,
    Capable,    \* peers whose capabilities contain the tag
    Sends,      \* calls
    MaxChurn    \* bound: peers registered or removed, changes of the relay's connection

VARIABLES
    registry,   \* peer_registry
    relay,      \* _adns_ws is not None
    kind,       \* "broadcast" or "multicast", for each call
    pc,         \* where each call is
    todo,       \* its copy of the registry, less the peers done with
    count,      \* dispatched
    got,        \* how often a message of the call was dispatched to each peer
    relayed,    \* calls whose send to the relay returned
    steady,     \* ghost: peers registered ever since the call, or its loop, began
    churn

vars == <<registry, relay, kind, pc, todo, count, got, relayed, steady, churn>>

Init ==
    /\ registry = Peer /\ relay \in BOOLEAN
    /\ kind \in [Sends -> {"broadcast", "multicast"}]
    /\ pc = [c \in Sends |-> "ready"]
    /\ todo = [c \in Sends |-> {}] /\ steady = [c \in Sends |-> {}]
    /\ count = [c \in Sends |-> 0]
    /\ got = [c \in Sends |-> [p \in Peer |-> 0]]
    /\ relayed = {} /\ churn = 0

\* list(self.peer_registry.keys()), or the items that have the tag.
Audience(c) == IF kind[c] = "multicast" THEN registry \cap Capable ELSE registry

\* The loop over a copy of the registry begins.
Loop(c) ==
    /\ todo' = [todo EXCEPT ![c] = Audience(c)]
    /\ steady' = [steady EXCEPT ![c] = registry]
    /\ pc' = [pc EXCEPT ![c] = "looping"]

Begin(c) ==
    /\ pc[c] = "ready"
    /\ kind[c] = "multicast" \/ ~relay
    /\ Loop(c)
    /\ UNCHANGED <<registry, relay, kind, count, got, relayed, churn>>

\* One envelope for all is written; the send then waits until it has left.
BeginRelayed(c) ==
    /\ pc[c] = "ready" /\ kind[c] = "broadcast" /\ relay
    /\ steady' = [steady EXCEPT ![c] = registry]
    /\ pc' = [pc EXCEPT ![c] = "relaying"]
    /\ UNCHANGED <<registry, relay, kind, todo, count, got, relayed, churn>>

\* The send returns: the frame is written.  The relay may yet drop it, if the agent
\* is not registered (_adns_ws is set before), or never see it.
Relayed(c) ==
    /\ pc[c] = "relaying"
    /\ relayed' = relayed \cup {c}
    /\ count' = [count EXCEPT ![c] = 1]
    /\ pc' = [pc EXCEPT ![c] = "done"]
    /\ UNCHANGED <<registry, relay, kind, todo, got, steady, churn>>

\* The send raises, perhaps after the frame has left, in which case the relay
\* may fan it out as well.
RelayFailed(c) ==
    /\ pc[c] = "relaying"
    /\ Loop(c)
    /\ UNCHANGED <<registry, relay, kind, count, got, relayed, churn>>

\* Mutant: a peer that has left the registry ends the loop.
DispatchUntilGone(c, p) ==
    /\ pc[c] = "looping" /\ p \in todo[c]
    /\ todo' = [todo EXCEPT ![c] = IF p \in registry THEN @ \ {p} ELSE {}]
    /\ got' = [got EXCEPT ![c][p] = @ + 1]
    /\ count' = [count EXCEPT ![c] = @ + 1]
    /\ UNCHANGED <<registry, relay, kind, pc, relayed, steady, churn>>

\* A peer removed since the copy was taken gets its message queued.
Dispatch(c, p) ==
    /\ pc[c] = "looping" /\ p \in todo[c]
    /\ todo' = [todo EXCEPT ![c] = @ \ {p}]
    /\ got' = [got EXCEPT ![c][p] = @ + 1]
    /\ count' = [count EXCEPT ![c] = @ + 1]
    /\ UNCHANGED <<registry, relay, kind, pc, relayed, steady, churn>>

Return(c) ==
    /\ pc[c] = "looping" /\ todo[c] = {}
    /\ pc' = [pc EXCEPT ![c] = "done"]
    /\ UNCHANGED <<registry, relay, kind, todo, count, got, relayed, steady, churn>>

Churns == churn < MaxChurn /\ churn' = churn + 1

Register(p) ==
    /\ Churns /\ p \notin registry
    /\ registry' = registry \cup {p}
    /\ UNCHANGED <<relay, kind, pc, todo, count, got, relayed, steady>>

Remove(p) ==
    /\ Churns /\ p \in registry
    /\ registry' = registry \ {p}
    /\ steady' = [c \in Sends |->
                     IF pc[c] \in {"relaying", "looping"} THEN steady[c] \ {p} ELSE steady[c]]
    /\ UNCHANGED <<relay, kind, pc, todo, count, got, relayed>>

\* The connection to the relay is made or lost.
RelayChanges ==
    /\ Churns
    /\ relay' = ~relay
    /\ UNCHANGED <<registry, kind, pc, todo, count, got, relayed, steady>>

Next ==
    \/ \E c \in Sends : \/ Begin(c) \/ BeginRelayed(c) \/ Relayed(c) \/ RelayFailed(c) \/ Return(c)
                        \/ \E p \in Peer : Dispatch(c, p)
    \/ \E p \in Peer : Register(p) \/ Remove(p)
    \/ RelayChanges

-----------------------------------------------------------------------------
(* Properties *)

\* "Number of messages dispatched (1 when relay is used, N peers in P2P mode)",
\* "all peers whose capabilities list contains the given tag": a call that returns
\* either returns 1, its envelope written to the relay's connection, and has
\* dispatched to no peer itself; or it returns to how many peers it dispatched,
\* each intended peer that stayed registered exactly once and none without the
\* capability.  Peers that come and go meanwhile make it skip nobody else.
\* What the relay does with the frame is not claimed: it may drop it, or fan it
\* out although the send raised.
FanOutExact ==
    \A c \in Sends : pc[c] = "done" =>
        \/ c \in relayed /\ count[c] = 1 /\ \A p \in Peer : got[c][p] = 0
        \/ /\ c \notin relayed /\ count[c] = Cardinality({p \in Peer : got[c][p] = 1})
           /\ \A p \in Peer : got[c][p] <= 1
           /\ \A p \in steady[c] : got[c][p] = 1 <=> (kind[c] = "broadcast" \/ p \in Capable)
=============================================================================
