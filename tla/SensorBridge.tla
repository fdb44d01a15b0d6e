---------------------------- MODULE SensorBridge ----------------------------
(***************************************************************************)
(* From a sensor to the shared memory of the swarm: the MQTT adapter       *)
(* (adapters/mqtt_adapter.py), whose client thread packs readings and      *)
(* hands them to the event loop, or the ROS2 adapter (adapters/            *)
(* ros2_adapter.py), whose callbacks pack and forward in one step; then    *)
(* the STATE_SYNC broadcasts, which arrive in any order and may be         *)
(* repeated, and the last-writer-wins merge of a receiving agent           *)
(* (memory/crdt.py).  One topic, one robot, one receiver.                  *)
(***************************************************************************)
EXTENDS Integers, Sequences, FiniteSetsExt

CONSTANTS
    Value,       \* Value[n]: the rank of the n-th reading's JSON text
    MaxTime,     \* bound: milliseconds
    MaxLosses    \* bound: losses of the broker connection

VARIABLES
    bridge,      \* which adapter: "mqtt" or "ros2"
    time,        \* time.time_ns() // 1_000_000
    started,     \* start_broker_connection or start_ros2_spin has been called
    broker,      \* the MQTT client: "down", "joining" (connected, on_connect not
                 \* yet run) or "up"
    read,        \* readings the sensor has published
    inbox,       \* readings the client thread has yet to take
    loopq,       \* envelopes handed to the event loop
    mesh,        \* entries broadcast
    entry,       \* the receiver's entry for the key, as a set of at most one
    merged,      \* ghost: readings the receiver has merged
    packed,      \* ghost: milliseconds in which a reading was packed
    tied,        \* ghost: two readings were packed in the same millisecond
    losses       \* bound counter

vars == <<bridge, time, started, broker, read, inbox, loopq, mesh, entry, merged, packed, tied, losses>>

Init ==
    /\ bridge \in {"mqtt", "ros2"}
    /\ time = 1 /\ started = FALSE /\ broker = "down" /\ read = 0
    /\ inbox = <<>> /\ loopq = <<>> /\ mesh = {} /\ entry = {}
    /\ merged = {} /\ packed = {} /\ tied = FALSE /\ losses = 0

-----------------------------------------------------------------------------
(* The adapters *)

\* client.connect and loop_start; create_node and the two subscriptions.
Start ==
    /\ ~started /\ started' = TRUE
    /\ broker' = IF bridge = "mqtt" THEN "joining" ELSE broker
    /\ UNCHANGED <<bridge, time, read, inbox, loopq, mesh, entry, merged, packed, tied, losses>>

\* _on_connect subscribes to every topic, after a reconnect too.
OnConnect ==
    /\ broker = "joining" /\ broker' = "up"
    /\ UNCHANGED <<bridge, time, started, read, inbox, loopq, mesh, entry, merged, packed, tied, losses>>

\* _on_disconnect leaves it to the client to reconnect.
Lose ==
    /\ broker # "down" /\ losses < MaxLosses
    /\ broker' = "down" /\ losses' = losses + 1
    /\ UNCHANGED <<bridge, time, started, read, inbox, loopq, mesh, entry, merged, packed, tied>>

Reconnect ==
    /\ started /\ broker = "down" /\ bridge = "mqtt"
    /\ broker' = "joining"
    /\ UNCHANGED <<bridge, time, started, read, inbox, loopq, mesh, entry, merged, packed, tied, losses>>

\* stop(): the client thread is joined, the client disconnected.
Stop ==
    /\ started /\ started' = FALSE
    /\ broker' = "down" /\ inbox' = <<>>
    /\ UNCHANGED <<bridge, time, read, loopq, mesh, entry, merged, packed, tied, losses>>

\* Mutant: the timestamp does not tell readings apart.
MqttPackFixed(n) == [reading |-> n, timestamp |-> 1]

\* MQTT's pack_thought: a CRDT state stamped with the wall clock in milliseconds.
MqttPack(n) == [reading |-> n, timestamp |-> time]

\* ROS2's telemetry passes the literal 1 as the timestamp.
RosPack(n) == [reading |-> n, timestamp |-> 1]

Notes == packed' = packed \cup {time} /\ tied' = (tied \/ time \in packed)

\* A reading reaches a subscribed MQTT client, or nobody.
Publish ==
    /\ bridge = "mqtt" /\ read < Len(Value) /\ read' = read + 1
    /\ inbox' = IF broker = "up" THEN Append(inbox, read') ELSE inbox
    /\ UNCHANGED <<bridge, time, started, broker, loopq, mesh, entry, merged, packed, tied, losses>>

\* _on_message, in the client's thread, up to call_soon_threadsafe.
OnMessage ==
    /\ inbox # <<>>
    /\ inbox' = Tail(inbox)
    /\ loopq' = Append(loopq, MqttPack(Head(inbox)))
    /\ Notes
    /\ UNCHANGED <<bridge, time, started, broker, read, mesh, entry, merged, losses>>

\* The callback on the event loop broadcasts the envelope.
RunCallback ==
    /\ loopq # <<>>
    /\ mesh' = mesh \cup {Head(loopq)}
    /\ loopq' = Tail(loopq)
    /\ UNCHANGED <<bridge, time, started, broker, read, inbox, entry, merged, packed, tied, losses>>

\* _handle_ros_telemetry packs the reading and calls the callback.
RosTelemetry ==
    /\ bridge = "ros2" /\ started /\ read < Len(Value) /\ read' = read + 1
    /\ mesh' = mesh \cup {RosPack(read')}
    /\ Notes
    /\ UNCHANGED <<bridge, time, started, broker, inbox, loopq, entry, merged, losses>>

-----------------------------------------------------------------------------
(* The receiver and the clock *)

\* LWWMap.merge: the later timestamp; of one writer, on a tie, the greater value.
Beats(e, f) ==
    \/ e.timestamp > f.timestamp
    \/ e.timestamp = f.timestamp /\ Value[e.reading] > Value[f.reading]

Merge(e) ==
    /\ entry' = IF \A f \in entry : Beats(e, f) THEN {e} ELSE entry
    /\ merged' = merged \cup {e.reading}
    /\ UNCHANGED <<bridge, time, started, broker, read, inbox, loopq, mesh, packed, tied, losses>>

Tick ==
    /\ time < MaxTime /\ time' = time + 1
    /\ UNCHANGED <<bridge, started, broker, read, inbox, loopq, mesh, entry, merged, packed, tied, losses>>

Next ==
    \/ Start \/ OnConnect \/ Lose \/ Reconnect \/ Stop
    \/ Publish \/ OnMessage \/ RunCallback \/ RosTelemetry
    \/ \E e \in mesh : Merge(e)
    \/ Tick

-----------------------------------------------------------------------------
(* Properties *)

\* What the swarm believes of an MQTT sensor: unless two readings were packed in the
\* same millisecond, the receiver holds the latest reading that has reached it,
\* through reconnects, restarts, and broadcasts out of order or repeated.
LatestShown == bridge = "mqtt" /\ ~tied => \A f \in entry : f.reading = Max(merged)
=============================================================================
