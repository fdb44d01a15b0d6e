----------------------------- MODULE MCInbound ------------------------------
(* Two peers, one of them unknown until its handshake; a request, a snapshot, *)
(* a vector, an expired frame, and the two answers to one call.               *)
EXTENDS Inbound

CONSTANTS p, q, m

Envelope(n, f, i, t, s, b, r) ==
    [id |-> n, from |-> f, intent |-> i, ttl |-> t, signed |-> s, body |-> b, ref |-> r]

MCEnv == {
    Envelope(1, q, "Handshake", 30, "payload", "identity", q),
    Envelope(2, q, "Task_Request", 30, "payload", "text", "none"),
    Envelope(3, p, "State_Sync", 30, "payload", "crdt_sync", "none"),
    Envelope(4, p, "State_Sync_Vector", 30, "payload", "vector", "none"),
    Envelope(5, p, "Task_Request", 0, "payload", "text", "none"),
    Envelope(6, p, "ACK", 30, "payload", "text", m),
    Envelope(7, p, "NACK", 30, "payload", "text", m) }
=============================================================================
