-------------------------------- MODULE OpcUa -------------------------------
(***************************************************************************)
(* The OPC-UA adapter (adapters/opcua_adapter.py): the client that         *)
(* start_subscription installs and execute_write shares, and the           *)
(* short-lived client of a write without one.  Every call creates at most  *)
(* one client, which is therefore named by the call.                       *)
(***************************************************************************)
EXTENDS Integers, FiniteSets

CONSTANTS
    Subscribe,  \* calls of start_subscription
    WriteCall,  \* calls of execute_write
    NoClient    \* _client is None

VARIABLES
    shared,     \* _client
    link,       \* each call's client: "none", "connecting", "up" or "closed"
    pc,         \* where each call is
    using,      \* the client a write uses
    notified,   \* subscriptions whose callback has been given a data change
    overlapped  \* ghost: two start_subscription calls have been in progress at once

Calls == Subscribe \cup WriteCall
vars == <<shared, link, pc, using, notified, overlapped>>

Init ==
    /\ shared = NoClient
    /\ link = [k \in Calls |-> "none"]
    /\ pc = [k \in Calls |-> "ready"]
    /\ using = [k \in WriteCall |-> NoClient]
    /\ notified = {} /\ overlapped = FALSE

At(k, p) == pc' = [pc EXCEPT ![k] = p]

-----------------------------------------------------------------------------
(* start_subscription *)

\* A new client takes _client's place, and its connect() is awaited.
Install(s) ==
    /\ shared' = s
    /\ link' = [link EXCEPT ![s] = "connecting"]
    /\ At(s, "connecting")

Overlaps ==
    overlapped' = (overlapped \/ \E s \in Subscribe :
                       pc[s] \in {"replacing", "connecting", "subscribing"})

BeginSubscribe(s) ==
    /\ pc[s] = "ready" /\ shared = NoClient
    /\ Install(s)
    /\ Overlaps
    /\ UNCHANGED <<using, notified>>

\* Mutant: the old client is not disconnected.
BeginReplaceWithoutClose(s) ==
    /\ pc[s] = "ready" /\ shared # NoClient
    /\ At(s, "replacing")
    /\ Overlaps
    /\ UNCHANGED <<shared, link, using, notified>>

\* There is a client already: its disconnect() is awaited, an error ignored.
BeginReplace(s) ==
    /\ pc[s] = "ready" /\ shared # NoClient
    /\ link' = [link EXCEPT ![shared] = "closed"]
    /\ At(s, "replacing")
    /\ Overlaps
    /\ UNCHANGED <<shared, using, notified>>

Replace(s) ==
    /\ pc[s] = "replacing"
    /\ Install(s)
    /\ UNCHANGED <<using, notified, overlapped>>

\* connect() returned; create_subscription is called on whatever client is
\* installed by now, and fails at once if there is none.
SubscribeConnected(s) ==
    /\ pc[s] = "connecting"
    /\ link' = [link EXCEPT ![s] = IF @ = "connecting" THEN "up" ELSE @]
    /\ At(s, IF shared = NoClient THEN "raised" ELSE "subscribing")
    /\ UNCHANGED <<shared, using, notified, overlapped>>

\* connect() raised: _client becomes None, whoever set it.
SubscribeRefused(s) ==
    /\ pc[s] = "connecting"
    /\ link' = [link EXCEPT ![s] = "closed"]
    /\ shared' = NoClient
    /\ At(s, "raised")
    /\ UNCHANGED <<using, notified, overlapped>>

\* create_subscription or subscribe_data_change ends; if it raises, the client
\* stays installed.
Subscribed(s, ok) ==
    /\ pc[s] = "subscribing"
    /\ ok => shared # NoClient /\ link[shared] = "up"
    /\ At(s, IF ok THEN "subscribed" ELSE "raised")
    /\ UNCHANGED <<shared, link, using, notified, overlapped>>

\* datachange_notification: the value is packed and passed to the callback.
DataChange(s) ==
    /\ pc[s] = "subscribed" /\ link[s] = "up" /\ s \notin notified
    /\ notified' = notified \cup {s}
    /\ UNCHANGED <<shared, link, pc, using, overlapped>>

-----------------------------------------------------------------------------
(* execute_write *)

\* Through the shared client, even one that is not connected yet.
BeginWriteShared(w) ==
    /\ pc[w] = "ready" /\ shared # NoClient
    /\ using' = [using EXCEPT ![w] = shared]
    /\ At(w, "writing")
    /\ UNCHANGED <<shared, link, notified, overlapped>>

BeginWriteAlone(w) ==
    /\ pc[w] = "ready" /\ shared = NoClient
    /\ using' = [using EXCEPT ![w] = w]
    /\ link' = [link EXCEPT ![w] = "connecting"]
    /\ At(w, "connecting")
    /\ UNCHANGED <<shared, notified, overlapped>>

WriteConnected(w, ok) ==
    /\ pc[w] = "connecting"
    /\ link' = [link EXCEPT ![w] = IF ok THEN "up" ELSE "closed"]
    /\ At(w, IF ok THEN "writing" ELSE "false")
    /\ UNCHANGED <<shared, using, notified, overlapped>>

\* write_value is over; a client of the call's own is disconnected, finally.
EndWrite(w, ok) ==
    /\ pc[w] = "writing"
    /\ ok => link[using[w]] = "up"
    /\ link' = IF using[w] = w THEN [link EXCEPT ![w] = "closed"] ELSE link
    /\ At(w, IF ok THEN "true" ELSE "false")
    /\ UNCHANGED <<shared, using, notified, overlapped>>

-----------------------------------------------------------------------------
Next ==
    \/ \E s \in Subscribe :
           \/ BeginSubscribe(s) \/ BeginReplace(s) \/ Replace(s)
           \/ SubscribeConnected(s) \/ SubscribeRefused(s) \/ DataChange(s)
           \/ \E ok \in BOOLEAN : Subscribed(s, ok)
    \/ \E w \in WriteCall :
           \/ BeginWriteShared(w) \/ BeginWriteAlone(w)
           \/ \E ok \in BOOLEAN : WriteConnected(w, ok) \/ EndWrite(w, ok)

-----------------------------------------------------------------------------
(* Properties *)

\* "Disconnect any existing client before creating a new one to avoid leaking TCP
\* connections", "ensuring no connection leak": as long as start_subscription
\* calls do not overlap, a connection is up only while it is the adapter's
\* client or a write is using it, whatever fails and however writes interleave.
NoConnectionLeak ==
    ~overlapped => \A k \in Calls : link[k] = "up" =>
                       \/ k = shared
                       \/ k \in WriteCall /\ pc[k] = "writing"
=============================================================================
