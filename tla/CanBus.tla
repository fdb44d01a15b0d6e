------------------------------- MODULE CanBus -------------------------------
(***************************************************************************)
(* The CAN adapter (adapters/canbus_adapter.py): start_listening opens a   *)
(* bus and starts a thread that hands frames to the event loop;            *)
(* stop_listening, which blocks the loop, asks the thread to end, shuts    *)
(* the bus and joins the thread.  A session is one start_listening with    *)
(* its bus and its thread.                                                 *)
(***************************************************************************)
EXTENDS Integers, Sequences

CONSTANTS
    MaxSessions,  \* bound: calls of start_listening
    MaxFrames,    \* bound: frames on the bus
    JoinSuffices  \* recv returns within the 2 s of the join, as its own
                  \* timeout of 1 s promises

Session == 1..MaxSessions

VARIABLES
    running,   \* _running
    bus,       \* the session whose bus _bus is, 0 for None
    sessions,  \* sessions so far
    open,      \* buses not shut down
    thread,    \* each session's thread: "none", "testing" (the loop condition),
               \* "receiving" or "dead"
    stopping,  \* stop_listening is in the join: the loop is blocked
    frames,    \* frames sent on the bus so far
    rx,        \* frames each open bus has received, not yet read
    ready,     \* <<session, frame>> handed to the loop, not yet dispatched
    given      \* <<session, frame, clock>> the callbacks have been called with

vars == <<running, bus, sessions, open, thread, stopping, frames, rx, ready, given>>

Init ==
    /\ running = FALSE /\ bus = 0 /\ sessions = 0 /\ open = {} /\ stopping = FALSE
    /\ thread = [s \in Session |-> "none"]
    /\ frames = 0 /\ rx = [s \in Session |-> <<>>]
    /\ ready = <<>> /\ given = <<>>

\* A call while listening only logs a warning.
StartListening ==
    /\ ~stopping /\ bus = 0 /\ ~running /\ sessions < MaxSessions
    /\ sessions' = sessions + 1
    /\ bus' = sessions' /\ open' = open \cup {sessions'} /\ running' = TRUE
    /\ thread' = [thread EXCEPT ![sessions'] = "testing"]
    /\ UNCHANGED <<stopping, frames, rx, ready, given>>

\* while self._running: the flag is the adapter's, not the session's.
ThreadTests(s) ==
    /\ thread[s] = "testing"
    /\ thread' = [thread EXCEPT ![s] = IF running THEN "receiving" ELSE "dead"]
    /\ UNCHANGED <<running, bus, sessions, open, stopping, frames, rx, ready, given>>

\* recv returns a frame, which is handed over with call_soon_threadsafe.
ThreadReads(s) ==
    /\ thread[s] = "receiving" /\ rx[s] # <<>> /\ s \in open
    /\ rx' = [rx EXCEPT ![s] = Tail(@)]
    /\ ready' = Append(ready, <<s, Head(rx[s])>>)
    /\ thread' = [thread EXCEPT ![s] = "testing"]
    /\ UNCHANGED <<running, bus, sessions, open, stopping, frames, given>>

\* recv times out, reads a frame that is not in can_ids, or raises (logged).
ThreadIdles(s) ==
    /\ thread[s] = "receiving"
    /\ thread' = [thread EXCEPT ![s] = "testing"]
    /\ UNCHANGED <<running, bus, sessions, open, stopping, frames, rx, ready, given>>

\* pack_thought: an envelope with the next tick of the logical clock.
Pack(frame) == <<frame[1], frame[2], Len(given) + 1>>

\* _deliver and the task it starts: the frame is packed, then given to the
\* callback of its session.
DispatchFrame ==
    /\ ~stopping /\ ready # <<>>
    /\ given' = Append(given, Pack(Head(ready)))
    /\ ready' = Tail(ready)
    /\ UNCHANGED <<running, bus, sessions, open, thread, stopping, frames, rx>>

StopBegin ==
    /\ ~stopping /\ bus # 0
    /\ running' = FALSE /\ open' = open \ {bus} /\ stopping' = TRUE
    /\ UNCHANGED <<bus, sessions, thread, frames, rx, ready, given>>

\* Mutant: the thread is not joined.
StopEndWithoutJoin ==
    /\ stopping
    /\ bus' = 0 /\ stopping' = FALSE
    /\ UNCHANGED <<running, sessions, open, thread, frames, rx, ready, given>>

\* The thread has ended, or the join has timed out.
StopEnd ==
    /\ stopping /\ (JoinSuffices => thread[bus] = "dead")
    /\ bus' = 0 /\ stopping' = FALSE
    /\ UNCHANGED <<running, sessions, open, thread, frames, rx, ready, given>>

\* A frame on the wire reaches every open bus.
Frame ==
    /\ frames < MaxFrames /\ frames' = frames + 1
    /\ rx' = [s \in Session |-> IF s \in open THEN Append(rx[s], frames') ELSE rx[s]]
    /\ UNCHANGED <<running, bus, sessions, open, thread, stopping, ready, given>>

Next ==
    \/ StartListening \/ DispatchFrame \/ StopBegin \/ StopEnd \/ Frame
    \/ \E s \in Session : ThreadTests(s) \/ ThreadReads(s) \/ ThreadIdles(s)

-----------------------------------------------------------------------------
(* Properties *)

Alive(s) == thread[s] \in {"testing", "receiving"}

\* stop_listening, "The bus object is kept alive until the reader thread observes
\* the flag and exits": a thread lives only as long as its own bus is current,
\* so that a later session, which sets _running again, never revives an old one.
\* And each frame is given to a session once, in the order of the bus.
OneReader ==
    /\ \A s \in Session : Alive(s) => s = bus
    /\ \A i, j \in DOMAIN given : (i < j /\ given[i][1] = given[j][1]) => given[i][2] < given[j][2]
=============================================================================
