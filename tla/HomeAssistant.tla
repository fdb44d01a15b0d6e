--------------------------- MODULE HomeAssistant ----------------------------
(***************************************************************************)
(* The Home Assistant adapter (adapters/homeassistant_adapter.py): the     *)
(* HTTP session that service calls and the event stream share, the         *)
(* listening task of start_event_stream with its reconnects, and stop().   *)
(***************************************************************************)
EXTENDS Integers, Sequences

CONSTANTS
    Listener,    \* calls of start_event_stream, each with its task
    MaxSessions, \* bound: sessions created
    MaxEvents,   \* bound: state changes streamed by Home Assistant
    MaxFaults    \* bound: streams that end or fail, malformed events

VARIABLES
    session,   \* number of the session in _session, 0 for None
    closed,    \* sessions that are closed
    current,   \* _listening_task, as a sequence of length 0 or 1
    task,      \* each listener: "none", "connecting", "streaming", "sleeping",
               \* "cancelling" (cancel() called, not yet run) or "ended"
    uses,      \* the session each listener was started with
    stopping,  \* stop() awaits the close of the session
    restarted, \* ghost: start_event_stream was called while a listener lived
    clock,     \* _logical_clock
    given,     \* <<listener, clock>> of each envelope given to the callback
    faults     \* bound counter

vars == <<session, closed, current, task, uses, stopping, restarted, clock, given, faults>>

Init ==
    /\ session = 0 /\ closed = {} /\ current = <<>> /\ stopping = FALSE /\ restarted = FALSE
    /\ task = [l \in Listener |-> "none"]
    /\ uses = [l \in Listener |-> 0]
    /\ clock = 0 /\ given = <<>> /\ faults = 0

Alive(l) == task[l] \notin {"none", "ended"}

\* _get_session: a new one if there is none or it is closed.
SessionNow == IF session = 0 \/ session \in closed THEN session + 1 ELSE session
GetSession == SessionNow <= MaxSessions /\ session' = SessionNow

StartEventStream(l) ==
    /\ task[l] = "none"
    /\ GetSession
    /\ uses' = [uses EXCEPT ![l] = session']
    /\ task' = [task EXCEPT ![l] = "connecting"]
    /\ current' = <<l>>
    /\ restarted' = (restarted \/ \E k \in Listener : Alive(k) /\ task[k] # "cancelling")
    /\ UNCHANGED <<closed, stopping, clock, given, faults>>

\* execute_service_call: the POST succeeds or fails, the session stays.
ServiceCall ==
    /\ session # SessionNow
    /\ GetSession
    /\ UNCHANGED <<closed, current, task, uses, stopping, restarted, clock, given, faults>>

\* session.get answers.
Opened(l) ==
    /\ task[l] = "connecting" /\ uses[l] \notin closed
    /\ task' = [task EXCEPT ![l] = "streaming"]
    /\ UNCHANGED <<session, closed, current, uses, stopping, restarted, clock, given, faults>>

\* pack_thought: an envelope with the next tick of the logical clock.
Pack(l) == clock' = clock + 1 /\ given' = Append(given, <<l, clock + 1>>)

\* A state_changed event is packed and given to the callback.
Event(l) ==
    /\ task[l] = "streaming" /\ uses[l] \notin closed /\ Len(given) < MaxEvents
    /\ Pack(l)
    /\ UNCHANGED <<session, closed, current, task, uses, stopping, restarted, faults>>

\* The stream ends: the loop connects again at once.
StreamEnds(l) ==
    /\ task[l] = "streaming" /\ faults < MaxFaults
    /\ faults' = faults + 1
    /\ task' = [task EXCEPT ![l] = "connecting"]
    /\ UNCHANGED <<session, closed, current, uses, stopping, restarted, clock, given>>

\* A ClientError, an event that does not parse, or a closed session: 5 s pause.
Fails(l) ==
    /\ task[l] \in {"connecting", "streaming"}
    /\ IF uses[l] \in closed THEN UNCHANGED faults
       ELSE faults < MaxFaults /\ faults' = faults + 1
    /\ task' = [task EXCEPT ![l] = "sleeping"]
    /\ UNCHANGED <<session, closed, current, uses, stopping, restarted, clock, given>>

Retries(l) ==
    /\ task[l] = "sleeping"
    /\ task' = [task EXCEPT ![l] = "connecting"]
    /\ UNCHANGED <<session, closed, current, uses, stopping, restarted, clock, given, faults>>

\* Mutant: the listener's last except clause catches the cancellation too.
CancelledRetries(l) ==
    /\ task[l] = "cancelling"
    /\ task' = [task EXCEPT ![l] = "sleeping"]
    /\ UNCHANGED <<session, closed, current, uses, stopping, restarted, clock, given, faults>>

\* CancelledError is no Exception: the task ends.
Cancelled(l) ==
    /\ task[l] = "cancelling"
    /\ task' = [task EXCEPT ![l] = "ended"]
    /\ UNCHANGED <<session, closed, current, uses, stopping, restarted, clock, given, faults>>

\* stop(): cancels the last listener started, and closes the session.
Stop ==
    /\ session # 0 /\ session \notin closed /\ ~stopping
    /\ task' = [l \in Listener |-> IF current = <<l>> /\ Alive(l) THEN "cancelling" ELSE task[l]]
    /\ closed' = closed \cup {session}
    /\ stopping' = TRUE
    /\ UNCHANGED <<session, current, uses, restarted, clock, given, faults>>

Stopped ==
    /\ stopping /\ stopping' = FALSE
    /\ UNCHANGED <<session, closed, current, task, uses, restarted, clock, given, faults>>

ListenerStep(l) == Opened(l) \/ StreamEnds(l) \/ Fails(l) \/ Retries(l) \/ Cancelled(l)

Next ==
    \/ \E l \in Listener : StartEventStream(l) \/ Event(l) \/ ListenerStep(l)
    \/ ServiceCall \/ Stop \/ Stopped

\* The event loop runs every task that can go on.
Fairness == \A l \in Listener : WF_vars(ListenerStep(l))

Spec == Init /\ [][Next]_vars /\ Fairness
-----------------------------------------------------------------------------
(* Properties *)

\* stop(), "Cleanup network connections": unless start_event_stream was called
\* again while a listener lived (the first one is then beyond stop's reach), a
\* listener whose session has been closed ends; it does not retry for ever.
StopsListening ==
    \A l \in Listener : (Alive(l) /\ uses[l] \in closed) ~> (~Alive(l) \/ restarted)
=============================================================================
