------------------------------- MODULE Modbus -------------------------------
(***************************************************************************)
(* The Modbus adapter (adapters/modbus_adapter.py): execute_write with its *)
(* retry queue, drain_retry_queue, connect, disconnect, and the            *)
(* poll_registers loop.  Everything runs on one event loop; the steps are  *)
(* the runs of code between two awaits.                                    *)
(***************************************************************************)
EXTENDS Integers, Sequences

CONSTANTS
    Command,    \* write commands; each is given to execute_write once
    Drainer,    \* explicit calls of drain_retry_queue
    MaxQueue,   \* _max_retry_queue
    Registers,  \* count of poll_registers
    MaxPolls,   \* max_polls
    MaxLinks    \* bound: connects, disconnects and losses of the link

VARIABLES
    client,     \* _client: "none", "opening", "up" or "down" (not connected)
    queue,      \* _retry_queue
    task,       \* calls of execute_write and drain_retry_queue: where each is,
                \* the commands it has yet to retry, those that failed again
    poll,       \* the poll loop: where it is, next offset, cycles done, and the
                \* last logical clock value and offset it packed
    written,    \* commands whose _do_write returned
    dropped,    \* commands dropped because the queue was full
    failed,     \* ghost: commands whose write failed or could not be tried
    overlapped, \* ghost: two calls have been in progress at the same time
    links       \* bound counter

writes == <<queue, task, written, dropped, failed, overlapped>>
vars == <<client, queue, task, poll, written, dropped, failed, overlapped, links>>

Tasks == Command \cup Drainer
At(p, todo, rest) == [pc |-> p, todo |-> todo, rest |-> rest]
Busy(t) == task[t].pc \in {"draining", "writing"}

Init ==
    /\ client = "none" /\ queue = <<>>
    /\ task = [t \in Tasks |-> At("ready", <<>>, <<>>)]
    /\ poll = [pc |-> "off", offset |-> 0, cycles |-> 0, clock |-> 0, emitted |-> <<>>]
    /\ written = {} /\ dropped = {} /\ failed = {} /\ overlapped = FALSE /\ links = 0

-----------------------------------------------------------------------------
(* execute_write and drain_retry_queue *)

\* Appended to queue q if there is room.
Requeue(c, q) ==
    /\ queue' = IF Len(q) < MaxQueue THEN Append(q, c) ELSE q
    /\ dropped' = IF Len(q) < MaxQueue THEN dropped ELSE dropped \cup {c}
    /\ failed' = failed \cup {c}

Starts(t) ==
    /\ task[t].pc = "ready"
    /\ overlapped' = (overlapped \/ \E u \in Tasks : Busy(u))

\* Not connected: queued, and False.
WriteOffline(c) ==
    /\ Starts(c) /\ client # "up"
    /\ Requeue(c, queue)
    /\ task' = [task EXCEPT ![c] = At("false", <<>>, <<>>)]
    /\ UNCHANGED <<client, poll, written, links>>

\* Connected: the queue is retried first, from a copy; then the command itself.
BeginWrite(c) ==
    /\ Starts(c) /\ client = "up"
    /\ task' = [task EXCEPT ![c] = IF queue = <<>> THEN At("writing", <<>>, <<>>)
                                   ELSE At("draining", queue, <<>>)]
    /\ UNCHANGED <<client, queue, poll, written, dropped, failed, links>>

\* drain_retry_queue called by the application.  Without a link every retry
\* fails at once and nothing changes.
BeginDrain(d) ==
    /\ Starts(d) /\ client = "up" /\ queue # <<>>
    /\ task' = [task EXCEPT ![d] = At("draining", queue, <<>>)]
    /\ UNCHANGED <<client, queue, poll, written, dropped, failed, links>>

\* The loop of t is over and q is its `remaining`, which becomes the queue;
\* execute_write goes on to its own command.  A write awaits the device only
\* over a link that is up; else it raises at once.
DrainEnds(t, q) ==
    IF t \in Command /\ client # "up"
    THEN Requeue(t, q) /\ task' = [task EXCEPT ![t] = At("false", <<>>, <<>>)]
    ELSE /\ queue' = q
         /\ task' = [task EXCEPT ![t] = At(IF t \in Command THEN "writing" ELSE "done", <<>>, <<>>)]
         /\ UNCHANGED <<dropped, failed>>

\* Mutant: a command that fails again is not kept.
RemainingForgets(t, ok) == task[t].rest

\* `remaining` after one more retry.
Remaining(t, ok) == IF ok THEN task[t].rest ELSE Append(task[t].rest, Head(task[t].todo))

\* One retry is over, its write returned or raised.  (An error response of the
\* device is a return.)  The next one is started, or fails with all the others.
Retry(t, ok) ==
    LET todo == Tail(task[t].todo) IN
    /\ task[t].pc = "draining"
    /\ IF todo # <<>> /\ client = "up"
       THEN /\ task' = [task EXCEPT ![t] = At("draining", todo, Remaining(t, ok))]
            /\ UNCHANGED <<queue, dropped, failed>>
       ELSE DrainEnds(t, Remaining(t, ok) \o todo)
    /\ written' = IF ok THEN written \cup {Head(task[t].todo)} ELSE written
    /\ UNCHANGED <<client, poll, overlapped, links>>

WriteOk(c) ==
    /\ task[c].pc = "writing"
    /\ written' = written \cup {c}
    /\ task' = [task EXCEPT ![c].pc = "true"]
    /\ UNCHANGED <<client, queue, poll, dropped, failed, overlapped, links>>

WriteFailed(c) ==
    /\ task[c].pc = "writing"
    /\ Requeue(c, queue)
    /\ task' = [task EXCEPT ![c].pc = "false"]
    /\ UNCHANGED <<client, poll, written, overlapped, links>>

-----------------------------------------------------------------------------
(* connect, disconnect, the link *)

Links == links < MaxLinks /\ links' = links + 1

\* A new client, whatever there was before; then the await of its connect().
Connect ==
    /\ Links /\ client' = "opening"
    /\ UNCHANGED <<writes, poll>>

\* A connect() that is refused returns False, which is ignored.
Connected(up) ==
    /\ client = "opening"
    /\ client' = IF up THEN "up" ELSE "down"
    /\ UNCHANGED <<writes, poll, links>>

Disconnect ==
    /\ Links /\ client # "none"
    /\ client' = "none"
    /\ UNCHANGED <<writes, poll>>

\* The link fails, or pymodbus reconnects by itself.
LinkChanges ==
    /\ Links /\ client \in {"up", "down"}
    /\ client' = IF client = "up" THEN "down" ELSE "up"
    /\ UNCHANGED <<writes, poll>>

-----------------------------------------------------------------------------
(* poll_registers *)

\* A read that begins now awaits the device, or without a link raises at once.
Reads == IF client = "up" THEN "reading" ELSE "raising"

BeginPoll ==
    /\ poll.pc = "off" /\ poll.cycles = 0
    /\ poll' = [poll EXCEPT !.pc = IF client = "up" THEN "reading" ELSE "connecting"]
    /\ client' = IF client = "up" THEN client ELSE "opening"
    /\ UNCHANGED <<writes, links>>

\* The connect() that the loop awaits is over, whatever has become of the client.
PollConnected ==
    /\ poll.pc = "connecting" /\ client # "opening"
    /\ poll' = [poll EXCEPT !.pc = Reads]
    /\ UNCHANGED <<client, writes, links>>

\* The register read last is done with: on to the next one, to the sleep
\* between two cycles, or to the end of the loop.
Advance(p) ==
    LET cycles == IF p.offset + 1 < Registers THEN p.cycles ELSE p.cycles + 1 IN
    [p EXCEPT !.offset = IF cycles = p.cycles THEN @ + 1 ELSE 0, !.cycles = cycles,
              !.pc = IF cycles = p.cycles THEN Reads
                     ELSE IF cycles < MaxPolls THEN "sleeping" ELSE "off"]

\* pack_thought: an envelope with the next tick of the logical clock.
Pack(p) == [p EXCEPT !.clock = @ + 1, !.emitted = Append(@, <<p.cycles, p.offset, p.clock + 1>>)]

\* The value is packed and given to the callback, whatever has become of the
\* client since the read began.
PollRead ==
    /\ poll.pc = "reading"
    /\ poll' = Advance(Pack(poll))
    /\ UNCHANGED <<client, writes, links>>

\* Mutant: a register that cannot be read ends the loop.
PollFailedStops ==
    /\ poll.pc \in {"reading", "raising"}
    /\ poll' = [poll EXCEPT !.pc = "off"]
    /\ UNCHANGED <<client, writes, links>>

\* An error response, a lost link, or no client any more: logged, no envelope.
PollFailed ==
    /\ poll.pc \in {"reading", "raising"}
    /\ poll' = Advance(poll)
    /\ UNCHANGED <<client, writes, links>>

PollWakes ==
    /\ poll.pc = "sleeping"
    /\ poll' = [poll EXCEPT !.pc = Reads]
    /\ UNCHANGED <<client, writes, links>>

-----------------------------------------------------------------------------
Next ==
    \/ \E c \in Command : WriteOffline(c) \/ BeginWrite(c) \/ WriteOk(c) \/ WriteFailed(c)
    \/ \E d \in Drainer : BeginDrain(d)
    \/ \E t \in Tasks, ok \in BOOLEAN : Retry(t, ok)
    \/ Connect \/ Disconnect \/ LinkChanges
    \/ \E up \in BOOLEAN : Connected(up)
    \/ BeginPoll \/ PollConnected \/ PollRead \/ PollFailed \/ PollWakes

Spec == Init /\ [][Next]_vars
-----------------------------------------------------------------------------
(* Properties *)

Elements(s) == {s[k] : k \in DOMAIN s}

\* Failed commands that are nowhere: not queued, not in the hands of a drain,
\* not written since, not dropped for want of room.
Lost ==
    {c \in failed : /\ c \notin Elements(queue) \cup written \cup dropped
                    /\ \A t \in Tasks : c \notin Elements(task[t].todo) \cup Elements(task[t].rest)}

\* As long as calls of execute_write and drain_retry_queue do not overlap, a
\* command that failed is kept until a write of it succeeds, is queued once,
\* and the queue keeps to its limit, however the link comes and goes.
RetriesKept ==
    /\ Len(queue) <= MaxQueue
    /\ ~overlapped => Lost = {} /\ \A i, j \in DOMAIN queue : queue[i] = queue[j] => i = j

\* Polling outlives every failure of the link: the loop is over only after
\* max_polls cycles, and what it packed is in order of cycle and register with
\* no logical clock value used twice.
PollsOn ==
    /\ poll.pc = "off" => poll.cycles \in {0, MaxPolls}
    /\ \A i, j \in DOMAIN poll.emitted : i < j =>
           LET a == poll.emitted[i]
               b == poll.emitted[j]
           IN  a[3] < b[3] /\ (a[1] < b[1] \/ (a[1] = b[1] /\ a[2] < b[2]))

\* drain_retry_queue: "Commands that still fail remain in the queue": no failed
\* command is forgotten.
NoCommandLost == Lost = {}
=============================================================================
