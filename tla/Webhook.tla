------------------------------ MODULE Webhook -------------------------------
(***************************************************************************)
(* The request limit of the webhook gateway (relay/webhook.py): 60 per     *)
(* minute and address.  FastAPI runs _verify_auth and _check_rate_limit,   *)
(* plain functions, on a pool of threads, so that reading the clock,       *)
(* reading _rate_limits[ip] and writing it back are separate steps.  All   *)
(* requests are from one address.                                          *)
(***************************************************************************)
EXTENDS Integers, Sequences, FiniteSets

CONSTANTS
    Threads,     \* threads of the pool, each with one request at a time
    Limit,       \* 60 requests ...
    Minute,      \* ... in 60 s, in ticks
    MaxTime,     \* bound: length of a behaviour, in ticks
    MaxRequests  \* bound: requests that come in

VARIABLES
    now,
    entry,     \* _rate_limits[ip]: [count, start]; count 0 if there is none
    request,   \* the request of each thread: where it is, the time it read,
               \* the entry it read, and (a ghost) whether, by the time it read
               \* that, Limit others had passed since a minute before `at`
    passed,    \* ghost: when each request passed
    wronged,   \* ghost: requests refused although fewer had passed
    requests   \* bound counter

vars == <<now, entry, request, passed, wronged, requests>>

NoEntry == [count |-> 0, start |-> 0]
At(p, t, e, d) == [pc |-> p, at |-> t, saw |-> e, due |-> d]

Init ==
    /\ now = 0 /\ entry = NoEntry
    /\ request = [h \in Threads |-> At("idle", 0, NoEntry, FALSE)]
    /\ passed = <<>> /\ wronged = 0 /\ requests = 0

\* Requests that passed at time t or later.
PassedSince(t) == {k \in DOMAIN passed : passed[k] >= t}

\* _verify_auth lets the request through (else 401, and nothing changes);
\* _check_rate_limit reads the clock.
ReadClock(h) ==
    /\ request[h].pc = "idle" /\ requests < MaxRequests
    /\ requests' = requests + 1
    /\ request' = [request EXCEPT ![h] = At("timed", now, NoEntry, FALSE)]
    /\ UNCHANGED <<now, entry, passed, wronged>>

ReadEntry(h) ==
    /\ request[h].pc = "timed"
    /\ LET t == request[h].at IN
           request' = [request EXCEPT ![h] =
               At("read", t, entry, Cardinality(PassedSince(t - Minute)) >= Limit)]
    /\ UNCHANGED <<now, entry, passed, wronged, requests>>

\* The window the request has seen is over, or there was none.
WindowOver(r) == r.saw.count = 0 \/ r.at - r.saw.start > Minute

\* trigger_swarm_intent hands the request to the node's send_message; what it
\* answers, success or 502, changes nothing here.
Trigger(h) ==
    /\ passed' = Append(passed, now)
    /\ request' = [request EXCEPT ![h] = At("idle", 0, NoEntry, FALSE)]

\* Mutant: the count goes on from one window into the next.
WriteBackCountingOn(h) ==
    LET r == request[h] IN
    /\ r.pc = "read"
    /\ WindowOver(r) \/ r.saw.count < Limit
    /\ entry' = [count |-> r.saw.count + 1, start |-> IF WindowOver(r) THEN r.at ELSE r.saw.start]
    /\ Trigger(h)
    /\ UNCHANGED <<now, wronged, requests>>

\* The request counts, in a new window or the one it has seen, and goes on.
WriteBack(h) ==
    LET r == request[h] IN
    /\ r.pc = "read"
    /\ WindowOver(r) \/ r.saw.count < Limit
    /\ entry' = IF WindowOver(r) THEN [count |-> 1, start |-> r.at]
                ELSE [r.saw EXCEPT !.count = @ + 1]
    /\ Trigger(h)
    /\ UNCHANGED <<now, wronged, requests>>

\* 429
TooMany(h) ==
    LET r == request[h] IN
    /\ r.pc = "read"
    /\ ~WindowOver(r) /\ r.saw.count >= Limit
    /\ wronged' = IF r.due THEN wronged ELSE wronged + 1
    /\ request' = [request EXCEPT ![h] = At("idle", 0, NoEntry, FALSE)]
    /\ UNCHANGED <<now, entry, passed, requests>>

Tick ==
    /\ now < MaxTime /\ now' = now + 1
    /\ UNCHANGED <<entry, request, passed, wronged, requests>>

Next ==
    \/ \E h \in Threads : ReadClock(h) \/ ReadEntry(h) \/ WriteBack(h) \/ TooMany(h)
    \/ Tick

-----------------------------------------------------------------------------
(* Properties *)

\* Lost updates and stale clock readings only ever make the limiter milder:
\* however the threads interleave, a request is refused only if, by the time it
\* read the entry, Limit others had passed since a minute before it read the
\* clock.  (Some of them may have passed after it read the clock.)
RefusedOnlyWhenDue == wronged = 0
=============================================================================
