------------------------------- MODULE Relay -------------------------------
(***************************************************************************)
(* The A-DNS relay (tpcp/relay/server.py): one coroutine per connection    *)
(* reads frames, challenges and registers agents, and forwards messages to *)
(* the connections in the registry; and the agents' side of it             *)
(* (_connect_to_adns and _process_adns_message of core/node.py).           *)
(*                                                                         *)
(* The steps are the runs of code between two awaits.  Agents are honest   *)
(* and hold their key.  A session is one WebSocket connection of an agent; *)
(* the agent sends one handshake on it, so the relay sends at most one     *)
(* challenge on it and the session also names the challenge's nonce: an    *)
(* answer sent on session c verifies against the pending challenge iff     *)
(* that is c's.                                                            *)
(***************************************************************************)
EXTENDS Naturals, Sequences, FiniteSets

CONSTANTS
    Agent,          \* agent ids
    Msg,            \* bound: application messages, each sent at most once
    All,            \* the broadcast address
    None,           \* no session, no message
    Sender,         \* bound: the agents that send messages
    Flaky,          \* bound: the agents that may lose their connection
    MaxSessions,    \* bound: connections per agent
    Limit           \* challenges per address and minute (10 in the code)

ASSUME SessionsAssumption == MaxSessions \in Nat \ {0}
ASSUME LimitAssumption == Limit \in Nat
ASSUME AgentAssumption == All \notin Agent /\ Flaky \cup Sender \subseteq Agent

Session == Agent \X (1..MaxSessions)
Owner(c) == c[1]
SessionsOf(a) == {a} \X (1..MaxSessions)

ASSUME NoneAssumption == None \notin Session \cup Msg
\* A control frame is not an application message.
ASSUME FrameAssumption == {"hello", "answer", "challenge", "registered"} \cap Msg = {}

VARIABLES
    registry,   \* the relay's registry: agent -> ws
    pending,    \* _pending_challenges: agent -> ws (and nonce)
    handler,    \* where the coroutine of each connection is
    issued,     \* entries made in _challenge_rate_limits, counted up to Limit
    refused,    \* ghost: sessions whose handshake the limit left unanswered
    conn,       \* "none", "up", "cut" (lost, the relay does not know), "closed"
                \* and, once the coroutine has cleaned up, "gone"
    toRelay,    \* frames sent by the agent, not read by the relay
    toClient,   \* frames sent by the relay, not read by the agent
    cur,        \* _adns_ws of each agent
    confirmed,  \* sessions on which ADNS_REGISTERED was read (_adns_registered)
    mail,       \* sender and receiver of each message, fixed
    sent,       \* messages sent to the relay
    prompt,     \* fixed.  TRUE: an agent reconnects only when every coroutine of
                \* the relay is through with its previous session; FALSE: the
                \* relay may learn of a lost connection late (a half-open
                \* socket), or still be in a fan-out that failed on it
    owed,       \* ghost: <<message, sender's session, receiver's session>>,
                \* both confirmed when the message was sent
    got         \* <<message, session>> read by agents

relay == <<registry, pending, handler, issued, refused>>
client == <<cur, confirmed, mail, prompt, sent, owed, got>>
vars == <<registry, pending, handler, issued, refused, conn, toRelay, toClient,
          cur, confirmed, mail, prompt, sent, owed, got>>

Reading == [at |-> "reading", msg |-> None, to |-> {}, todo |-> {}, stale |-> <<>>]

Init ==
    /\ registry = [a \in Agent |-> None]
    /\ pending = [a \in Agent |-> None]
    /\ handler = [c \in Session |-> Reading]
    /\ issued = 0 /\ refused = {}
    /\ conn = [c \in Session |-> "none"]
    /\ toRelay = [c \in Session |-> <<>>]
    /\ toClient = [c \in Session |-> <<>>]
    /\ cur = [a \in Agent |-> None]
    /\ confirmed = {}
    /\ mail \in [Msg -> {e \in [from : Sender, to : Agent \cup {All}] : e.from # e.to}]
    /\ prompt \in BOOLEAN
    /\ sent = {} /\ owed = {} /\ got = {}

-----------------------------------------------------------------------------
(* The relay: _handle_connection, _initiate_challenge,                     *)
(* _handle_challenge_response                                              *)

Closed(c) == conn[c] \in {"closed", "gone"}

\* The coroutine of c reads its next frame.
Reads(c, frame) ==
    /\ handler[c].at = "reading" /\ conn[c] \in {"up", "cut", "closed"}
    /\ toRelay[c] # <<>> /\ frame = Head(toRelay[c])
    /\ toRelay' = [toRelay EXCEPT ![c] = Tail(@)]

\* websocket.send(): a frame written to a lost connection goes nowhere.
Sends(c, frame) ==
    toClient' = IF conn[c] = "up" THEN [toClient EXCEPT ![c] = Append(@, frame)] ELSE toClient

\* _cleanup_stale_challenges: only an agent whose connection is lost leaves a
\* challenge unanswered for 300 s, so any of those may be dropped.
Expire(old) == [a \in Agent |-> IF a \in old THEN None ELSE pending[a]]
Unanswered == {a \in Agent : pending[a] # None /\ conn[pending[a]] # "up"}

\* A sender is challenged on first contact, unless a challenge is pending, and
\* when it turns up on another connection than the registered one.
MustChallenge(c) ==
    LET a == Owner(c) IN
        IF registry[a] = None THEN pending[a] = None ELSE registry[a] # c

\* The token bucket is empty, or the frame too large: close the connection.
Throttle(c) ==
    /\ Owner(c) \in Flaky /\ c[2] < MaxSessions /\ conn[c] = "up"
    /\ handler[c].at = "reading" /\ toRelay[c] # <<>>
    /\ toRelay' = [toRelay EXCEPT ![c] = <<>>]
    /\ conn' = [conn EXCEPT ![c] = "closed"]
    /\ UNCHANGED <<relay, toClient, client>>

\* One more entry in the list of the address, unless it is full.
Counted == issued' = IF issued < Limit THEN issued + 1 ELSE issued

ReadHello(c) ==
    /\ Limit > 0 /\ Reads(c, "hello") /\ MustChallenge(c)
    /\ \E old \in SUBSET Unanswered :
           pending' = [Expire(old) EXCEPT ![Owner(c)] = c]
    /\ Counted
    /\ Sends(c, "challenge")
    /\ handler' = [handler EXCEPT ![c].at = "challenging"]
    /\ UNCHANGED <<registry, refused, conn, client>>

\* Limit challenges went to the address within the minute: the handshake is
\* dropped, after the clean-up.  Which earlier ones were on the same address, and
\* are not older than a minute, is left open (module RateLimits has the list).
RefuseHello(c) ==
    /\ Reads(c, "hello") /\ MustChallenge(c) /\ issued = Limit
    /\ \E old \in SUBSET Unanswered : pending' = Expire(old)
    /\ refused' = refused \cup {c}
    /\ UNCHANGED <<registry, handler, issued, conn, toClient, client>>

IgnoreHello(c) ==
    /\ Reads(c, "hello") /\ ~MustChallenge(c)
    /\ UNCHANGED <<relay, conn, toClient, client>>

ChallengeSent(c) ==
    /\ handler[c].at = "challenging"
    /\ handler' = [handler EXCEPT ![c] = Reading]
    /\ UNCHANGED <<registry, pending, issued, refused, conn, toRelay, toClient, client>>

\* Sending the challenge raised: the agent's pending challenge, by now perhaps
\* another session's, is dropped.
ChallengeFailed(c) ==
    /\ handler[c].at = "challenging" /\ Closed(c)
    /\ pending' = [pending EXCEPT ![Owner(c)] = None]
    /\ handler' = [handler EXCEPT ![c] = Reading]
    /\ UNCHANGED <<registry, issued, refused, conn, toRelay, toClient, client>>

\* The signature matches the pending nonce: register and confirm.
AnswerVerifies(c) ==
    /\ Reads(c, "answer") /\ pending[Owner(c)] = c
    /\ registry' = [registry EXCEPT ![Owner(c)] = c]
    /\ pending' = [pending EXCEPT ![Owner(c)] = None]
    /\ Sends(c, "registered")
    /\ UNCHANGED <<handler, issued, refused, conn, client>>

\* It does not: forget the challenge and close the connection.
AnswerFails(c) ==
    /\ Reads(c, "answer") /\ pending[Owner(c)] \notin {None, c}
    /\ pending' = [pending EXCEPT ![Owner(c)] = None]
    /\ conn' = [conn EXCEPT ![c] = "closed"]
    /\ UNCHANGED <<registry, handler, issued, refused, toClient, client>>

AnswerUnexpected(c) ==
    /\ Reads(c, "answer") /\ pending[Owner(c)] = None
    /\ UNCHANGED <<relay, conn, toClient, client>>

\* A message from a sender that is not registered on c: dropped; the challenge
\* it may cause stops at the missing public key, after the clean-up and the count.
DropUnverified(c) ==
    /\ \E m \in Msg : Reads(c, m)
    /\ registry[Owner(c)] # c
    /\ \E old \in SUBSET Unanswered :
           pending' = IF MustChallenge(c) THEN Expire(old) ELSE pending
    /\ IF MustChallenge(c) THEN Counted ELSE UNCHANGED issued
    /\ UNCHANGED <<registry, handler, refused, conn, toClient, client>>

\* The registered connections a message goes to, as found when it is read.
Targets(m) ==
    {<<b, registry[b]>> : b \in {b \in Agent : /\ registry[b] # None /\ b # mail[m].from
                                               /\ mail[m].to \in {b, All}}}

\* `del self.registry[id]` in order, up to the first id that is not there.
Deregister(stale) ==
    [a \in Agent |->
        IF \E i \in DOMAIN stale : stale[i] = a /\ \A j \in 1..i : registry[stale[j]] # None
        THEN None ELSE registry[a]]

\* Mutant: the target is not ticked off.
ProceedRepeating(c, m, todo, stale) ==
    IF todo = {}
    THEN /\ registry' = Deregister(stale)
         /\ handler' = [handler EXCEPT ![c] = Reading]
         /\ UNCHANGED toClient
    ELSE \E p \in todo :
         /\ handler' = [handler EXCEPT ![c] = [at |-> "forwarding", msg |-> m, to |-> {p},
                                               todo |-> todo, stale |-> stale]]
         /\ Sends(p[2], m)
         /\ UNCHANGED registry

\* Send m to the next target and await it; after the last one, deregister those
\* that failed.
Proceed(c, m, todo, stale) ==
    IF todo = {}
    THEN /\ registry' = Deregister(stale)
         /\ handler' = [handler EXCEPT ![c] = Reading]
         /\ UNCHANGED toClient
    ELSE \E p \in todo :
         /\ handler' = [handler EXCEPT ![c] = [at |-> "forwarding", msg |-> m, to |-> {p},
                                               todo |-> todo \ {p}, stale |-> stale]]
         /\ Sends(p[2], m)
         /\ UNCHANGED registry

Forward(c) ==
    /\ registry[Owner(c)] = c
    /\ \E m \in Msg : Reads(c, m) /\ Proceed(c, m, Targets(m), <<>>)
    /\ UNCHANGED <<pending, issued, refused, conn, client>>

SendReturned(c) ==
    /\ handler[c].at = "forwarding"
    /\ Proceed(c, handler[c].msg, handler[c].todo, handler[c].stale)
    /\ UNCHANGED <<pending, issued, refused, conn, toRelay, client>>

\* Mutant: the connection is noted instead of the agent.
SendRaisedNotesSession(c) ==
    /\ handler[c].at = "forwarding"
    /\ \E p \in handler[c].to :
           /\ Closed(p[2])
           /\ Proceed(c, handler[c].msg, handler[c].todo, Append(handler[c].stale, p[2]))
    /\ UNCHANGED <<pending, issued, refused, conn, toRelay, client>>

\* Mutant: a slow send counts as a failed one.
SendRaisedWhenSlow(c) ==
    /\ handler[c].at = "forwarding"
    /\ \E p \in handler[c].to :
           Proceed(c, handler[c].msg, handler[c].todo, Append(handler[c].stale, p[1]))
    /\ UNCHANGED <<pending, issued, refused, conn, toRelay, client>>

\* Mutant: the first failed send ends the fan-out.
SendRaisedAborts(c) ==
    /\ handler[c].at = "forwarding"
    /\ \E p \in handler[c].to :
           Closed(p[2]) /\ Proceed(c, handler[c].msg, {}, Append(handler[c].stale, p[1]))
    /\ UNCHANGED <<pending, issued, refused, conn, toRelay, client>>

SendRaised(c) ==
    /\ handler[c].at = "forwarding"
    /\ \E p \in handler[c].to :
           /\ Closed(p[2])
           /\ Proceed(c, handler[c].msg, handler[c].todo, Append(handler[c].stale, p[1]))
    /\ UNCHANGED <<pending, issued, refused, conn, toRelay, client>>

\* Mutant: pending challenges outlive their connection.
FinishKeepsPending(c) ==
    /\ handler[c].at = "reading" /\ conn[c] = "closed"
    /\ registry' = [a \in Agent |-> IF registry[a] = c THEN None ELSE registry[a]]
    /\ conn' = [conn EXCEPT ![c] = "gone"]
    /\ toRelay' = [toRelay EXCEPT ![c] = <<>>]
    /\ UNCHANGED <<pending, handler, issued, refused, toClient, client>>

\* The read loop ends; the finally block.
Finish(c) ==
    /\ handler[c].at = "reading" /\ conn[c] = "closed"
    /\ registry' = [a \in Agent |-> IF registry[a] = c THEN None ELSE registry[a]]
    /\ pending' = [a \in Agent |-> IF pending[a] = c THEN None ELSE pending[a]]
    /\ conn' = [conn EXCEPT ![c] = "gone"]
    /\ toRelay' = [toRelay EXCEPT ![c] = <<>>]
    /\ UNCHANGED <<handler, issued, refused, toClient, client>>

-----------------------------------------------------------------------------
(* The agents: _connect_to_adns, _process_adns_message *)

Settled(c) ==
    /\ conn[c] \in {"none", "gone"}
    /\ \A d \in Session :
           /\ c \notin {p[2] : p \in handler[d].to \cup handler[d].todo}
           /\ \A i \in DOMAIN handler[d].stale : handler[d].stale[i] # Owner(c)

\* Connect and send the handshake.
Connect(a, c) ==
    /\ cur[a] = None /\ c \in SessionsOf(a) /\ conn[c] = "none"
    /\ \A i \in 1..(c[2] - 1) : conn[<<a, i>>] # "none"
    /\ prompt => \A d \in SessionsOf(a) : Settled(d)
    /\ conn' = [conn EXCEPT ![c] = "up"]
    /\ cur' = [cur EXCEPT ![a] = c]
    /\ toRelay' = [toRelay EXCEPT ![c] = <<"hello">>]
    /\ UNCHANGED <<relay, toClient, confirmed, mail, prompt, sent, owed, got>>

\* Sign the nonce of a challenge and send it back; note a confirmation; take a
\* message.
ClientReads(a) ==
    LET c == cur[a] IN
        /\ c # None /\ conn[c] = "up" /\ toClient[c] # <<>>
        /\ toClient' = [toClient EXCEPT ![c] = Tail(@)]
        /\ \/ /\ Head(toClient[c]) = "challenge"
              /\ toRelay' = [toRelay EXCEPT ![c] = Append(@, "answer")]
              /\ UNCHANGED <<confirmed, got>>
           \/ /\ Head(toClient[c]) = "registered"
              /\ confirmed' = confirmed \cup {c}
              /\ UNCHANGED <<toRelay, got>>
           \/ /\ Head(toClient[c]) \in Msg
              /\ got' = got \cup {<<Head(toClient[c]), c>>}
              /\ UNCHANGED <<toRelay, confirmed>>
    /\ UNCHANGED <<relay, conn, cur, mail, prompt, sent, owed>>

\* The application sends a message through the relay, registered or not.
ClientSends(m) ==
    LET c == cur[mail[m].from] IN
        /\ m \notin sent /\ c # None /\ conn[c] = "up"
        /\ sent' = sent \cup {m}
        /\ toRelay' = [toRelay EXCEPT ![c] = Append(@, m)]
        /\ owed' = owed \cup {<<m, c, cur[b]>> :
               b \in {b \in Agent : /\ b # mail[m].from /\ mail[m].to \in {b, All}
                                    /\ {c, cur[b]} \subseteq confirmed}}
    /\ UNCHANGED <<relay, conn, toClient, cur, confirmed, mail, prompt, got>>

\* The relay closed the connection.
SeeClosed(a) ==
    /\ cur[a] # None /\ Closed(cur[a])
    /\ cur' = [cur EXCEPT ![a] = None]
    /\ UNCHANGED <<relay, conn, toRelay, toClient, confirmed, mail, prompt, sent, owed, got>>

\* The agent's connection is lost or the agent stops; what it had sent may
\* still reach the relay, which learns of the loss later.
Lose(a) ==
    LET c == cur[a] IN
        /\ a \in Flaky /\ c # None /\ conn[c] = "up" /\ c[2] < MaxSessions
        /\ conn' = [conn EXCEPT ![c] = "cut"]
        /\ cur' = [cur EXCEPT ![a] = None]
        /\ toClient' = [toClient EXCEPT ![c] = <<>>]
    /\ UNCHANGED <<relay, toRelay, confirmed, mail, prompt, sent, owed, got>>

Notice(c) ==
    /\ conn[c] = "cut"
    /\ conn' = [conn EXCEPT ![c] = "closed"]
    /\ UNCHANGED <<relay, toRelay, toClient, client>>

-----------------------------------------------------------------------------
HandlerStep(c) ==
    \/ ReadHello(c) \/ RefuseHello(c) \/ IgnoreHello(c) \/ ChallengeSent(c) \/ ChallengeFailed(c)
    \/ AnswerVerifies(c) \/ AnswerFails(c) \/ AnswerUnexpected(c)
    \/ DropUnverified(c) \/ Forward(c) \/ SendReturned(c) \/ SendRaised(c)

AgentStep(a) == ClientReads(a) \/ SeeClosed(a) \/ \E c \in SessionsOf(a) : Connect(a, c)

Next ==
    \/ \E c \in Session : HandlerStep(c) \/ Throttle(c) \/ Finish(c) \/ Notice(c)
    \/ \E a \in Agent : AgentStep(a) \/ Lose(a)
    \/ \E m \in Msg : ClientSends(m)

Spec == Init /\ [][Next]_vars

\* Every coroutine runs on, pings discover a lost connection, agents retry
\* their connection for ever.
Fairness ==
    /\ \A c \in Session : WF_vars(HandlerStep(c)) /\ WF_vars(Finish(c)) /\ WF_vars(Notice(c))
    /\ \A a \in Agent : WF_vars(AgentStep(a))

FairSpec == Spec /\ Fairness
-----------------------------------------------------------------------------
(* Properties *)

Frame == {"challenge", "registered"} \cup Msg

\* Shapes of the relay's dictionaries and of the connections.
TypeOK ==
    /\ registry \in [Agent -> Session \cup {None}]
    /\ pending \in [Agent -> Session \cup {None}]
    /\ \A c \in Session :
           /\ handler[c].at \in {"reading", "challenging", "forwarding"}
           /\ handler[c].msg \in Msg \cup {None}
           /\ handler[c].to \cup handler[c].todo \subseteq Agent \X Session
           /\ handler[c].stale \in Seq(Agent)
    /\ issued \in 0..Limit /\ refused \subseteq Session
    /\ conn \in [Session -> {"none", "up", "cut", "closed", "gone"}]
    /\ toRelay \in [Session -> Seq({"hello", "answer"} \cup Msg)]
    /\ toClient \in [Session -> Seq(Frame)]
    /\ cur \in [Agent -> Session \cup {None}]
    /\ confirmed \subseteq Session /\ sent \subseteq Msg
    /\ owed \subseteq Msg \X Session \X Session /\ got \subseteq Msg \X Session

\* Neither dictionary refers to a connection whose coroutine has cleaned up:
\* whatever is awaited meanwhile, no entry is left that nobody will remove.
NoDanglingEntry ==
    \A a \in Agent :
        /\ registry[a] # None => Owner(registry[a]) = a /\ conn[registry[a]] # "gone"
        /\ pending[a] # None => Owner(pending[a]) = a /\ conn[pending[a]] # "gone"

\* RFC-001 9.1, after ADNS_REGISTERED: "now reachable by UUID": an agent that
\* was told so on its live connection is registered there, no other coroutine
\* deregisters it.
ConfirmedIsRegistered ==
    \A a \in Agent : cur[a] \in confirmed /\ conn[cur[a]] = "up" => registry[a] = cur[a]

\* ... which holds at least of agents that reconnect only when the relay is
\* through with their previous session.
PromptIsRegistered == prompt => ConfirmedIsRegistered

\* Forwarding, with its awaits, hands an agent a message at most once, also when
\* it re-registers in the middle of a fan-out.
Copies(m, a) ==
    UNION {{c} \X {i \in DOMAIN toClient[c] : toClient[c][i] = m} : c \in SessionsOf(a)}
AtMostOnce ==
    \A m \in Msg, a \in Agent :
        Cardinality(Copies(m, a)) + Cardinality({c \in SessionsOf(a) : <<m, c>> \in got}) <= 1

\* RFC-001 9.1: "Multiple connections from the same agent_id replace the
\* previous entry": once connections are no longer lost, every connected agent
\* is, and stays, registered on the connection it has.
AllRegistered ==
    \A a \in Agent : cur[a] # None /\ conn[cur[a]] = "up" => registry[a] = cur[a]
EventuallyRegistered == <>[]AllRegistered

\* ... no lost challenge, answer or entry leaves an agent that reconnects
\* promptly connected but unreachable: that is so only if the limit of challenges
\* dropped the one handshake of its connection.
PromptlyRegistered ==
    prompt => <>[](\A a \in Agent : cur[a] \notin {None} \cup refused /\ conn[cur[a]] = "up"
                                        => registry[a] = cur[a])

\* A message sent between agents that both were told they are registered
\* arrives, unless one of the two loses its connection.
Routed ==
    \A o \in owed : <<o[1], o[3]>> \in got \/ conn[o[2]] # "up" \/ conn[o[3]] # "up"
EventuallyRouted == prompt => []<>Routed
=============================================================================
