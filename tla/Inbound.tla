------------------------------ MODULE Inbound -------------------------------
(***************************************************************************)
(* What one node does with the envelopes that reach it (core/node.py:      *)
(* _handle_connection, _process_inbound and the intent handlers), under    *)
(* the access policy of security/acl.py, and how its own acknowledged      *)
(* sends wait for their answer (send_message with require_ack).  The steps *)
(* are the runs of code between two awaits: from reading a frame to the    *)
(* first await of its handler nothing else runs.                           *)
(*                                                                         *)
(* Time is kept as ages: a clock tick makes every remembered message and   *)
(* every armed timer older, up to the age at which the code forgets it.    *)
(* An envelope is a record; its copies (a queued message sent again, a     *)
(* relayed one) are equal.  Frames that are not valid JSON or fail the     *)
(* schema change nothing and are left out.                                 *)
(***************************************************************************)
EXTENDS Integers, FiniteSets

CONSTANTS
    Peer,        \* agents other than this one
    Known,       \* peers the application has registered
    Conn,        \* inbound connections, the relay's included
    Env,         \* envelopes that may arrive: records, see EnvType
    Idle,        \* a connection that awaits its next frame
    Call,        \* send_message calls of this node with require_ack
    Policed,     \* bound: intents the access policy is changed for
    DefaultAllow,\* ACLPolicy.default_allow
    AutoAck,     \* auto_ack
    Window,      \* 300 s, in ticks: life of an entry of _seen_messages
    AckTimeout,  \* 30 s, in ticks
    MaxArrivals, \* bound: frames that arrive
    MaxChurn     \* bound: policy and registry changes, stops, cancellations

ASSUME ClockAssumption == Window \in Nat \ {0} /\ AckTimeout \in Nat \ {0}
ASSUME KnownAssumption == Known \subseteq Peer
ASSUME BoundAssumption == MaxArrivals \in Nat /\ MaxChurn \in Nat

\* Intents with a handler; Terminate stands for those without.
Handled == {"Handshake", "Task_Request", "State_Sync", "State_Sync_Vector", "ACK", "NACK"}
Intent == Handled \cup {"Terminate"}

\* body is the payload's kind; signed is what the signature covers; ref is the
\* agent a handshake describes, or the message an ACK or NACK is about.
EnvType == [id : Nat, from : Peer, intent : Intent, ttl : Nat,
            signed : {"none", "payload", "payload+info"},
            body : {"text", "identity", "crdt_sync", "vector"},
            ref : Peer \cup Call \cup {"none"}]
ASSUME PolicedAssumption == Policed \subseteq Intent
ASSUME EnvAssumption ==
    /\ Env \subseteq EnvType
    /\ \A d, e \in Env : d.id = e.id => d = e
    /\ \A e \in Env : e.body = "identity" => e.ref \in Peer

VARIABLES
    registry,  \* peers in peer_registry
    rules,     \* ACLPolicy._rules, a function on some <<peer, intent>>
    wide,      \* ACLPolicy._intent_rules, a function on some intents
    seen,      \* _seen_messages: envelope |-> age
    at,        \* the envelope whose handler each connection awaits
    memory,    \* State_Sync envelopes merged into shared_memory
    bank,      \* vector_bank, by message id
    pending,   \* keys of _pending_acks
    fut,       \* the future of each call
    timer,     \* age of wait_for's timer, for a call that waits
    call,      \* where each send_message call is, or how it ended
    finished,  \* ghost: envelopes whose handler returned
    answered,  \* ghost: envelopes an ACK or NACK was dispatched for
    heard,     \* ghost: answers handled for a call whose future was open, and
               \* whether its timer was due by then
    runs,      \* ghost: how often each envelope was handed to its handler
    since,     \* ghost: ticks since then, Window for long ago or never
    arrivals, churn

acl == <<rules, wide>>
inbox == <<seen, at, memory, bank, finished, answered, runs, since, arrivals>>
sends == <<pending, fut, timer, call, heard>>
vars == <<registry, acl, inbox, sends, churn>>

Put(f, x, y) == [z \in DOMAIN f \cup {x} |-> IF z = x THEN y ELSE f[z]]

Init ==
    /\ registry = Known
    /\ rules = <<>> /\ wide = <<>>
    /\ seen = <<>>
    /\ at = [c \in Conn |-> Idle]
    /\ memory = {} /\ bank = {}
    /\ pending = {}
    /\ fut = [m \in Call |-> "none"]
    /\ timer = [m \in Call |-> 0]
    /\ call = [m \in Call |-> "ready"]
    /\ finished = {} /\ answered = {} /\ heard = {}
    /\ runs = [e \in Env |-> 0]
    /\ since = [e \in Env |-> Window]
    /\ arrivals = 0 /\ churn = 0

-----------------------------------------------------------------------------
(* The checks of _process_inbound *)

\* ACLPolicy.is_allowed: the agent's own rule, else the intent's, else the default.
IsAllowed(p, i) ==
    IF <<p, i>> \in DOMAIN rules THEN rules[<<p, i>>]
    ELSE IF i \in DOMAIN wide THEN wide[i]
    ELSE DefaultAllow

\* verify_signature is given the payload alone.
SignatureOk(e) == e.signed = "payload"

\* A handshake is checked by its handler.
Trusted(e) == e.intent = "Handshake" \/ (e.from \in registry /\ SignatureOk(e))

\* json.dumps takes the payload, but not the UUID that ack_info and chunk_info
\* carry: sign_payload raises.
CanSign(info) == info = "none"

\* _create_ack_envelope or _create_nack_envelope, then _dispatch_envelope.  When
\* signing raises, so does the NACK tried in its place, and the outer handler
\* of _process_inbound logs it.
Answered(e) ==
    IF AutoAck /\ e.intent \notin {"ACK", "NACK"} /\ CanSign("ack_info")
    THEN answered \cup {e} ELSE answered

\* The entries of the dedup cache that are left after its clean-up; it is in
\* the order of arrival, so the expired ones are in front.
Fresh == [e \in {d \in DOMAIN seen : seen[d] < Window} |-> seen[e]]

\* A frame is read by an idle connection.  An answer to a message is sent
\* after the message.
Arrives(c, e) ==
    /\ at[c] = Idle /\ arrivals < MaxArrivals
    /\ e.ref \in Call => call[e.ref] # "ready"
    /\ arrivals' = arrivals + 1

\* Mutant: the duplicate test is made, but the message is not remembered.
AdmitsUnmarked(e, ok) ==
    /\ e.ttl > 0 /\ e \notin DOMAIN Fresh
    /\ seen' = Fresh
    /\ ok = (Trusted(e) /\ IsAllowed(e.from, e.intent) /\ e.intent \in Handled)

\* A frame that is no duplicate is remembered, and only then checked: ok tells
\* whether it gets to its handler.
Admits(e, ok) ==
    /\ e.ttl > 0 /\ e \notin DOMAIN Fresh
    /\ seen' = Put(Fresh, e, 0)
    /\ ok = (Trusted(e) /\ IsAllowed(e.from, e.intent) /\ e.intent \in Handled)

DropExpired(c, e) ==
    /\ Arrives(c, e)
    /\ e.ttl <= 0
    /\ UNCHANGED <<registry, acl, seen, at, memory, bank, finished, answered, runs, since, sends, churn>>

DropDuplicate(c, e) ==
    /\ Arrives(c, e)
    /\ e.ttl > 0 /\ e \in DOMAIN Fresh
    /\ seen' = Fresh
    /\ UNCHANGED <<registry, acl, at, memory, bank, finished, answered, runs, since, sends, churn>>

\* Unknown sender, bad or missing signature, denied, or no handler.  Only the
\* denial is answered, with a NACK.
Refuse(c, e) ==
    /\ Arrives(c, e)
    /\ Admits(e, FALSE)
    /\ answered' = IF Trusted(e) /\ ~IsAllowed(e.from, e.intent) THEN Answered(e) ELSE answered
    /\ UNCHANGED <<registry, acl, at, memory, bank, finished, runs, since, sends, churn>>

-----------------------------------------------------------------------------
(* The handlers *)

Enters(c, e) ==
    /\ Arrives(c, e)
    /\ Admits(e, TRUE)
    /\ runs' = [runs EXCEPT ![e] = @ + 1]
    /\ since' = [since EXCEPT ![e] = 0]

\* The handler returned without an await, and so did _process_inbound.
Returns(e) ==
    /\ finished' = finished \cup {e}
    /\ answered' = Answered(e)
    /\ UNCHANGED <<at, acl, churn>>

\* The agent the payload describes is registered, if the signature is its own.
HandleHandshake(c, e) ==
    /\ Enters(c, e) /\ e.intent = "Handshake"
    /\ registry' = IF e.body = "identity" /\ SignatureOk(e)
                   THEN registry \cup {e.ref} ELSE registry
    /\ Returns(e)
    /\ UNCHANGED <<memory, bank, sends>>

\* Stored under the message id; a payload of another kind is only logged.
HandleVectorSync(c, e) ==
    /\ Enters(c, e) /\ e.intent = "State_Sync_Vector"
    /\ bank' = IF e.body = "vector" THEN bank \cup {e} ELSE bank
    /\ Returns(e)
    /\ UNCHANGED <<registry, memory, sends>>

\* fut.set_result or fut.set_exception, unless the future is done by now.
Resolve(m, result) ==
    /\ pending' = pending \ {m}
    /\ fut' = IF m \in pending /\ fut[m] = "open" THEN [fut EXCEPT ![m] = result] ELSE fut

HandleAnswer(c, e, i, result) ==
    /\ Enters(c, e) /\ e.intent = i
    /\ Resolve(e.ref, result)
    /\ heard' = IF e.ref \in Call /\ fut[e.ref] = "open"
                THEN heard \cup {<<e.ref, result, timer[e.ref] = AckTimeout>>} ELSE heard
    /\ Returns(e)
    /\ UNCHANGED <<registry, memory, bank, timer, call>>
HandleAck(c, e) == HandleAnswer(c, e, "ACK", "acked")
HandleNack(c, e) == HandleAnswer(c, e, "NACK", "nacked")

\* A handler of the application, or the merge of a snapshot, which awaits the
\* map's lock and database.
BeginHandler(c, e) ==
    /\ Enters(c, e) /\ e.intent \in {"Task_Request", "State_Sync"}
    /\ at' = [at EXCEPT ![c] = e]
    /\ UNCHANGED <<registry, acl, memory, bank, finished, answered, sends, churn>>

EndHandler(c) ==
    /\ at[c] # Idle
    /\ at' = [at EXCEPT ![c] = Idle]
    /\ memory' = IF at[c].intent = "State_Sync" /\ at[c].body = "crdt_sync"
                 THEN memory \cup {at[c]} ELSE memory
    /\ finished' = finished \cup {at[c]}
    /\ answered' = Answered(at[c])
    /\ UNCHANGED <<registry, acl, seen, bank, runs, since, arrivals, sends, churn>>

\* The handler of the application raised: a NACK instead of an ACK.
HandlerRaises(c) ==
    /\ at[c] # Idle /\ at[c].intent = "Task_Request"
    /\ at' = [at EXCEPT ![c] = Idle]
    /\ answered' = Answered(at[c])
    /\ UNCHANGED <<registry, acl, seen, memory, bank, finished, runs, since, arrivals, sends, churn>>

-----------------------------------------------------------------------------
(* send_message with require_ack *)

\* Mutant: the future is entered once the message has been dispatched.
BeginCallUnlisted(m) ==
    /\ call[m] = "ready"
    /\ call' = [call EXCEPT ![m] = "dispatching"]
    /\ fut' = [fut EXCEPT ![m] = "open"]
    /\ UNCHANGED <<registry, acl, inbox, pending, timer, heard, churn>>

\* Mutant: the future is entered under the receiver's id.
BeginCallByPeer(m) ==
    /\ call[m] = "ready"
    /\ call' = [call EXCEPT ![m] = "dispatching"]
    /\ fut' = [fut EXCEPT ![m] = "open"]
    /\ pending' = pending \cup Known
    /\ UNCHANGED <<registry, acl, inbox, timer, heard, churn>>

\* Up to the await of _dispatch_envelope (module PeerDelivery), in which the
\* message leaves; it never raises.
BeginCall(m) ==
    /\ call[m] = "ready"
    /\ call' = [call EXCEPT ![m] = "dispatching"]
    /\ fut' = [fut EXCEPT ![m] = "open"]
    /\ pending' = pending \cup {m}
    /\ UNCHANGED <<registry, acl, inbox, timer, heard, churn>>

\* wait_for arms its timer only now.
Dispatched(m) ==
    /\ call[m] = "dispatching"
    /\ call' = [call EXCEPT ![m] = "waiting"]
    /\ UNCHANGED <<registry, acl, inbox, pending, fut, timer, heard, churn>>

\* Mutant: the future is awaited without a timeout.
TimerNeverFires(m) ==
    /\ call[m] = "waiting" /\ fut[m] = "open" /\ timer[m] > AckTimeout
    /\ fut' = [fut EXCEPT ![m] = "timed_out"]
    /\ UNCHANGED <<registry, acl, inbox, pending, timer, call, heard, churn>>

\* The event loop cancels the future; the call finds out later.
TimerFires(m) ==
    /\ call[m] = "waiting" /\ fut[m] = "open" /\ timer[m] = AckTimeout
    /\ fut' = [fut EXCEPT ![m] = "timed_out"]
    /\ UNCHANGED <<registry, acl, inbox, pending, timer, call, heard, churn>>

\* Mutant: the timeout is passed on and the entry stays.
WakeKeepsEntry(m) ==
    /\ call[m] = "waiting" /\ fut[m] # "open"
    /\ call' = [call EXCEPT ![m] = fut[m]]
    /\ UNCHANGED <<registry, acl, inbox, pending, fut, timer, heard, churn>>

\* The call goes on once its future is done: it returns, or raises what the
\* NACK, the timeout or the cancellation left in it.
Wake(m) ==
    /\ call[m] = "waiting" /\ fut[m] # "open"
    /\ call' = [call EXCEPT ![m] = fut[m]]
    /\ pending' = IF fut[m] = "timed_out" THEN pending \ {m} ELSE pending
    /\ UNCHANGED <<registry, acl, inbox, fut, timer, heard, churn>>

\* Python 3.12: a timer that was due when the future got its result may fire
\* before the call is woken; it cancels the call, and wait_for raises TimeoutError.
TimerOvertakesAnswer(m) ==
    /\ call[m] = "waiting" /\ fut[m] \in {"acked", "nacked", "cancelled"} /\ timer[m] = AckTimeout
    /\ call' = [call EXCEPT ![m] = "timed_out"]
    /\ pending' = pending \ {m}
    /\ UNCHANGED <<registry, acl, inbox, fut, timer, heard, churn>>

Churns == churn < MaxChurn /\ churn' = churn + 1

\* The task that awaits send_message is cancelled: nothing removes the entry.
CancelCaller(m) ==
    /\ Churns /\ call[m] \in {"dispatching", "waiting"}
    /\ call' = [call EXCEPT ![m] = "abandoned"]
    /\ fut' = IF call[m] = "waiting" /\ fut[m] = "open"
              THEN [fut EXCEPT ![m] = "cancelled"] ELSE fut
    /\ UNCHANGED <<registry, acl, inbox, pending, timer, heard>>

\* stop_listening, as far as acknowledged sends are concerned.
Stop ==
    /\ Churns /\ pending # {}
    /\ fut' = [m \in Call |-> IF m \in pending /\ fut[m] = "open" THEN "cancelled" ELSE fut[m]]
    /\ pending' = {}
    /\ UNCHANGED <<registry, acl, inbox, timer, call, heard>>

-----------------------------------------------------------------------------
(* register_peer, remove_peer, the access policy, the clock *)

RegisterPeer(p) ==
    /\ Churns /\ registry' = registry \cup {p} /\ registry' # registry
    /\ UNCHANGED <<acl, inbox, sends>>

RemovePeer(p) ==
    /\ Churns /\ registry' = registry \ {p} /\ registry' # registry
    /\ UNCHANGED <<acl, inbox, sends>>

\* ACLPolicy.allow, deny, allow_all and deny_all.
SetRule(p, i, allowed) ==
    /\ Churns /\ rules' = Put(rules, <<p, i>>, allowed)
    /\ UNCHANGED <<registry, wide, inbox, sends>>

SetIntentRule(i, allowed) ==
    /\ Churns /\ wide' = Put(wide, i, allowed)
    /\ UNCHANGED <<registry, rules, inbox, sends>>

Older(age, limit) == IF age < limit THEN age + 1 ELSE limit

\* A timer that becomes due once the future is done is run after the call's
\* wake-up, which the loop has in its queue by then, and does nothing.
Tick ==
    /\ seen' = [e \in DOMAIN seen |-> Older(seen[e], Window)]
    /\ since' = [e \in Env |-> Older(since[e], Window)]
    /\ timer' = [m \in Call |-> IF call[m] = "waiting" /\ fut[m] = "open"
                              THEN Older(timer[m], AckTimeout) ELSE timer[m]]
    /\ UNCHANGED <<registry, acl, at, memory, bank, finished, answered, runs, arrivals,
                   pending, fut, call, heard, churn>>

-----------------------------------------------------------------------------
CallStep(m) == Dispatched(m) \/ TimerFires(m) \/ Wake(m) \/ TimerOvertakesAnswer(m)

Next ==
    \/ \E c \in Conn, e \in Env :
           \/ DropExpired(c, e) \/ DropDuplicate(c, e) \/ Refuse(c, e)
           \/ HandleHandshake(c, e) \/ HandleVectorSync(c, e)
           \/ HandleAck(c, e) \/ HandleNack(c, e) \/ BeginHandler(c, e)
    \/ \E c \in Conn : EndHandler(c) \/ HandlerRaises(c)
    \/ \E m \in Call : BeginCall(m) \/ CallStep(m) \/ CancelCaller(m)
    \/ Stop
    \/ \E p \in Peer : RegisterPeer(p) \/ RemovePeer(p)
    \/ \E i \in Policed, b \in BOOLEAN : SetIntentRule(i, b) \/ \E p \in Peer : SetRule(p, i, b)
    \/ Tick

Spec == Init /\ [][Next]_vars

\* Time passes, and the event loop runs every call that can go on.
Fairness == WF_vars(Tick) /\ \A m \in Call : WF_vars(CallStep(m))

FairSpec == Spec /\ Fairness
-----------------------------------------------------------------------------
(* Properties *)

Live == {m \in Call : call[m] \in {"dispatching", "waiting"}}

\* Shapes of the state of node.py and acl.py.
TypeOK ==
    /\ registry \subseteq Peer
    /\ DOMAIN rules \subseteq Peer \X Intent /\ \A x \in DOMAIN rules : rules[x] \in BOOLEAN
    /\ DOMAIN wide \subseteq Intent /\ \A i \in DOMAIN wide : wide[i] \in BOOLEAN
    /\ DOMAIN seen \subseteq Env /\ \A e \in DOMAIN seen : seen[e] \in 0..Window
    /\ at \in [Conn -> Env \cup {Idle}]
    /\ memory \subseteq Env /\ bank \subseteq Env
    /\ finished \subseteq Env /\ answered \subseteq Env
    /\ pending \subseteq Call
    /\ fut \in [Call -> {"none", "open", "acked", "nacked", "timed_out", "cancelled"}]
    /\ timer \in [Call -> 0..AckTimeout]
    /\ call \in [Call -> {"ready", "dispatching", "waiting", "abandoned",
                          "acked", "nacked", "timed_out", "cancelled"}]
    /\ heard \subseteq Call \X {"acked", "nacked"} \X BOOLEAN
    /\ runs \in [Env -> Nat] /\ since \in [Env -> 0..Window]
    /\ arrivals \in 0..MaxArrivals /\ churn \in 0..MaxChurn

\* SECURITY.md, "per-message deduplication cache (5-minute TTL window)": however
\* copies of a message are spread over connections and time, its handler is not
\* entered twice within the window, not even while the first run still awaits.
HandledOncePerWindow ==
    [][\A e \in Env : runs'[e] > runs[e] => since[e] = Window]_vars

\* A send_message call ends the way its answer says: it returns only if an ACK
\* for it was handled, raises RuntimeError only for a NACK, and never times out
\* if an answer was handled before its timer was due, be it during the dispatch.
OutcomeIsTruthful ==
    \A m \in Call :
        /\ call[m] \in {"acked", "nacked"} => \E due \in BOOLEAN : <<m, call[m], due>> \in heard
        /\ call[m] = "timed_out" => \A r \in {"acked", "nacked"} : <<m, r, FALSE>> \notin heard

\* _pending_acks holds the calls that wait, no others but those whose caller was
\* cancelled, and every call whose future an answer could still resolve.
PendingIsLive ==
    /\ \A m \in pending : m \in Live \/ call[m] = "abandoned"
    /\ \A m \in Live : fut[m] = "open" => m \in pending

\* An acknowledged send that is not abandoned ends: by its answer, by its
\* timeout, or by stop_listening.
CallsEnd == \A m \in Call : m \in Live ~> m \notin Live

\* RFC-001, section on acknowledgement: "Receiver, upon successful parsing and
\* ACL pass, emits an ACK envelope": what an auto_ack node has handled it has
\* acknowledged.
Acknowledged == AutoAck => {e \in finished : e.intent \notin {"ACK", "NACK"}} \subseteq answered
=============================================================================
