---------------------------- MODULE InboundProofs ---------------------------
(***************************************************************************)
(* Proofs about Inbound for every set of envelopes, peers, connections and *)
(* calls, every window and timeout: messages are handled once per window,  *)
(* and acknowledged sends keep their books and tell the truth.             *)
(***************************************************************************)
EXTENDS Inbound, TLAPS

-----------------------------------------------------------------------------
(* Types *)

\* A call in progress has its future, so that what it ends with is an outcome.
TypeInv == TypeOK /\ \A m \in Live : fut[m] # "none"

\* A node just constructed.
LEMMA TypeInit == Init => TypeInv
BY ClockAssumption, KnownAssumption, BoundAssumption DEF Init, TypeInv, TypeOK, Live

\* What every frame does before it gets to a handler, or is dropped.
LEMMA ArrivalType ==
    ASSUME TypeInv, NEW c \in Conn, NEW e \in Env, Arrives(c, e)
    PROVE  arrivals' \in 0..MaxArrivals
BY BoundAssumption DEF TypeInv, TypeOK, Arrives

LEMMA FreshType ==
    ASSUME TypeInv
    PROVE  /\ DOMAIN Fresh \subseteq Env
           /\ \A e \in DOMAIN Fresh : e \in DOMAIN seen /\ Fresh[e] = seen[e] /\ Fresh[e] \in 0..Window
BY DEF TypeInv, TypeOK, Fresh

LEMMA AdmitsType ==
    ASSUME TypeInv, NEW e \in Env, NEW ok, Admits(e, ok)
    PROVE  DOMAIN seen' \subseteq Env /\ \A d \in DOMAIN seen' : seen'[d] \in 0..Window
<1>1. 0 \in 0..Window
  BY ClockAssumption
<1>2. DOMAIN seen' = DOMAIN Fresh \cup {e}
  BY DEF Admits, Put
<1>3. \A d \in DOMAIN seen' : seen'[d] = IF d = e THEN 0 ELSE Fresh[d]
  BY DEF Admits, Put
<1> HIDE DEF Admits
<1> QED BY <1>1, <1>2, <1>3, FreshType

LEMMA EntersType ==
    ASSUME TypeInv, NEW c \in Conn, NEW e \in Env, Enters(c, e)
    PROVE  /\ arrivals' \in 0..MaxArrivals
           /\ DOMAIN seen' \subseteq Env /\ \A d \in DOMAIN seen' : seen'[d] \in 0..Window
           /\ runs' \in [Env -> Nat] /\ since' \in [Env -> 0..Window]
<1>1. arrivals' \in 0..MaxArrivals
  BY ArrivalType DEF Enters
<1>2. DOMAIN seen' \subseteq Env /\ \A d \in DOMAIN seen' : seen'[d] \in 0..Window
  BY AdmitsType DEF Enters
<1>3. runs' \in [Env -> Nat] /\ since' \in [Env -> 0..Window]
  BY ClockAssumption DEF Enters, TypeInv, TypeOK
<1> QED BY <1>1, <1>2, <1>3

LEMMA AnsweredType ==
    ASSUME TypeInv, NEW e \in Env
    PROVE  Answered(e) \subseteq Env
BY DEF TypeInv, TypeOK, Answered

\* Every handler, timer and application call keeps the shapes.
LEMMA TypeStep == TypeInv /\ [Next]_vars => TypeInv'
<1> SUFFICES ASSUME TypeInv, [Next]_vars PROVE TypeInv'
  OBVIOUS
<1> USE DEF TypeInv, TypeOK, Live
<1>1. ASSUME NEW c \in Conn, NEW e \in Env, DropExpired(c, e) PROVE TypeInv'
  BY <1>1, ArrivalType DEF DropExpired, acl, sends
<1>2. ASSUME NEW c \in Conn, NEW e \in Env, DropDuplicate(c, e) PROVE TypeInv'
  BY <1>2, ArrivalType, FreshType DEF DropDuplicate, acl, sends
<1>3. ASSUME NEW c \in Conn, NEW e \in Env, Refuse(c, e) PROVE TypeInv'
  BY <1>3, ArrivalType, AdmitsType, AnsweredType DEF Refuse, acl, sends
<1>4. ASSUME NEW c \in Conn, NEW e \in Env, HandleHandshake(c, e) PROVE TypeInv'
  <2>1. registry' \subseteq Peer
    BY <1>4, EnvAssumption DEF HandleHandshake
  <2> QED BY <1>4, <2>1, EntersType, AnsweredType DEF HandleHandshake, Returns, acl, sends
<1>5. ASSUME NEW c \in Conn, NEW e \in Env, HandleVectorSync(c, e) PROVE TypeInv'
  BY <1>5, EntersType, AnsweredType DEF HandleVectorSync, Returns, acl, sends
<1>6. ASSUME NEW c \in Conn, NEW e \in Env, HandleAck(c, e) \/ HandleNack(c, e) PROVE TypeInv'
  <2>1. PICK i \in {"ACK", "NACK"}, r \in {"acked", "nacked"} : HandleAnswer(c, e, i, r)
    BY <1>6 DEF HandleAck, HandleNack
  <2>2. pending' \subseteq Call /\ fut' \in [Call -> {"none", "open", "acked", "nacked", "timed_out", "cancelled"}]
    BY <2>1 DEF HandleAnswer, Resolve
  <2>3. \A m \in Live : fut'[m] # "none"
    BY <2>1 DEF HandleAnswer, Resolve
  <2>4. heard' \subseteq Call \X {"acked", "nacked"} \X BOOLEAN
    <3>1. ASSUME e.ref \in Call, NEW b \in BOOLEAN
          PROVE  <<e.ref, r, b>> \in Call \X {"acked", "nacked"} \X BOOLEAN
      BY <3>1
    <3>2. (timer[e.ref] = AckTimeout) \in BOOLEAN
      OBVIOUS
    <3> QED BY <2>1, <3>1, <3>2 DEF HandleAnswer
  <2> QED BY <2>1, <2>2, <2>3, <2>4, EntersType, AnsweredType DEF HandleAnswer, Returns, acl
<1>7. ASSUME NEW c \in Conn, NEW e \in Env, BeginHandler(c, e) PROVE TypeInv'
  BY <1>7, EntersType DEF BeginHandler, acl, sends
<1>8. ASSUME NEW c \in Conn, EndHandler(c) PROVE TypeInv'
  <2>1. at[c] \in Env
    BY <1>8 DEF EndHandler
  <2>2. answered' \subseteq Env
    BY <1>8, <2>1, AnsweredType DEF EndHandler
  <2> QED BY <1>8, <2>1, <2>2 DEF EndHandler, acl, sends
<1>9. ASSUME NEW c \in Conn, HandlerRaises(c) PROVE TypeInv'
  <2>1. at[c] \in Env
    BY <1>9 DEF HandlerRaises
  <2>2. answered' \subseteq Env
    BY <1>9, <2>1, AnsweredType DEF HandlerRaises
  <2> QED BY <1>9, <2>2 DEF HandlerRaises, acl, sends
<1>10. ASSUME NEW m \in Call, BeginCall(m) PROVE TypeInv'
  BY <1>10 DEF BeginCall, inbox, acl
<1>11. ASSUME NEW m \in Call, CallStep(m) PROVE TypeInv'
  BY <1>11 DEF CallStep, Dispatched, TimerFires, Wake, TimerOvertakesAnswer, inbox, acl
<1>12. ASSUME NEW m \in Call, CancelCaller(m) PROVE TypeInv'
  BY <1>12, BoundAssumption DEF CancelCaller, Churns, inbox, acl
<1>13. ASSUME Stop PROVE TypeInv'
  BY <1>13, BoundAssumption DEF Stop, Churns, inbox, acl
<1>14. ASSUME NEW p \in Peer, RegisterPeer(p) \/ RemovePeer(p) PROVE TypeInv'
  BY <1>14, BoundAssumption DEF RegisterPeer, RemovePeer, Churns, inbox, sends, acl
<1>15. ASSUME NEW i \in Policed, NEW b \in BOOLEAN, SetIntentRule(i, b) PROVE TypeInv'
  BY <1>15, BoundAssumption, PolicedAssumption DEF SetIntentRule, Churns, Put, inbox, sends
<1>16. ASSUME NEW i \in Policed, NEW b \in BOOLEAN, NEW p \in Peer, SetRule(p, i, b) PROVE TypeInv'
  BY <1>16, BoundAssumption, PolicedAssumption DEF SetRule, Churns, Put, inbox, sends
<1>17. ASSUME Tick PROVE TypeInv'
  BY <1>17, ClockAssumption DEF Tick, Older, acl
<1>18. CASE UNCHANGED vars
  BY <1>18 DEF vars, inbox, sends, acl
<1> QED
  BY <1>1, <1>2, <1>3, <1>4, <1>5, <1>6, <1>7, <1>8, <1>9, <1>10, <1>11, <1>12, <1>13,
     <1>14, <1>15, <1>16, <1>17, <1>18 DEF Next

\* The state of the pipeline and of the calls keeps its types.
THEOREM InboundTypeOK == Spec => []TypeOK
<1>1. TypeInv => TypeOK
  BY DEF TypeInv
<1> QED BY <1>1, TypeInit, TypeStep, PTL DEF Spec

-----------------------------------------------------------------------------
(* The duplicate cache *)

\* What was handled less than a window ago is remembered, and not as older than
\* that.  (It may be remembered as younger: a copy that was refused after the
\* first entry had expired is marked as well.)
Remembered == \A e \in Env : since[e] < Window => e \in DOMAIN seen /\ seen[e] <= since[e]

LEMMA RememberedInit == Init => Remembered
BY ClockAssumption DEF Init, Remembered

\* The clean-up forgets nothing that was handled within the window.
LEMMA FreshRemembers ==
    ASSUME TypeInv, Remembered
    PROVE  \A e \in Env : since[e] < Window => e \in DOMAIN Fresh /\ Fresh[e] <= since[e]
<1> SUFFICES ASSUME NEW e \in Env, since[e] < Window
             PROVE  e \in DOMAIN Fresh /\ Fresh[e] <= since[e]
  OBVIOUS
<1>1. e \in DOMAIN seen /\ seen[e] <= since[e] /\ seen[e] < Window
  BY ClockAssumption DEF Remembered, TypeInv, TypeOK
<1> QED BY <1>1 DEF Fresh

\* Marking a message makes no other one older.
LEMMA AdmitsRemembers ==
    ASSUME TypeInv, Remembered, NEW e \in Env, NEW ok, Admits(e, ok)
    PROVE  /\ \A d \in Env : d # e /\ since[d] < Window => d \in DOMAIN seen' /\ seen'[d] <= since[d]
           /\ e \in DOMAIN seen' /\ seen'[e] = 0
<1>1. DOMAIN seen' = DOMAIN Fresh \cup {e}
  BY DEF Admits, Put
<1>2. \A d \in DOMAIN seen' : seen'[d] = IF d = e THEN 0 ELSE Fresh[d]
  BY DEF Admits, Put
<1> QED BY <1>1, <1>2, FreshRemembers

\* No step forgets a message too early.
LEMMA RememberedStep == TypeInv /\ Remembered /\ [Next]_vars => Remembered'
<1> SUFFICES ASSUME TypeInv, Remembered, [Next]_vars PROVE Remembered'
  OBVIOUS
<1> USE DEF Remembered
<1>t. \A e \in Env : since[e] \in 0..Window
  BY DEF TypeInv, TypeOK
<1>1. CASE UNCHANGED <<seen, since>>
  BY <1>1
<1>2. ASSUME NEW c \in Conn, NEW e \in Env, DropDuplicate(c, e) PROVE Remembered'
  BY <1>2, FreshRemembers DEF DropDuplicate
<1>3. ASSUME NEW c \in Conn, NEW e \in Env, Refuse(c, e) PROVE Remembered'
  <2>1. since' = since /\ Admits(e, FALSE)
    BY <1>3 DEF Refuse
  <2>2. /\ \A d \in Env : d # e /\ since[d] < Window => d \in DOMAIN seen' /\ seen'[d] <= since[d]
        /\ e \in DOMAIN seen' /\ seen'[e] = 0
    BY <2>1, AdmitsRemembers
  <2> QED BY <2>1, <2>2, <1>t, ClockAssumption
<1>4. ASSUME NEW c \in Conn, NEW e \in Env, Enters(c, e) PROVE Remembered'
  <2>1. Admits(e, TRUE) /\ since'[e] = 0 /\ \A d \in Env : d # e => since'[d] = since[d]
    BY <1>4 DEF Enters, TypeInv, TypeOK
  <2>2. /\ \A d \in Env : d # e /\ since[d] < Window => d \in DOMAIN seen' /\ seen'[d] <= since[d]
        /\ e \in DOMAIN seen' /\ seen'[e] = 0
    BY <2>1, AdmitsRemembers
  <2> QED BY <2>1, <2>2, ClockAssumption
<1>5. CASE Tick
  <2> SUFFICES ASSUME NEW e \in Env, since'[e] < Window
               PROVE  e \in DOMAIN seen' /\ seen'[e] <= since'[e]
    OBVIOUS
  <2>1. since[e] < Window /\ since'[e] = since[e] + 1
    BY <1>5, <1>t, ClockAssumption DEF Tick, Older
  <2>2. e \in DOMAIN seen /\ seen[e] <= since[e] /\ seen[e] \in 0..Window
    BY <2>1 DEF TypeInv, TypeOK
  <2>3. DOMAIN seen' = DOMAIN seen /\ seen'[e] = Older(seen[e], Window)
    BY <1>5, <2>2 DEF Tick
  <2> QED BY <2>1, <2>2, <2>3, <1>t, ClockAssumption DEF Older
<1>6. ASSUME NEW c \in Conn, NEW e \in Env, DropExpired(c, e) PROVE UNCHANGED <<seen, since>>
  BY <1>6 DEF DropExpired
<1>7. ASSUME NEW c \in Conn, NEW e \in Env,
             HandleHandshake(c, e) \/ HandleVectorSync(c, e) \/ HandleAck(c, e)
                 \/ HandleNack(c, e) \/ BeginHandler(c, e)
      PROVE  Enters(c, e)
  BY <1>7 DEF HandleHandshake, HandleVectorSync, HandleAck, HandleNack, HandleAnswer, BeginHandler
<1>8. ASSUME NEW c \in Conn, EndHandler(c) \/ HandlerRaises(c) PROVE UNCHANGED <<seen, since>>
  BY <1>8 DEF EndHandler, HandlerRaises
<1>9. ASSUME NEW m \in Call, BeginCall(m) \/ CallStep(m) \/ CancelCaller(m) PROVE UNCHANGED <<seen, since>>
  BY <1>9 DEF BeginCall, CallStep, Dispatched, TimerFires, Wake, TimerOvertakesAnswer, CancelCaller, inbox
<1>10. ASSUME Stop PROVE UNCHANGED <<seen, since>>
  BY <1>10 DEF Stop, inbox
<1>11. ASSUME NEW p \in Peer, RegisterPeer(p) \/ RemovePeer(p) PROVE UNCHANGED <<seen, since>>
  BY <1>11 DEF RegisterPeer, RemovePeer, inbox
<1>12. ASSUME NEW i, NEW b, SetIntentRule(i, b) \/ \E p \in Peer : SetRule(p, i, b)
       PROVE  UNCHANGED <<seen, since>>
  BY <1>12 DEF SetIntentRule, SetRule, inbox
<1>13. CASE UNCHANGED vars
  BY <1>13, <1>1 DEF vars, inbox
<1> QED
  BY <1>1, <1>2, <1>3, <1>4, <1>5, <1>6, <1>7, <1>8, <1>9, <1>10, <1>11, <1>12, <1>13 DEF Next

\* A message enters its handler only through the cache.
LEMMA OncePerWindowStep ==
    TypeInv /\ Remembered /\ [Next]_vars => \A e \in Env : runs'[e] > runs[e] => since[e] = Window
<1> SUFFICES ASSUME TypeInv, Remembered, [Next]_vars, NEW d \in Env, runs'[d] > runs[d]
             PROVE  since[d] = Window
  OBVIOUS
<1>t. since[d] \in 0..Window /\ runs[d] \in Nat
  BY DEF TypeInv, TypeOK
<1>1. PICK c \in Conn, e \in Env : Enters(c, e)
  <2>1. ~(runs' = runs)
    BY <1>t
  <2> QED
    BY <2>1 DEF Next, DropExpired, DropDuplicate, Refuse, HandleHandshake, HandleVectorSync, HandleAck,
       HandleNack, HandleAnswer, BeginHandler, EndHandler, HandlerRaises, BeginCall, CallStep, Dispatched,
       TimerFires, Wake, TimerOvertakesAnswer, CancelCaller, Stop, RegisterPeer, RemovePeer, SetIntentRule,
       SetRule, Tick, vars, inbox
<1>2. d = e
  BY <1>1, <1>t DEF Enters, TypeInv, TypeOK
<1>3. e \notin DOMAIN Fresh
  BY <1>1 DEF Enters, Admits
<1> QED BY <1>2, <1>3, <1>t, FreshRemembers, ClockAssumption

\* However copies of a message arrive, its handler is not entered twice within
\* the window of the duplicate cache (node.py 334-347).
THEOREM InboundHandledOncePerWindow == Spec => HandledOncePerWindow
<1>1. Init => TypeInv /\ Remembered
  BY TypeInit, RememberedInit
<1>2. TypeInv /\ Remembered /\ [Next]_vars => (TypeInv /\ Remembered)'
  BY TypeStep, RememberedStep
<1>3. TypeInv /\ Remembered /\ [Next]_vars => [\A e \in Env : runs'[e] > runs[e] => since[e] = Window]_vars
  BY OncePerWindowStep
<1> QED BY <1>1, <1>2, <1>3, PTL DEF Spec, HandledOncePerWindow

-----------------------------------------------------------------------------
(* Acknowledged sends *)

Answer == {"acked", "nacked"}
Silent(m) == \A r \in Answer, due \in BOOLEAN : <<m, r, due>> \notin heard
HeardLate(m) == \A r \in Answer : <<m, r, FALSE>> \notin heard

\* _pending_acks and the futures: an entry goes with the answer or the
\* cancellation that resolves its future, or with the call.
Books(m) ==
    /\ m \in pending => m \in Live \/ call[m] = "abandoned"
    /\ m \in Live /\ fut[m] = "open" => m \in pending
    /\ m \in Live /\ m \in pending => fut[m] \in {"open", "timed_out"}

\* What the future, the timer and the outcome say about the answers heard.
Truth(m) ==
    /\ call[m] = "ready" => Silent(m)
    /\ call[m] \in {"ready", "dispatching"} => timer[m] = 0
    /\ m \in Live /\ fut[m] = "open" => Silent(m)
    /\ fut[m] \in Answer => \E due \in BOOLEAN : <<m, fut[m], due>> \in heard
    /\ fut[m] = "timed_out" \/ timer[m] = AckTimeout => HeardLate(m)
    /\ call[m] \in Answer => \E due \in BOOLEAN : <<m, call[m], due>> \in heard
    /\ call[m] = "timed_out" => HeardLate(m) /\ fut[m] # "open"
    /\ call[m] = "ready" => fut[m] = "none"

CallInv == \A m \in Call : Books(m) /\ Truth(m)

LEMMA CallInit == Init => CallInv
BY ClockAssumption DEF Init, CallInv, Books, Truth, Silent, HeardLate, Live, Answer

\* An answer resolves the future it is for, and is heard by no other call.
LEMMA AnswerStep ==
    ASSUME TypeInv, CallInv, NEW c \in Conn, NEW e \in Env, NEW i, NEW r \in Answer,
           HandleAnswer(c, e, i, r)
    PROVE  CallInv'
<1> SUFFICES ASSUME NEW m \in Call PROVE (Books(m) /\ Truth(m))'
  BY DEF CallInv
<1>1. Books(m) /\ Truth(m)
  BY DEF CallInv
<1>2. call' = call /\ timer' = timer /\ Live' = Live /\ pending' = pending \ {e.ref}
  BY DEF HandleAnswer, Resolve, Live
<1>3. CASE m # e.ref
  <2>1. fut'[m] = fut[m] /\ (m \in pending' <=> m \in pending)
    BY <1>2, <1>3 DEF HandleAnswer, Resolve, TypeInv, TypeOK
  <2>2. \A s \in Answer, due \in BOOLEAN : <<m, s, due>> \in heard' <=> <<m, s, due>> \in heard
    BY <1>3 DEF HandleAnswer
  <2> QED BY <1>1, <1>2, <2>1, <2>2 DEF Books, Truth, Silent, HeardLate, Answer
<1>4. CASE m = e.ref /\ fut[m] = "open"
  <2>1. call[m] # "ready" /\ call[m] # "timed_out"
    BY <1>1, <1>4 DEF Truth
  <2>2. heard' = heard \cup {<<m, r, timer[m] = AckTimeout>>}
    BY <1>4 DEF HandleAnswer
  <2>3. fut'[m] = IF m \in pending THEN r ELSE "open"
    BY <1>4 DEF HandleAnswer, Resolve, TypeInv, TypeOK
  <2>4. m \in Live => m \in pending
    BY <1>1, <1>4 DEF Books
  <2>5. Books(m)'
    BY <1>2, <1>4, <2>3, <2>4 DEF Books, Answer
  <2>6. timer[m] = AckTimeout => HeardLate(m)'
    BY <1>1, <2>2 DEF Truth, HeardLate
  <2>7. \A s \in Answer, due \in BOOLEAN : <<m, s, due>> \in heard => <<m, s, due>> \in heard'
    BY <2>2
  <2>8. \E due \in BOOLEAN : <<m, r, due>> \in heard'
    BY <2>2
  <2>9. r # "open" /\ r # "timed_out" /\ r # "none"
    BY DEF Answer
  <2> QED BY <1>1, <1>2, <1>4, <2>1, <2>3, <2>4, <2>5, <2>6, <2>7, <2>8, <2>9 DEF Truth
<1>5. CASE m = e.ref /\ fut[m] # "open"
  <2>1. heard' = heard /\ fut'[m] = fut[m] /\ m \notin pending'
    BY <1>2, <1>5 DEF HandleAnswer, Resolve
  <2> QED BY <1>1, <1>2, <1>5, <2>1 DEF Books, Truth, Silent, HeardLate
<1> QED BY <1>3, <1>4, <1>5

\* A step of call k changes nothing for another call.
LEMMA OtherCall ==
    ASSUME TypeInv, NEW m \in Call, Books(m), Truth(m),
           fut'[m] = fut[m], timer'[m] = timer[m], call'[m] = call[m], heard' = heard,
           m \in pending' <=> m \in pending
    PROVE  (Books(m) /\ Truth(m))'
BY DEF Books, Truth, Silent, HeardLate, Live

\* send_message's own steps.
LEMMA CallerStep ==
    ASSUME TypeInv, CallInv, NEW k \in Call, BeginCall(k) \/ CallStep(k) \/ CancelCaller(k)
    PROVE  CallInv'
<1> SUFFICES ASSUME NEW m \in Call PROVE (Books(m) /\ Truth(m))'
  BY DEF CallInv
<1>1. Books(m) /\ Truth(m)
  BY DEF CallInv
<1>2. heard' = heard /\ timer' = timer
  BY DEF BeginCall, CallStep, Dispatched, TimerFires, Wake, TimerOvertakesAnswer, CancelCaller
<1>3. CASE m # k
  <2>1. fut'[m] = fut[m] /\ call'[m] = call[m] /\ (m \in pending' <=> m \in pending)
    BY <1>3 DEF BeginCall, CallStep, Dispatched, TimerFires, Wake, TimerOvertakesAnswer, CancelCaller,
       TypeInv, TypeOK
  <2> QED BY <1>1, <1>2, <2>1, OtherCall
<1> USE DEF Books, Truth, Silent, HeardLate, Live, TypeInv, TypeOK
<1>4. CASE m = k /\ BeginCall(k)
  BY <1>1, <1>2, <1>4, ClockAssumption DEF BeginCall, Answer
<1>5. CASE m = k /\ Dispatched(k)
  BY <1>1, <1>2, <1>5, ClockAssumption DEF Dispatched, Answer
<1>6. CASE m = k /\ TimerFires(k)
  BY <1>1, <1>2, <1>6 DEF TimerFires, Answer
<1>7. CASE m = k /\ Wake(k)
  BY <1>1, <1>2, <1>7 DEF Wake, Answer
<1>8. CASE m = k /\ TimerOvertakesAnswer(k)
  BY <1>1, <1>2, <1>8 DEF TimerOvertakesAnswer, Answer
<1>9. CASE m = k /\ CancelCaller(k)
  BY <1>1, <1>2, <1>9 DEF CancelCaller, Answer
<1> QED BY <1>3, <1>4, <1>5, <1>6, <1>7, <1>8, <1>9 DEF CallStep

\* stop_listening resolves what it takes out of the dictionary.
LEMMA StopStep == ASSUME TypeInv, CallInv, Stop PROVE CallInv'
<1> SUFFICES ASSUME NEW m \in Call PROVE (Books(m) /\ Truth(m))'
  BY DEF CallInv
<1>1. Books(m) /\ Truth(m)
  BY DEF CallInv
<1>2. /\ pending' = {} /\ timer' = timer /\ call' = call /\ heard' = heard
      /\ fut'[m] = IF m \in pending /\ fut[m] = "open" THEN "cancelled" ELSE fut[m]
  BY DEF Stop
<1> QED BY <1>1, <1>2 DEF Books, Truth, Silent, HeardLate, Live, Answer

\* A timer runs only for a call that has heard nothing.
LEMMA ClockStep == ASSUME TypeInv, CallInv, Tick PROVE CallInv'
<1> SUFFICES ASSUME NEW m \in Call PROVE (Books(m) /\ Truth(m))'
  BY DEF CallInv
<1>1. Books(m) /\ Truth(m)
  BY DEF CallInv
<1>2. pending' = pending /\ fut' = fut /\ call' = call /\ heard' = heard
  BY DEF Tick
<1>3. CASE call[m] = "waiting" /\ fut[m] = "open"
  <2>1. Silent(m)
    BY <1>1, <1>3 DEF Truth, Live
  <2>2. HeardLate(m)
    BY <2>1 DEF Silent, HeardLate
  <2> QED BY <1>1, <1>2, <1>3, <2>1, <2>2 DEF Books, Truth, Silent, HeardLate, Live, Answer
<1>4. CASE ~(call[m] = "waiting" /\ fut[m] = "open")
  <2>1. timer'[m] = timer[m]
    BY <1>4 DEF Tick
  <2> QED BY <1>1, <1>2, <2>1, OtherCall
<1> QED BY <1>3, <1>4

\* Everything else leaves the calls alone.
LEMMA CallInvStep == TypeInv /\ CallInv /\ [Next]_vars => CallInv'
<1> SUFFICES ASSUME TypeInv, CallInv, [Next]_vars PROVE CallInv'
  OBVIOUS
<1>1. CASE UNCHANGED sends
  BY <1>1 DEF sends, CallInv, Books, Truth, Silent, HeardLate, Live
<1>2. ASSUME NEW c \in Conn, NEW e \in Env, HandleAck(c, e) PROVE CallInv'
  <2>1. "acked" \in Answer
    BY DEF Answer
  <2> QED BY <1>2, <2>1, AnswerStep DEF HandleAck
<1>3. ASSUME NEW c \in Conn, NEW e \in Env, HandleNack(c, e) PROVE CallInv'
  <2>1. "nacked" \in Answer
    BY DEF Answer
  <2> QED BY <1>3, <2>1, AnswerStep DEF HandleNack
<1>4. ASSUME NEW c \in Conn, NEW e \in Env,
             \/ DropExpired(c, e) \/ DropDuplicate(c, e) \/ Refuse(c, e)
             \/ HandleHandshake(c, e) \/ HandleVectorSync(c, e) \/ BeginHandler(c, e)
      PROVE  UNCHANGED sends
  BY <1>4 DEF DropExpired, DropDuplicate, Refuse, HandleHandshake, HandleVectorSync, BeginHandler
<1>5. ASSUME NEW c \in Conn, EndHandler(c) \/ HandlerRaises(c) PROVE UNCHANGED sends
  BY <1>5 DEF EndHandler, HandlerRaises
<1>6. ASSUME NEW p \in Peer, RegisterPeer(p) \/ RemovePeer(p) PROVE UNCHANGED sends
  BY <1>6 DEF RegisterPeer, RemovePeer
<1>7. ASSUME NEW i, NEW b, SetIntentRule(i, b) \/ \E p \in Peer : SetRule(p, i, b)
      PROVE  UNCHANGED sends
  BY <1>7 DEF SetIntentRule, SetRule
<1>8. CASE UNCHANGED vars
  BY <1>1, <1>8 DEF vars
<1> QED
  BY <1>1, <1>2, <1>3, <1>4, <1>5, <1>6, <1>7, <1>8, CallerStep, StopStep, ClockStep DEF Next

\* Always: the types, and what the calls and their answers have to do with
\* each other.
LEMMA CallInvariance == Spec => [](TypeInv /\ CallInv)
<1>1. Init => TypeInv /\ CallInv
  BY TypeInit, CallInit
<1>2. TypeInv /\ CallInv /\ [Next]_vars => (TypeInv /\ CallInv)'
  BY TypeStep, CallInvStep
<1> QED BY <1>1, <1>2, PTL DEF Spec

\* _pending_acks holds exactly the calls an answer can still reach, and besides
\* at most those whose caller was cancelled (node.py 536-547).
THEOREM InboundPendingIsLive == Spec => []PendingIsLive
<1>1. TypeInv /\ CallInv => PendingIsLive
  BY DEF TypeInv, TypeOK, CallInv, Books, PendingIsLive, Live
<1> QED BY <1>1, CallInvariance, PTL

\* A call returns only for an ACK, raises RuntimeError only for a NACK, and
\* times out only if no answer came in time (node.py 460-473, 542-549).
THEOREM InboundOutcomeIsTruthful == Spec => []OutcomeIsTruthful
<1>1. TypeInv /\ CallInv => OutcomeIsTruthful
  BY DEF CallInv, Truth, HeardLate, Answer, OutcomeIsTruthful
<1> QED BY <1>1, CallInvariance, PTL
=============================================================================
