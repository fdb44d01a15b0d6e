----------------------------- MODULE RelayProofs -----------------------------
(***************************************************************************)
(* Proofs about Relay for every set of agents, messages and sessions: the  *)
(* relay's dictionaries, who stays registered, and that a forwarded        *)
(* message arrives at most once.                                           *)
(***************************************************************************)
EXTENDS Relay, SequenceTheorems, FiniteSetTheorems, TLAPS

-----------------------------------------------------------------------------
(* Sessions and frames *)

LEMMA SessionFacts ==
    /\ \A c \in Session : Owner(c) \in Agent /\ c \in SessionsOf(Owner(c))
    /\ \A a \in Agent : \A c \in SessionsOf(a) : c \in Session /\ Owner(c) = a
BY DEF Session, Owner, SessionsOf

LEMMA FrameFacts ==
    /\ \A m \in Msg : m \notin {"hello", "answer", "challenge", "registered"}
    /\ None \notin Msg /\ None \notin Session
BY FrameAssumption, NoneAssumption

\* The frame f is in the queue q; it is there once at most.
Has(q, f) == \E i \in DOMAIN q : q[i] = f
Once(q, f) == \A i, j \in DOMAIN q : q[i] = f /\ q[j] = f => i = j

LEMMA AppendFrame ==
    ASSUME NEW S, NEW q \in Seq(S), NEW f \in S, NEW x
    PROVE  /\ Append(q, f) \in Seq(S)
           /\ Has(Append(q, f), x) <=> Has(q, x) \/ x = f
           /\ Once(q, x) /\ (x # f \/ ~Has(q, x)) => Once(Append(q, f), x)
<1> DEFINE a == Append(q, f)
<1>1. /\ a \in Seq(S) /\ Len(a) = Len(q) + 1 /\ a[Len(q) + 1] = f
      /\ \A i \in 1..Len(q) : a[i] = q[i]
  BY AppendProperties
<1>2. DOMAIN a = 1..(Len(q) + 1) /\ DOMAIN q = 1..Len(q) /\ Len(q) \in Nat
  BY <1>1, LenProperties
<1> HIDE DEF a
<1>3. \A i \in DOMAIN a : i = Len(q) + 1 \/ (i \in DOMAIN q /\ a[i] = q[i])
  BY <1>1, <1>2
<1>4. Has(a, x) => Has(q, x) \/ x = f
  BY <1>1, <1>3 DEF Has
<1>5. Has(q, x) \/ x = f => Has(a, x)
  BY <1>1, <1>2 DEF Has
<1>6. Once(q, x) /\ (x # f \/ ~Has(q, x)) => Once(a, x)
  BY <1>1, <1>3 DEF Once, Has
<1> QED BY <1>1, <1>4, <1>5, <1>6 DEF a

LEMMA TailFrame ==
    ASSUME NEW S, NEW q \in Seq(S), q # <<>>, NEW x
    PROVE  /\ Tail(q) \in Seq(S) /\ Head(q) \in S /\ Has(q, Head(q))
           /\ Has(Tail(q), x) => Has(q, x)
           /\ Once(q, x) => Once(Tail(q), x)
           /\ Once(q, x) /\ x = Head(q) => ~Has(Tail(q), x)
<1> DEFINE t == Tail(q)
<1>1. /\ t \in Seq(S) /\ Len(t) = Len(q) - 1 /\ Head(q) \in S
      /\ \A i \in 1..Len(t) : t[i] = q[i + 1]
  BY HeadTailProperties
<1>2. /\ DOMAIN t = 1..(Len(q) - 1) /\ DOMAIN q = 1..Len(q) /\ Len(q) \in Nat \ {0}
      /\ Head(q) = q[1]
  BY <1>1, LenProperties, EmptySeq
<1> HIDE DEF t
<1>3. \A i \in DOMAIN t : i \in Int /\ i + 1 \in DOMAIN q /\ i + 1 # 1 /\ t[i] = q[i + 1]
  BY <1>1, <1>2
<1>4. 1 \in DOMAIN q
  BY <1>2
<1>5. Has(q, Head(q))
  BY <1>2, <1>4 DEF Has
<1>6. Has(t, x) => Has(q, x)
  BY <1>3 DEF Has
<1>7. Once(q, x) => Once(t, x)
  BY <1>3 DEF Once
<1>8. Once(q, x) /\ x = Head(q) => ~Has(t, x)
  BY <1>2, <1>3, <1>4 DEF Once, Has
<1> QED BY <1>1, <1>5, <1>6, <1>7, <1>8 DEF t

LEMMA ShortQueue ==
    /\ \A x : ~Has(<<>>, x) /\ Once(<<>>, x)
    /\ \A f, x : (Has(<<f>>, x) <=> x = f) /\ Once(<<f>>, x)
BY DEF Has, Once

-----------------------------------------------------------------------------
(* Types *)

HandlerType ==
    [at : {"reading", "challenging", "forwarding"}, msg : Msg \cup {None},
     to : SUBSET (Agent \X Session), todo : SUBSET (Agent \X Session), stale : Seq(Agent)]

\* TypeOK with the shape of a coroutine's state, and that a message is at hand
\* while one is being forwarded.
Shapes ==
    /\ TypeOK
    /\ handler \in [Session -> HandlerType]
    /\ \A c \in Session : handler[c].at = "forwarding" => handler[c].msg \in Msg
    /\ mail \in [Msg -> [from : Agent, to : Agent \cup {All}]]
    /\ prompt \in BOOLEAN

RelayFrame == {"hello", "answer"} \cup Msg

LEMMA HandlerFacts ==
    /\ Reading \in HandlerType
    /\ \A h \in HandlerType : /\ h.at \in {"reading", "challenging", "forwarding"}
                              /\ h.msg \in Msg \cup {None}
                              /\ h.to \cup h.todo \subseteq Agent \X Session
                              /\ h.stale \in Seq(Agent)
BY DEF Reading, HandlerType

LEMMA ReadsType ==
    ASSUME Shapes, NEW c \in Session, NEW f, Reads(c, f)
    PROVE  /\ toRelay' \in [Session -> Seq(RelayFrame)] /\ f \in RelayFrame
           /\ toRelay'[c] = Tail(toRelay[c]) /\ f = Head(toRelay[c])
           /\ toRelay[c] \in Seq(RelayFrame) /\ toRelay[c] # <<>>
           /\ \A e \in Session \ {c} : toRelay'[e] = toRelay[e]
<1>1. toRelay \in [Session -> Seq(RelayFrame)] /\ toRelay[c] # <<>> /\ f = Head(toRelay[c])
  BY DEF Shapes, TypeOK, Reads, RelayFrame
<1>2. Tail(toRelay[c]) \in Seq(RelayFrame) /\ Head(toRelay[c]) \in RelayFrame
  BY <1>1, HeadTailProperties
<1>3. toRelay' = [toRelay EXCEPT ![c] = Tail(toRelay[c])]
  BY DEF Reads
<1> QED BY <1>1, <1>2, <1>3

LEMMA SendsType ==
    ASSUME Shapes, NEW c \in Session, NEW f \in Frame, Sends(c, f)
    PROVE  /\ toClient' \in [Session -> Seq(Frame)]
           /\ \A e \in Session \ {c} : toClient'[e] = toClient[e]
           /\ toClient'[c] = IF conn[c] = "up" THEN Append(toClient[c], f) ELSE toClient[c]
<1>1. toClient \in [Session -> Seq(Frame)] /\ Append(toClient[c], f) \in Seq(Frame)
  BY AppendProperties DEF Shapes, TypeOK
<1> QED BY <1>1 DEF Sends

LEMMA ProceedType ==
    ASSUME Shapes, NEW c \in Session, NEW m \in Msg, NEW todo \in SUBSET (Agent \X Session),
           NEW stale \in Seq(Agent), Proceed(c, m, todo, stale)
    PROVE  /\ registry' \in [Agent -> Session \cup {None}]
           /\ handler' \in [Session -> HandlerType]
           /\ \A d \in Session : handler'[d].at = "forwarding" => handler'[d].msg \in Msg
           /\ toClient' \in [Session -> Seq(Frame)]
<1>0. handler \in [Session -> HandlerType] /\ registry \in [Agent -> Session \cup {None}]
  BY DEF Shapes, TypeOK
<1>1. CASE todo = {}
  <2>1. registry' \in [Agent -> Session \cup {None}]
    BY <1>0, <1>1 DEF Proceed, Deregister
  <2>2. handler' = [handler EXCEPT ![c] = Reading] /\ toClient' = toClient
    BY <1>1 DEF Proceed
  <2>3. handler' \in [Session -> HandlerType] /\ \A d \in Session : handler'[d] = handler[d] \/ handler'[d] = Reading
    BY <1>0, <2>2, HandlerFacts
  <2>4. \A d \in Session : handler'[d].at = "forwarding" => handler'[d].msg \in Msg
    BY <2>3 DEF Reading, Shapes
  <2> QED BY <2>1, <2>2, <2>3, <2>4 DEF Shapes, TypeOK
<1>2. CASE todo # {}
  <2>1. PICK p \in todo :
            /\ handler' = [handler EXCEPT ![c] = [at |-> "forwarding", msg |-> m, to |-> {p},
                                                  todo |-> todo \ {p}, stale |-> stale]]
            /\ Sends(p[2], m) /\ UNCHANGED registry
    BY <1>2 DEF Proceed
  <2> DEFINE h == [at |-> "forwarding", msg |-> m, to |-> {p}, todo |-> todo \ {p}, stale |-> stale]
  <2>2. p \in Agent \X Session /\ p[2] \in Session
    OBVIOUS
  <2>3. h \in HandlerType /\ h.msg \in Msg
    BY <2>2 DEF HandlerType
  <2> HIDE DEF h
  <2>4. handler' \in [Session -> HandlerType] /\ \A d \in Session : handler'[d] = handler[d] \/ handler'[d] = h
    BY <1>0, <2>1, <2>3 DEF h
  <2>5. toClient' \in [Session -> Seq(Frame)]
    BY <2>1, <2>2, SendsType DEF Frame
  <2> QED BY <1>0, <2>1, <2>3, <2>4, <2>5 DEF Shapes
<1> QED BY <1>1, <1>2

\* The targets found when a message is read are registered agents.
LEMMA TargetsType ==
    ASSUME Shapes, NEW m \in Msg
    PROVE  Targets(m) \subseteq Agent \X Session
BY DEF Shapes, TypeOK, Targets

LEMMA TypeInit == Init => Shapes
<1> SUFFICES ASSUME Init PROVE Shapes
  OBVIOUS
<1>1. handler \in [Session -> HandlerType] /\ \A c \in Session : handler[c] = Reading
  BY HandlerFacts DEF Init
<1>2. \A c \in Session : handler[c].at # "forwarding"
  BY <1>1 DEF Reading
<1>3. mail \in [Msg -> [from : Agent, to : Agent \cup {All}]] /\ prompt \in BOOLEAN
  BY AgentAssumption DEF Init
<1>4. /\ toRelay \in [Session -> Seq({"hello", "answer"} \cup Msg)] /\ toClient \in [Session -> Seq(Frame)]
      /\ registry \in [Agent -> Session \cup {None}] /\ pending \in [Agent -> Session \cup {None}]
      /\ conn \in [Session -> {"none", "up", "cut", "closed", "gone"}]
      /\ cur \in [Agent -> Session \cup {None}]
      /\ confirmed \subseteq Session /\ sent \subseteq Msg
      /\ owed \subseteq Msg \X Session \X Session /\ got \subseteq Msg \X Session
      /\ issued \in 0..Limit /\ refused \subseteq Session
  BY LimitAssumption DEF Init
<1> QED BY <1>1, <1>2, <1>3, <1>4, HandlerFacts DEF Shapes, TypeOK

\* The count of challenges stops at the limit; only a handshake can be refused.
LEMMA LimiterStep ==
    ASSUME Shapes, [Next]_vars
    PROVE  issued' \in 0..Limit /\ refused' \subseteq Session
<1>0. issued \in 0..Limit /\ refused \subseteq Session /\ Limit \in Nat
  BY LimitAssumption DEF Shapes, TypeOK
<1>1. ASSUME NEW c \in Session, ReadHello(c) \/ DropUnverified(c) \/ RefuseHello(c)
      PROVE  issued' \in 0..Limit /\ refused' \subseteq Session
  <2>1. issued' \in {issued, IF issued < Limit THEN issued + 1 ELSE issued} /\ refused' \in {refused, refused \cup {c}}
    BY <1>1 DEF ReadHello, DropUnverified, RefuseHello, Counted
  <2> QED BY <1>0, <1>1, <2>1
<1>2. ASSUME NEW c \in Session,
             \/ IgnoreHello(c) \/ ChallengeSent(c) \/ ChallengeFailed(c) \/ AnswerVerifies(c) \/ AnswerFails(c)
             \/ AnswerUnexpected(c) \/ Forward(c) \/ SendReturned(c) \/ SendRaised(c)
             \/ Throttle(c) \/ Finish(c) \/ Notice(c)
      PROVE  UNCHANGED <<issued, refused>>
  BY <1>2 DEF IgnoreHello, ChallengeSent, ChallengeFailed, AnswerVerifies, AnswerFails, AnswerUnexpected,
              Forward, SendReturned, SendRaised, Throttle, Finish, Notice, relay
<1>3. ASSUME NEW a \in Agent, AgentStep(a) \/ Lose(a) PROVE UNCHANGED <<issued, refused>>
  BY <1>3 DEF AgentStep, ClientReads, SeeClosed, Connect, Lose, relay
<1>4. ASSUME NEW m \in Msg, ClientSends(m) PROVE UNCHANGED <<issued, refused>>
  BY <1>4 DEF ClientSends, relay
<1>5. CASE UNCHANGED vars
  BY <1>0, <1>5 DEF vars
<1> QED BY <1>0, <1>1, <1>2, <1>3, <1>4, <1>5 DEF Next, HandlerStep

\* Every run of code between two awaits, of the relay or of an agent, keeps the
\* shapes.
LEMMA TypeStep == Shapes /\ [Next]_vars => Shapes'
<1> SUFFICES ASSUME Shapes, [Next]_vars PROVE Shapes'
  OBVIOUS
<1> DEFINE Mixed == /\ handler' \in [Session -> HandlerType]
                    /\ \A c \in Session : handler'[c].at = "forwarding" => handler'[c].msg \in Msg
<1>0. /\ handler \in [Session -> HandlerType] /\ registry \in [Agent -> Session \cup {None}]
      /\ pending \in [Agent -> Session \cup {None}]
      /\ conn \in [Session -> {"none", "up", "cut", "closed", "gone"}]
      /\ toRelay \in [Session -> Seq(RelayFrame)] /\ toClient \in [Session -> Seq(Frame)]
      /\ cur \in [Agent -> Session \cup {None}]
      /\ confirmed \subseteq Session /\ sent \subseteq Msg
      /\ owed \subseteq Msg \X Session \X Session /\ got \subseteq Msg \X Session
      /\ mail \in [Msg -> [from : Agent, to : Agent \cup {All}]]
  BY DEF Shapes, TypeOK, RelayFrame
<1>1. ASSUME /\ registry' \in [Agent -> Session \cup {None}] /\ pending' \in [Agent -> Session \cup {None}]
             /\ Mixed
             /\ conn' \in [Session -> {"none", "up", "cut", "closed", "gone"}]
             /\ toRelay' \in [Session -> Seq(RelayFrame)] /\ toClient' \in [Session -> Seq(Frame)]
             /\ cur' \in [Agent -> Session \cup {None}]
             /\ confirmed' \subseteq Session /\ sent' \subseteq Msg
             /\ owed' \subseteq Msg \X Session \X Session /\ got' \subseteq Msg \X Session
             /\ UNCHANGED <<mail, prompt>>
      PROVE  Shapes'
  <2>1. TypeOK'
    BY <1>1, LimiterStep, HandlerFacts DEF TypeOK, RelayFrame, Frame
  <2> QED BY <1>1, <2>1 DEF Shapes
<1>2. Mixed \/ handler' # handler
  BY DEF Shapes
<1>3. ASSUME NEW c \in Session, handler' = [handler EXCEPT ![c] = Reading] PROVE Mixed
  <2>1. handler' \in [Session -> HandlerType] /\ \A d \in Session : handler'[d] = handler[d] \/ handler'[d] = Reading
    BY <1>0, <1>3, HandlerFacts
  <2> QED BY <2>1 DEF Reading, Shapes
<1>4. ASSUME NEW c \in Session, handler' = [handler EXCEPT ![c].at = "challenging"] PROVE Mixed
  <2> DEFINE h == [handler[c] EXCEPT !.at = "challenging"]
  <2>1. h \in HandlerType /\ h.at = "challenging"
    <3>1. ASSUME NEW r \in HandlerType
          PROVE  [r EXCEPT !.at = "challenging"] \in HandlerType
      BY <3>1 DEF HandlerType
    <3>2. ASSUME NEW r \in HandlerType
          PROVE  [r EXCEPT !.at = "challenging"].at = "challenging"
      BY <3>2 DEF HandlerType
    <3>3. handler[c] \in HandlerType
      BY <1>0
    <3> QED BY <3>1, <3>2, <3>3
  <2>2. handler' = [handler EXCEPT ![c] = h]
    BY <1>0, <1>4
  <2> HIDE DEF h
  <2>3. handler' \in [Session -> HandlerType] /\ \A d \in Session : handler'[d] = handler[d] \/ handler'[d] = h
    BY <1>0, <2>1, <2>2
  <2> QED BY <2>1, <2>3 DEF Shapes
<1>5. \A old : Expire(old) \in [Agent -> Session \cup {None}]
  BY <1>0 DEF Expire
<1> HIDE DEF Mixed
<1>6. ASSUME NEW c \in Session, Throttle(c) PROVE Shapes'
  <2>1. conn' \in [Session -> {"none", "up", "cut", "closed", "gone"}] /\ toRelay' \in [Session -> Seq(RelayFrame)]
    BY <1>0, <1>6 DEF Throttle
  <2> QED BY <1>0, <1>1, <1>2, <1>6, <2>1 DEF Throttle, relay, client
<1>7. ASSUME NEW c \in Session, ReadHello(c) PROVE Shapes'
  <2>1. toRelay' \in [Session -> Seq(RelayFrame)]
    BY <1>7, ReadsType DEF ReadHello
  <2>2. toClient' \in [Session -> Seq(Frame)]
    BY <1>7, SendsType DEF ReadHello, Frame
  <2>3. pending' \in [Agent -> Session \cup {None}]
    BY <1>5, <1>7 DEF ReadHello
  <2> QED BY <1>0, <1>1, <1>4, <1>7, <2>1, <2>2, <2>3 DEF ReadHello, client
<1>8. ASSUME NEW c \in Session, IgnoreHello(c) \/ AnswerUnexpected(c) PROVE Shapes'
  <2>1. toRelay' \in [Session -> Seq(RelayFrame)]
    BY <1>8, ReadsType DEF IgnoreHello, AnswerUnexpected
  <2> QED BY <1>0, <1>1, <1>2, <1>8, <2>1 DEF IgnoreHello, AnswerUnexpected, relay, client
<1>9. ASSUME NEW c \in Session, ChallengeSent(c) \/ ChallengeFailed(c) PROVE Shapes'
  <2>1. pending' \in [Agent -> Session \cup {None}] /\ handler' = [handler EXCEPT ![c] = Reading]
    BY <1>0, <1>9 DEF ChallengeSent, ChallengeFailed
  <2> QED BY <1>0, <1>1, <1>3, <1>9, <2>1 DEF ChallengeSent, ChallengeFailed, client
<1>10. ASSUME NEW c \in Session, AnswerVerifies(c) PROVE Shapes'
  <2>1. toRelay' \in [Session -> Seq(RelayFrame)]
    BY <1>10, ReadsType DEF AnswerVerifies
  <2>2. toClient' \in [Session -> Seq(Frame)]
    BY <1>10, SendsType DEF AnswerVerifies, Frame
  <2>3. registry' \in [Agent -> Session \cup {None}] /\ pending' \in [Agent -> Session \cup {None}]
    BY <1>0, <1>10 DEF AnswerVerifies
  <2> QED BY <1>0, <1>1, <1>2, <1>10, <2>1, <2>2, <2>3 DEF AnswerVerifies, client
<1>11. ASSUME NEW c \in Session, AnswerFails(c) PROVE Shapes'
  <2>1. toRelay' \in [Session -> Seq(RelayFrame)]
    BY <1>11, ReadsType DEF AnswerFails
  <2>2. pending' \in [Agent -> Session \cup {None}] /\ conn' \in [Session -> {"none", "up", "cut", "closed", "gone"}]
    BY <1>0, <1>11 DEF AnswerFails
  <2> QED BY <1>0, <1>1, <1>2, <1>11, <2>1, <2>2 DEF AnswerFails, client
<1>12. ASSUME NEW c \in Session, DropUnverified(c) \/ RefuseHello(c) PROVE Shapes'
  <2>1. toRelay' \in [Session -> Seq(RelayFrame)]
    BY <1>12, ReadsType DEF DropUnverified, RefuseHello
  <2>2. pending' \in [Agent -> Session \cup {None}]
    BY <1>0, <1>5, <1>12 DEF DropUnverified, RefuseHello
  <2> QED BY <1>0, <1>1, <1>2, <1>12, <2>1, <2>2 DEF DropUnverified, RefuseHello, client
<1>13. ASSUME NEW c \in Session, NEW m \in Msg, NEW todo \in SUBSET (Agent \X Session), NEW stale \in Seq(Agent),
              Proceed(c, m, todo, stale), toRelay' \in [Session -> Seq(RelayFrame)],
              UNCHANGED <<pending, conn, client>>
       PROVE  Shapes'
  <2>1. registry' \in [Agent -> Session \cup {None}] /\ toClient' \in [Session -> Seq(Frame)] /\ Mixed
    BY <1>13, ProceedType DEF Mixed
  <2> QED BY <1>0, <1>1, <1>13, <2>1 DEF client
<1>14. ASSUME NEW c \in Session, Forward(c) PROVE Shapes'
  <2>1. PICK m \in Msg : Reads(c, m) /\ Proceed(c, m, Targets(m), <<>>)
    BY <1>14 DEF Forward
  <2>2. toRelay' \in [Session -> Seq(RelayFrame)] /\ Targets(m) \in SUBSET (Agent \X Session) /\ <<>> \in Seq(Agent)
    BY <2>1, ReadsType, TargetsType
  <2> QED BY <1>13, <1>14, <2>1, <2>2 DEF Forward
<1>15. ASSUME NEW c \in Session, handler[c].at = "forwarding"
       PROVE  /\ handler[c].msg \in Msg /\ handler[c].todo \in SUBSET (Agent \X Session)
              /\ handler[c].to \in SUBSET (Agent \X Session) /\ handler[c].stale \in Seq(Agent)
  <2>1. handler[c] \in HandlerType
    BY <1>0
  <2> QED BY <1>15, <2>1, HandlerFacts DEF Shapes
<1>16. ASSUME NEW c \in Session, SendReturned(c) PROVE Shapes'
  BY <1>0, <1>13, <1>15, <1>16 DEF SendReturned
<1>17. ASSUME NEW c \in Session, SendRaised(c) PROVE Shapes'
  <2>1. PICK p \in handler[c].to :
            Proceed(c, handler[c].msg, handler[c].todo, Append(handler[c].stale, p[1]))
    BY <1>17 DEF SendRaised
  <2>2. p[1] \in Agent /\ handler[c].stale \in Seq(Agent)
    BY <1>15, <1>17 DEF SendRaised
  <2>3. Append(handler[c].stale, p[1]) \in Seq(Agent)
    BY <2>2, AppendProperties
  <2> QED BY <1>0, <1>13, <1>15, <1>17, <2>1, <2>3 DEF SendRaised
<1>18. ASSUME NEW c \in Session, Finish(c) PROVE Shapes'
  <2>1. /\ registry' \in [Agent -> Session \cup {None}] /\ pending' \in [Agent -> Session \cup {None}]
        /\ conn' \in [Session -> {"none", "up", "cut", "closed", "gone"}] /\ toRelay' \in [Session -> Seq(RelayFrame)]
    BY <1>0, <1>18 DEF Finish
  <2> QED BY <1>0, <1>1, <1>2, <1>18, <2>1 DEF Finish, client
<1>19. ASSUME NEW a \in Agent, NEW c \in SessionsOf(a), Connect(a, c) PROVE Shapes'
  <2>1. c \in Session /\ <<"hello">> \in Seq(RelayFrame)
    BY SessionFacts DEF RelayFrame
  <2>2. /\ conn' \in [Session -> {"none", "up", "cut", "closed", "gone"}]
        /\ toRelay' \in [Session -> Seq(RelayFrame)] /\ cur' \in [Agent -> Session \cup {None}]
    BY <1>0, <1>19, <2>1 DEF Connect
  <2> QED BY <1>0, <1>1, <1>2, <1>19, <2>2 DEF Connect, relay
<1>20. ASSUME NEW a \in Agent, ClientReads(a) PROVE Shapes'
  <2> DEFINE c == cur[a]
  <2>1. c \in Session /\ toClient[c] \in Seq(Frame) /\ toClient[c] # <<>>
    BY <1>0, <1>20 DEF ClientReads
  <2>2. Tail(toClient[c]) \in Seq(Frame) /\ Append(toRelay[c], "answer") \in Seq(RelayFrame)
    <3>1. "answer" \in RelayFrame /\ toRelay[c] \in Seq(RelayFrame)
      BY <1>0, <2>1 DEF RelayFrame
    <3>2. Append(toRelay[c], "answer") \in Seq(RelayFrame)
      BY <3>1, AppendProperties
    <3>3. Tail(toClient[c]) \in Seq(Frame)
      BY <2>1, HeadTailProperties
    <3> QED BY <3>2, <3>3
  <2>3. toClient' \in [Session -> Seq(Frame)] /\ toRelay' \in [Session -> Seq(RelayFrame)]
    BY <1>0, <1>20, <2>1, <2>2 DEF ClientReads
  <2>4. confirmed' \subseteq Session /\ got' \subseteq Msg \X Session
    BY <1>0, <1>20, <2>1 DEF ClientReads
  <2> QED BY <1>0, <1>1, <1>2, <1>20, <2>3, <2>4 DEF ClientReads, relay
<1>21. ASSUME NEW m \in Msg, ClientSends(m) PROVE Shapes'
  <2> DEFINE c == cur[mail[m].from]
  <2>1. mail[m].from \in Agent /\ c \in Session
    BY <1>0, <1>21 DEF ClientSends
  <2>2. Append(toRelay[c], m) \in Seq(RelayFrame)
    <3>1. m \in RelayFrame /\ toRelay[c] \in Seq(RelayFrame)
      BY <1>0, <2>1 DEF RelayFrame
    <3> QED BY <3>1, AppendProperties
  <2>3. toRelay' \in [Session -> Seq(RelayFrame)] /\ sent' \subseteq Msg
    BY <1>0, <1>21, <2>1, <2>2 DEF ClientSends
  <2>4. owed' \subseteq Msg \X Session \X Session
    <3>1. \A b \in Agent : {c, cur[b]} \subseteq confirmed => <<m, c, cur[b]>> \in Msg \X Session \X Session
      BY <1>0, <2>1
    <3> QED BY <1>0, <1>21, <3>1 DEF ClientSends
  <2> QED BY <1>0, <1>1, <1>2, <1>21, <2>3, <2>4 DEF ClientSends, relay
<1>22. ASSUME NEW a \in Agent, SeeClosed(a) \/ Lose(a) PROVE Shapes'
  <2>1. /\ cur' \in [Agent -> Session \cup {None}] /\ toClient' \in [Session -> Seq(Frame)]
        /\ conn' \in [Session -> {"none", "up", "cut", "closed", "gone"}]
    <3>1. CASE SeeClosed(a)
      BY <1>0, <3>1 DEF SeeClosed
    <3>2. CASE Lose(a)
      <4>1. cur[a] \in Session /\ <<>> \in Seq(Frame)
        BY <1>0, <3>2 DEF Lose
      <4>2. toClient' = [toClient EXCEPT ![cur[a]] = <<>>] /\ conn' = [conn EXCEPT ![cur[a]] = "cut"]
        BY <3>2 DEF Lose
      <4>3. cur' = [cur EXCEPT ![a] = None]
        BY <3>2 DEF Lose
      <4> QED BY <1>0, <4>1, <4>2, <4>3
    <3> QED BY <1>22, <3>1, <3>2
  <2> QED BY <1>0, <1>1, <1>2, <1>22, <2>1 DEF SeeClosed, Lose, relay
<1>23. ASSUME NEW c \in Session, Notice(c) PROVE Shapes'
  BY <1>0, <1>1, <1>2, <1>23 DEF Notice, relay, client
<1>24. CASE UNCHANGED vars
  BY <1>0, <1>1, <1>2, <1>24 DEF vars
<1> QED BY <1>6, <1>7, <1>8, <1>9, <1>10, <1>11, <1>12, <1>14, <1>16, <1>17, <1>18, <1>19, <1>20,
           <1>21, <1>22, <1>23, <1>24 DEF Next, HandlerStep, AgentStep

LEMMA ShapesInvariant == Spec => []Shapes
BY TypeInit, TypeStep, PTL DEF Spec

\* The relay's registry and pending challenges, the coroutines' local state and
\* the traffic keep their shapes (relay/server.py).
THEOREM RelayTypeOK == Spec => []TypeOK
<1>1. Shapes => TypeOK
  BY DEF Shapes
<1> QED BY <1>1, ShapesInvariant, PTL

-----------------------------------------------------------------------------
(* The relay's dictionaries *)

Live(c) == conn[c] \in {"up", "cut", "closed"}

\* An entry of a dictionary is a connection of its agent, with a coroutine that
\* will clean it up.
Entries ==
    \A a \in Agent :
        /\ registry[a] # None => Owner(registry[a]) = a /\ Live(registry[a])
        /\ pending[a] # None => Owner(pending[a]) = a /\ Live(pending[a])

\* What a step does to the connections: one is closed, or cleaned up, opened,
\* found closed, or lost.
Closes(c) == Live(c) /\ conn' = [conn EXCEPT ![c] = "closed"] /\ UNCHANGED cur
Forgets(a) == Closed(cur[a]) /\ cur' = [cur EXCEPT ![a] = None] /\ UNCHANGED conn

LEMMA ConnStep ==
    ASSUME Shapes, [Next]_vars
    PROVE  \/ UNCHANGED <<conn, cur>>
           \/ \E c \in Session : Closes(c) \/ Finish(c)
           \/ \E a \in Agent : \/ Forgets(a) \/ Lose(a)
                               \/ \E c \in SessionsOf(a) : Connect(a, c)
<1>1. ASSUME NEW c \in Session, Throttle(c) \/ AnswerFails(c) \/ Notice(c) PROVE Closes(c)
  BY <1>1 DEF Throttle, AnswerFails, Notice, Closes, Live, Reads, client
<1>2. ASSUME NEW c \in Session,
             \/ ReadHello(c) \/ IgnoreHello(c) \/ ChallengeSent(c) \/ ChallengeFailed(c)
             \/ AnswerVerifies(c) \/ AnswerUnexpected(c) \/ DropUnverified(c) \/ RefuseHello(c)
             \/ Forward(c) \/ SendReturned(c) \/ SendRaised(c)
      PROVE  UNCHANGED <<conn, cur>>
  BY <1>2 DEF ReadHello, IgnoreHello, ChallengeSent, ChallengeFailed, AnswerVerifies, AnswerUnexpected,
              DropUnverified, RefuseHello, Forward, SendReturned, SendRaised, client
<1>3. ASSUME NEW a \in Agent, ClientReads(a) PROVE UNCHANGED <<conn, cur>>
  BY <1>3 DEF ClientReads
<1>4. ASSUME NEW a \in Agent, SeeClosed(a) PROVE Forgets(a)
  BY <1>4 DEF SeeClosed, Forgets
<1>5. ASSUME NEW m \in Msg, ClientSends(m) PROVE UNCHANGED <<conn, cur>>
  BY <1>5 DEF ClientSends
<1>6. CASE UNCHANGED vars
  BY <1>6 DEF vars
<1> QED BY <1>1, <1>2, <1>3, <1>4, <1>5, <1>6 DEF Next, HandlerStep, AgentStep

\* Only the coroutine that cleans up takes a connection's state away.
LEMMA LiveStep ==
    ASSUME Shapes, [Next]_vars, NEW c \in Session, Live(c), ~Finish(c)
    PROVE  Live(c)'
<1>0. conn \in [Session -> {"none", "up", "cut", "closed", "gone"}] /\ cur \in [Agent -> Session \cup {None}]
  BY DEF Shapes, TypeOK
<1>1. CASE UNCHANGED <<conn, cur>>
  BY <1>1 DEF Live
<1>2. ASSUME NEW d \in Session, Closes(d) PROVE Live(c)'
  BY <1>0, <1>2 DEF Closes, Live
<1>3. ASSUME NEW d \in Session, Finish(d) PROVE Live(c)'
  <2>1. d # c
    BY <1>3
  <2> QED BY <1>0, <1>3, <2>1 DEF Finish, Live
<1>4. ASSUME NEW a \in Agent, Forgets(a) PROVE Live(c)'
  BY <1>4 DEF Forgets, Live
<1>5. ASSUME NEW a \in Agent, Lose(a) PROVE Live(c)'
  BY <1>0, <1>5 DEF Lose, Live
<1>6. ASSUME NEW a \in Agent, NEW d \in SessionsOf(a), Connect(a, d) PROVE Live(c)'
  BY <1>0, <1>6 DEF Connect, Live
<1> QED BY <1>1, <1>2, <1>3, <1>4, <1>5, <1>6, ConnStep

\* A dictionary gets an entry from the coroutine of its connection only.
LEMMA EntryStep ==
    ASSUME Shapes, [Next]_vars, NEW a \in Agent
    PROVE  /\ \/ registry'[a] \in {registry[a], None}
              \/ \E c \in Session : AnswerVerifies(c) /\ Owner(c) = a /\ registry'[a] = c
           /\ \/ pending'[a] \in {pending[a], None}
              \/ \E c \in Session : ReadHello(c) /\ Owner(c) = a /\ pending'[a] = c
<1> DEFINE Reg == \/ registry'[a] \in {registry[a], None}
                  \/ \E c \in Session : AnswerVerifies(c) /\ Owner(c) = a /\ registry'[a] = c
           Pend == \/ pending'[a] \in {pending[a], None}
                   \/ \E c \in Session : ReadHello(c) /\ Owner(c) = a /\ pending'[a] = c
<1>0. DOMAIN registry = Agent /\ DOMAIN pending = Agent
  BY DEF Shapes, TypeOK
<1>1. ASSUME UNCHANGED registry PROVE Reg
  BY <1>1
<1>2. ASSUME UNCHANGED pending PROVE Pend
  BY <1>2
<1>3. \A old : Expire(old)[a] \in {pending[a], None}
  BY DEF Expire
<1>4. ASSUME NEW c \in Session, ReadHello(c) PROVE Reg /\ Pend
  <2>1. PICK old : pending' = [Expire(old) EXCEPT ![Owner(c)] = c]
    BY <1>4 DEF ReadHello
  <2>2. DOMAIN Expire(old) = Agent
    BY DEF Expire
  <2>3. CASE Owner(c) = a
    BY <1>1, <1>4, <2>1, <2>2, <2>3 DEF ReadHello
  <2>4. CASE Owner(c) # a
    <3>1. pending'[a] = Expire(old)[a]
      BY <2>1, <2>2, <2>4
    <3> QED BY <1>1, <1>3, <1>4, <3>1 DEF ReadHello
  <2> QED BY <2>3, <2>4
<1>5. ASSUME NEW c \in Session, AnswerVerifies(c) PROVE Reg /\ Pend
  <2>1. registry' = [registry EXCEPT ![Owner(c)] = c] /\ pending' = [pending EXCEPT ![Owner(c)] = None]
    BY <1>5 DEF AnswerVerifies
  <2>2. CASE Owner(c) = a
    BY <1>0, <1>5, <2>1, <2>2
  <2>3. CASE Owner(c) # a
    BY <1>0, <2>1, <2>3
  <2> QED BY <2>2, <2>3
<1>6. ASSUME NEW c \in Session, DropUnverified(c) \/ RefuseHello(c) PROVE Reg /\ Pend
  <2>1. UNCHANGED registry /\ \E old : pending' = IF MustChallenge(c) THEN Expire(old) ELSE pending
    BY <1>6 DEF DropUnverified, RefuseHello
  <2> QED BY <1>1, <1>3, <2>1
<1>7. ASSUME NEW c \in Session, ChallengeFailed(c) \/ AnswerFails(c) PROVE Reg /\ Pend
  BY <1>0, <1>7 DEF ChallengeFailed, AnswerFails
<1>8. ASSUME NEW c \in Session, NEW m, NEW todo, NEW stale, Proceed(c, m, todo, stale) PROVE Reg
  <2>1. registry' = registry \/ registry' = Deregister(stale)
    BY <1>8 DEF Proceed
  <2>2. Deregister(stale)[a] \in {registry[a], None}
    BY DEF Deregister
  <2> QED BY <2>1, <2>2
<1>9. ASSUME NEW c \in Session, Forward(c) \/ SendReturned(c) \/ SendRaised(c) PROVE Reg /\ Pend
  BY <1>2, <1>8, <1>9 DEF Forward, SendReturned, SendRaised
<1>10. ASSUME NEW c \in Session, Finish(c) PROVE Reg /\ Pend
  BY <1>10 DEF Finish
<1>11. ASSUME NEW c \in Session,
              Throttle(c) \/ IgnoreHello(c) \/ ChallengeSent(c) \/ AnswerUnexpected(c) \/ Notice(c)
       PROVE  UNCHANGED <<registry, pending>>
  BY <1>11 DEF Throttle, IgnoreHello, ChallengeSent, AnswerUnexpected, Notice, relay
<1>12. ASSUME NEW b \in Agent, AgentStep(b) \/ Lose(b) PROVE UNCHANGED <<registry, pending>>
  BY <1>12 DEF AgentStep, ClientReads, SeeClosed, Connect, Lose, relay
<1>13. ASSUME NEW m \in Msg, ClientSends(m) PROVE UNCHANGED <<registry, pending>>
  BY <1>13 DEF ClientSends, relay
<1>14. CASE UNCHANGED vars
  BY <1>14 DEF vars
<1> QED BY <1>1, <1>2, <1>4, <1>5, <1>6, <1>7, <1>9, <1>10, <1>11, <1>12, <1>13, <1>14 DEF Next, HandlerStep

LEMMA EntriesStep == Shapes /\ Entries /\ [Next]_vars => Entries'
<1> SUFFICES ASSUME Shapes, Entries, [Next]_vars, NEW a \in Agent
             PROVE  /\ registry'[a] # None =>
                           Owner(registry'[a]) = a /\ conn'[registry'[a]] \in {"up", "cut", "closed"}
                    /\ pending'[a] # None =>
                           Owner(pending'[a]) = a /\ conn'[pending'[a]] \in {"up", "cut", "closed"}
  BY DEF Entries, Live
<1>0. registry[a] \in Session \cup {None} /\ pending[a] \in Session \cup {None}
  BY DEF Shapes, TypeOK
<1>1. ASSUME NEW c \in Session, Finish(c) PROVE registry'[a] # c /\ pending'[a] # c
  <2>1. None \notin Session
    BY FrameFacts
  <2>2. registry'[a] = (IF registry[a] = c THEN None ELSE registry[a]) /\ pending'[a] = (IF pending[a] = c THEN None ELSE pending[a])
    BY <1>1 DEF Finish
  <2> QED BY <2>1, <2>2
<1>2. ASSUME NEW c \in Session, Live(c), registry'[a] = c \/ pending'[a] = c PROVE Live(c)'
  BY <1>1, <1>2, LiveStep
<1>3. ASSUME NEW c \in Session, AnswerVerifies(c) \/ ReadHello(c) PROVE Live(c)
  BY <1>3 DEF AnswerVerifies, ReadHello, Reads, Live
<1>4. registry'[a] # None => registry'[a] \in Session /\ Owner(registry'[a]) = a /\ Live(registry'[a])
  BY <1>0, <1>3, EntryStep DEF Entries
<1>5. pending'[a] # None => pending'[a] \in Session /\ Owner(pending'[a]) = a /\ Live(pending'[a])
  BY <1>0, <1>3, EntryStep DEF Entries
<1>6. PICK r, q : r = registry'[a] /\ q = pending'[a]
  OBVIOUS
<1>7. /\ r # None => r \in Session /\ Owner(r) = a /\ Live(r)
      /\ q # None => q \in Session /\ Owner(q) = a /\ Live(q)
  BY <1>4, <1>5, <1>6
<1>8. (r # None => Live(r)') /\ (q # None => Live(q)')
  BY <1>2, <1>6, <1>7
<1> QED BY <1>6, <1>7, <1>8 DEF Live

LEMMA EntriesInvariant == Spec => [](Shapes /\ Entries)
<1>1. Init => Entries
  BY DEF Init, Entries
<1> QED BY <1>1, EntriesStep, TypeInit, TypeStep, PTL DEF Spec

\* Neither the registry nor the pending challenges refer to a connection whose
\* coroutine is over: whatever runs while a coroutine awaits a send, the finally
\* block of _handle_connection leaves nothing behind that nobody removes.
THEOREM RelayNoDanglingEntry == Spec => []NoDanglingEntry
<1>1. Entries => NoDanglingEntry
  BY DEF Entries, NoDanglingEntry, Live
<1> QED BY <1>1, EntriesInvariant, PTL

-----------------------------------------------------------------------------
(* Who stays registered *)

\* The coroutine of c is at a target of m: it has just read m, or the send to the
\* previous target has returned or raised.
Forwarding(c, m, todo, stale) ==
    /\ Proceed(c, m, todo, stale)
    /\ UNCHANGED <<pending, conn, client>>
    /\ \/ Reads(c, m) /\ todo = Targets(m) /\ stale = <<>>
       \/ /\ handler[c].at = "forwarding" /\ m = handler[c].msg /\ todo = handler[c].todo
          /\ \/ stale = handler[c].stale
             \/ \E p \in handler[c].to : Closed(p[2]) /\ stale = Append(handler[c].stale, p[1])
          /\ UNCHANGED toRelay

\* A step either forwards or starts no forwarding.
Idling(d) == handler'[d] \in {handler[d], Reading, [handler[d] EXCEPT !.at = "challenging"]}

LEMMA ForwardActs ==
    ASSUME Shapes, NEW c \in Session, Forward(c) \/ SendReturned(c) \/ SendRaised(c)
    PROVE  \E m \in Msg, todo \in SUBSET (Agent \X Session), stale \in Seq(Agent) :
               Forwarding(c, m, todo, stale)
<1>0. handler \in [Session -> HandlerType]
  BY DEF Shapes
<1> DEFINE Goal == \E m \in Msg, todo \in SUBSET (Agent \X Session), stale \in Seq(Agent) :
                       Forwarding(c, m, todo, stale)
<1>1. ASSUME Forward(c) PROVE Goal
  <2>1. PICK m \in Msg : Reads(c, m) /\ Proceed(c, m, Targets(m), <<>>)
    BY <1>1 DEF Forward
  <2>2. Forwarding(c, m, Targets(m), <<>>)
    BY <1>1, <2>1 DEF Forward, Forwarding
  <2>3. Targets(m) \in SUBSET (Agent \X Session) /\ <<>> \in Seq(Agent)
    BY TargetsType
  <2> QED BY <2>2, <2>3
<1>2. ASSUME handler[c].at = "forwarding"
      PROVE  /\ handler[c].msg \in Msg /\ handler[c].todo \in SUBSET (Agent \X Session)
             /\ handler[c].to \in SUBSET (Agent \X Session) /\ handler[c].stale \in Seq(Agent)
  <2>1. handler[c] \in HandlerType
    BY <1>0
  <2> QED BY <1>2, <2>1, HandlerFacts DEF Shapes
<1>3. ASSUME SendReturned(c) PROVE Goal
  <2>1. Forwarding(c, handler[c].msg, handler[c].todo, handler[c].stale)
    BY <1>3 DEF SendReturned, Forwarding
  <2> QED BY <1>2, <1>3, <2>1 DEF SendReturned
<1>4. ASSUME SendRaised(c) PROVE Goal
  <2>1. PICK p \in handler[c].to :
            Closed(p[2]) /\ Proceed(c, handler[c].msg, handler[c].todo, Append(handler[c].stale, p[1]))
    BY <1>4 DEF SendRaised
  <2>2. Forwarding(c, handler[c].msg, handler[c].todo, Append(handler[c].stale, p[1]))
    BY <1>4, <2>1 DEF SendRaised, Forwarding
  <2>3. p[1] \in Agent /\ handler[c].stale \in Seq(Agent)
    BY <1>2, <1>4 DEF SendRaised
  <2>4. Append(handler[c].stale, p[1]) \in Seq(Agent)
    BY <2>3, AppendProperties
  <2> QED BY <1>2, <1>4, <2>2, <2>4 DEF SendRaised
<1> QED BY <1>1, <1>3, <1>4

LEMMA ForwardKinds ==
    ASSUME Shapes, [Next]_vars
    PROVE  \/ \E c \in Session, m \in Msg, todo \in SUBSET (Agent \X Session), stale \in Seq(Agent) :
                  Forwarding(c, m, todo, stale)
           \/ \A d \in Session : Idling(d)
<1>0. handler \in [Session -> HandlerType]
  BY DEF Shapes
<1>1. ASSUME NEW c \in Session, ReadHello(c) PROVE \A d \in Session : Idling(d)
  BY <1>0, <1>1 DEF ReadHello, Idling
<1>2. ASSUME NEW c \in Session, ChallengeSent(c) \/ ChallengeFailed(c) PROVE \A d \in Session : Idling(d)
  BY <1>0, <1>2 DEF ChallengeSent, ChallengeFailed, Idling
<1>3. ASSUME UNCHANGED handler PROVE \A d \in Session : Idling(d)
  BY <1>3 DEF Idling
<1>4. ASSUME NEW c \in Session,
             \/ IgnoreHello(c) \/ AnswerVerifies(c) \/ AnswerFails(c) \/ AnswerUnexpected(c)
             \/ DropUnverified(c) \/ RefuseHello(c) \/ Throttle(c) \/ Finish(c) \/ Notice(c)
      PROVE  UNCHANGED handler
  BY <1>4 DEF IgnoreHello, AnswerVerifies, AnswerFails, AnswerUnexpected, DropUnverified, RefuseHello, Throttle, Finish,
              Notice, relay
<1>5. ASSUME NEW a \in Agent, AgentStep(a) \/ Lose(a) PROVE UNCHANGED handler
  BY <1>5 DEF AgentStep, ClientReads, SeeClosed, Connect, Lose, relay
<1>6. ASSUME NEW m \in Msg, ClientSends(m) PROVE UNCHANGED handler
  BY <1>6 DEF ClientSends, relay
<1>7. CASE UNCHANGED vars
  BY <1>3, <1>7 DEF vars
<1> QED BY <1>1, <1>2, <1>3, <1>4, <1>5, <1>6, <1>7, ForwardActs DEF Next, HandlerStep

\* The agents a fan-out has failed to reach: their connection was closed.
LEMMA FailedSends ==
    ASSUME Shapes, NEW d \in Session, NEW m \in Msg, NEW todo \in SUBSET (Agent \X Session),
           NEW stale \in Seq(Agent), Forwarding(d, m, todo, stale), NEW b \in Agent, Has(stale, b)
    PROVE  Has(handler[d].stale, b) \/ \E p \in handler[d].to : Closed(p[2]) /\ p[1] = b
<1>1. handler[d] \in HandlerType
  BY DEF Shapes
<1>2. handler[d].stale \in Seq(Agent) /\ \A p \in handler[d].to : p[1] \in Agent
  BY <1>1 DEF HandlerType
<1>3. CASE stale = <<>>
  BY <1>3, ShortQueue
<1>4. ASSUME NEW p \in handler[d].to, Closed(p[2]), stale = Append(handler[d].stale, p[1])
      PROVE  Has(handler[d].stale, b) \/ p[1] = b
  BY <1>2, <1>4, AppendFrame
<1> QED BY <1>3, <1>4 DEF Forwarding

\* The targets and the failed sends of a coroutine after a step.
LEMMA PairsStep ==
    ASSUME Shapes, Entries, [Next]_vars, NEW d \in Session
    PROVE  /\ \A p \in handler'[d].to \cup handler'[d].todo :
                  p \in handler[d].to \cup handler[d].todo \/ (registry[p[1]] = p[2] /\ p[2] # None)
           /\ \A b \in Agent : Has(handler'[d].stale, b) =>
                  \/ Has(handler[d].stale, b)
                  \/ \E p \in handler[d].to : Closed(p[2]) /\ p[1] = b
<1>0. handler \in [Session -> HandlerType] /\ handler[d] \in HandlerType
  BY DEF Shapes
<1>1. CASE Idling(d)
  <2>1. CASE handler'[d] = handler[d]
    BY <2>1
  <2>2. CASE handler'[d] = Reading
    BY <2>2, ShortQueue DEF Reading
  <2>3. CASE handler'[d] = [handler[d] EXCEPT !.at = "challenging"]
    <3>1. ASSUME NEW r \in HandlerType
          PROVE  LET s == [r EXCEPT !.at = "challenging"] IN
                 s.to = r.to /\ s.todo = r.todo /\ s.stale = r.stale
      BY <3>1 DEF HandlerType
    <3>2. handler'[d].to = handler[d].to /\ handler'[d].todo = handler[d].todo /\ handler'[d].stale = handler[d].stale
      BY <1>0, <2>3, <3>1
    <3> QED BY <3>2
  <2> QED BY <1>1, <2>1, <2>2, <2>3 DEF Idling
<1>2. ASSUME NEW c \in Session, NEW m \in Msg, NEW todo \in SUBSET (Agent \X Session),
             NEW stale \in Seq(Agent), Forwarding(c, m, todo, stale), d # c
      PROVE  handler'[d] = handler[d]
  BY <1>0, <1>2 DEF Forwarding, Proceed
<1>3. ASSUME NEW m \in Msg, NEW todo \in SUBSET (Agent \X Session),
             NEW stale \in Seq(Agent), Forwarding(d, m, todo, stale)
      PROVE  /\ \A p \in handler'[d].to \cup handler'[d].todo :
                    p \in handler[d].to \cup handler[d].todo \/ (registry[p[1]] = p[2] /\ p[2] # None)
             /\ \A b \in Agent : Has(handler'[d].stale, b) =>
                    \/ Has(handler[d].stale, b)
                    \/ \E p \in handler[d].to : Closed(p[2]) /\ p[1] = b
  <2>1. /\ handler'[d].to \cup handler'[d].todo \subseteq todo
        /\ \A b : Has(handler'[d].stale, b) => Has(stale, b)
    <3>1. CASE todo = {}
      <4>1. handler'[d] = Reading
        BY <1>0, <1>3, <3>1 DEF Forwarding, Proceed
      <4> QED BY <4>1, ShortQueue DEF Reading
    <3>2. CASE todo # {}
      <4>1. PICK p \in todo : handler'[d] = [at |-> "forwarding", msg |-> m, to |-> {p},
                                             todo |-> todo \ {p}, stale |-> stale]
        BY <1>0, <1>3, <3>2 DEF Forwarding, Proceed
      <4> QED BY <4>1
    <3> QED BY <3>1, <3>2
  <2>2. \A p \in Targets(m) : registry[p[1]] = p[2] /\ p[2] # None
    BY DEF Targets
  <2>3. todo = Targets(m) \/ todo = handler[d].todo
    BY <1>3 DEF Forwarding
  <2> QED BY <1>3, <2>1, <2>2, <2>3, FailedSends
<1> QED BY <1>1, <1>2, <1>3, ForwardKinds

\* The agents' side: an agent has its current connection only, and one that was
\* never opened carries nothing.
Clients ==
    /\ \A a \in Agent : cur[a] # None => Owner(cur[a]) = a
    /\ \A c \in Session : conn[c] = "up" => cur[Owner(c)] = c
    /\ \A c \in Session : conn[c] = "none" => toClient[c] = <<>> /\ c \notin confirmed

\* The targets of a fan-out are connections of the agents they stand for.
Pairs == \A d \in Session : \A p \in handler[d].to \cup handler[d].todo : Owner(p[2]) = p[1]

\* What a step does to the frames for an agent and to what the agent knows.
LEMMA FramesStep ==
    ASSUME Shapes, Clients, [Next]_vars, NEW c \in Session
    PROVE  /\ conn[c] = "up" \/ toClient'[c] = toClient[c]
           /\ Has(toClient'[c], "registered") => Has(toClient[c], "registered") \/ AnswerVerifies(c)
           /\ c \in confirmed' => c \in confirmed \/ (conn[c] = "up" /\ Has(toClient[c], "registered"))
           /\ UNCHANGED prompt
<1> DEFINE Frames == /\ conn[c] = "up" \/ toClient'[c] = toClient[c]
                     /\ Has(toClient'[c], "registered") => Has(toClient[c], "registered") \/ AnswerVerifies(c)
           Knows == c \in confirmed' => c \in confirmed \/ (conn[c] = "up" /\ Has(toClient[c], "registered"))
<1>0. /\ toClient \in [Session -> Seq(Frame)] /\ toClient[c] \in Seq(Frame)
      /\ cur \in [Agent -> Session \cup {None}]
  BY DEF Shapes, TypeOK
<1>1. ASSUME UNCHANGED toClient PROVE Frames
  BY <1>1
<1>2. ASSUME UNCHANGED client PROVE Knows /\ UNCHANGED prompt
  BY <1>2 DEF client
<1>3. ASSUME NEW d \in Session, NEW f \in Frame, Sends(d, f), f # "registered" \/ AnswerVerifies(d) PROVE Frames
  <2>1. CASE d = c
    BY <1>0, <1>3, <2>1, SendsType, AppendFrame
  <2>2. CASE d # c
    BY <1>3, <2>2, SendsType
  <2> QED BY <2>1, <2>2
<1>4. ASSUME NEW d \in Session, ReadHello(d) PROVE Frames /\ UNCHANGED client
  BY <1>3, <1>4 DEF ReadHello, Frame
<1>5. ASSUME NEW d \in Session, AnswerVerifies(d) PROVE Frames /\ UNCHANGED client
  BY <1>3, <1>5 DEF AnswerVerifies, Frame
<1>6. ASSUME NEW d \in Session, NEW m \in Msg, NEW todo \in SUBSET (Agent \X Session), NEW stale,
             Proceed(d, m, todo, stale)
      PROVE  Frames
  <2>1. CASE todo = {}
    BY <1>1, <1>6, <2>1 DEF Proceed
  <2>2. CASE todo # {}
    <3>1. PICK p \in todo : Sends(p[2], m)
      BY <1>6, <2>2 DEF Proceed
    <3>2. p[2] \in Session /\ m \in Frame /\ m # "registered"
      BY FrameFacts DEF Frame
    <3> QED BY <1>3, <3>1, <3>2
  <2> QED BY <2>1, <2>2
<1>7. ASSUME NEW d \in Session, Forward(d) \/ SendReturned(d) \/ SendRaised(d) PROVE Frames /\ UNCHANGED client
  <2>1. handler[d] \in HandlerType
    BY DEF Shapes
  <2>2. handler[d].todo \in SUBSET (Agent \X Session)
    BY <2>1 DEF HandlerType
  <2>3. handler[d].at = "forwarding" => handler[d].msg \in Msg
    BY DEF Shapes
  <2>4. \A m \in Msg : Targets(m) \in SUBSET (Agent \X Session)
    BY TargetsType
  <2> HIDE DEF Frames
  <2> QED BY <1>6, <1>7, <2>2, <2>3, <2>4 DEF Forward, SendReturned, SendRaised
<1>8. ASSUME NEW d \in Session,
             \/ IgnoreHello(d) \/ ChallengeSent(d) \/ ChallengeFailed(d) \/ AnswerFails(d)
             \/ AnswerUnexpected(d) \/ DropUnverified(d) \/ RefuseHello(d) \/ Throttle(d) \/ Finish(d) \/ Notice(d)
      PROVE  UNCHANGED <<toClient, client>>
  BY <1>8 DEF IgnoreHello, ChallengeSent, ChallengeFailed, AnswerFails, AnswerUnexpected, DropUnverified, RefuseHello,
              Throttle, Finish, Notice
<1>9. ASSUME NEW a \in Agent, ClientReads(a) PROVE Frames /\ Knows /\ UNCHANGED prompt
  <2>1. /\ cur[a] \in Session /\ conn[cur[a]] = "up" /\ toClient[cur[a]] # <<>> /\ UNCHANGED prompt
        /\ toClient' = [toClient EXCEPT ![cur[a]] = Tail(toClient[cur[a]])]
        /\ \/ confirmed' = confirmed
           \/ Head(toClient[cur[a]]) = "registered" /\ confirmed' = confirmed \cup {cur[a]}
    BY <1>0, <1>9 DEF ClientReads
  <2>2. CASE cur[a] = c
    <3>1. toClient'[c] = Tail(toClient[c])
      BY <1>0, <2>1, <2>2
    <3>2. /\ Has(Tail(toClient[c]), "registered") => Has(toClient[c], "registered")
          /\ Has(toClient[c], Head(toClient[c]))
      BY <1>0, <2>1, <2>2, TailFrame
    <3>3. Frames
      BY <2>1, <2>2, <3>1, <3>2
    <3>4. Knows
      BY <2>1, <2>2, <3>2
    <3> QED BY <2>1, <3>3, <3>4
  <2>3. CASE cur[a] # c
    BY <1>0, <2>1, <2>3
  <2> QED BY <2>2, <2>3
<1>10. ASSUME NEW a \in Agent, Lose(a) PROVE Frames /\ Knows /\ UNCHANGED prompt
  <2>1. /\ cur[a] # None /\ conn[cur[a]] = "up" /\ UNCHANGED <<prompt, confirmed>>
        /\ toClient' = [toClient EXCEPT ![cur[a]] = <<>>]
    BY <1>10 DEF Lose
  <2>2. CASE cur[a] = c
    <3>1. toClient'[c] = <<>>
      BY <1>0, <2>1, <2>2
    <3> QED BY <2>1, <2>2, <3>1, ShortQueue
  <2>3. CASE cur[a] # c
    BY <1>0, <2>1, <2>3
  <2> QED BY <2>2, <2>3
<1>11. ASSUME NEW a \in Agent, SeeClosed(a) \/ \E d \in SessionsOf(a) : Connect(a, d)
       PROVE  UNCHANGED <<toClient, confirmed, prompt>>
  BY <1>11 DEF SeeClosed, Connect
<1>12. ASSUME NEW m \in Msg, ClientSends(m) PROVE UNCHANGED <<toClient, confirmed, prompt>>
  BY <1>12 DEF ClientSends
<1>13. CASE UNCHANGED vars
  BY <1>13 DEF vars
<1> QED BY <1>1, <1>2, <1>4, <1>5, <1>7, <1>8, <1>9, <1>10, <1>11, <1>12, <1>13 DEF Next, HandlerStep, AgentStep

LEMMA ClientsStep == Shapes /\ Clients /\ [Next]_vars => Clients'
<1> SUFFICES ASSUME Shapes, Clients, [Next]_vars PROVE Clients'
  OBVIOUS
<1>0. /\ conn \in [Session -> {"none", "up", "cut", "closed", "gone"}] /\ cur \in [Agent -> Session \cup {None}]
      /\ None \notin Session
  BY FrameFacts DEF Shapes, TypeOK
<1> DEFINE Owns == /\ \A a \in Agent : cur'[a] # None => Owner(cur'[a]) = a
                   /\ \A c \in Session : conn'[c] = "up" => cur'[Owner(c)] = c
           News == \A c \in Session : conn'[c] = "none" => conn[c] = "none"
<1>1. Owns /\ News
  <2>1. CASE UNCHANGED <<conn, cur>>
    BY <2>1 DEF Clients
  <2>2. ASSUME NEW d \in Session, Closes(d) PROVE Owns /\ News
    BY <1>0, <2>2 DEF Closes, Clients
  <2>3. ASSUME NEW d \in Session, Finish(d) PROVE Owns /\ News
    BY <1>0, <2>3 DEF Finish, client, Clients
  <2>4. ASSUME NEW a \in Agent, Forgets(a) PROVE Owns /\ News
    <3>1. \A c \in Session : conn[c] = "up" => Owner(c) \in Agent /\ Owner(c) # a
      BY <2>4, SessionFacts DEF Forgets, Closed, Clients
    <3> QED BY <1>0, <2>4, <3>1 DEF Forgets, Clients
  <2>5. ASSUME NEW a \in Agent, Lose(a) PROVE Owns /\ News
    <3>1. /\ conn' = [conn EXCEPT ![cur[a]] = "cut"] /\ cur' = [cur EXCEPT ![a] = None]
      BY <2>5 DEF Lose
    <3>2. ASSUME NEW c \in Session, conn'[c] = "up" PROVE conn[c] = "up" /\ Owner(c) \in Agent /\ Owner(c) # a
      BY <1>0, <3>1, <3>2, SessionFacts DEF Clients
    <3>3. News
      BY <1>0, <3>1
    <3>4. \A b \in Agent : cur'[b] # None => Owner(cur'[b]) = b
      BY <1>0, <3>1 DEF Clients
    <3> QED BY <1>0, <3>1, <3>2, <3>3, <3>4 DEF Clients
  <2>6. ASSUME NEW a \in Agent, NEW d \in SessionsOf(a), Connect(a, d) PROVE Owns /\ News
    <3>1. /\ conn' = [conn EXCEPT ![d] = "up"] /\ cur' = [cur EXCEPT ![a] = d] /\ cur[a] = None
          /\ d \in Session /\ Owner(d) = a
      BY <2>6, SessionFacts DEF Connect
    <3>2. ASSUME NEW c \in Session, conn'[c] = "up", c # d PROVE cur'[Owner(c)] = c
      <4>1. cur[Owner(c)] = c /\ Owner(c) \in Agent /\ Owner(c) # a
        BY <1>0, <3>1, <3>2, SessionFacts DEF Clients
      <4> QED BY <1>0, <3>1, <4>1
    <3>3. cur'[Owner(d)] = d
      BY <1>0, <3>1
    <3>4. \A b \in Agent : cur'[b] # None => Owner(cur'[b]) = b
      BY <1>0, <3>1 DEF Clients
    <3>5. News
      BY <1>0, <3>1
    <3> QED BY <3>2, <3>3, <3>4, <3>5
  <2> HIDE DEF Owns, News
  <2> QED BY <2>1, <2>2, <2>3, <2>4, <2>5, <2>6, ConnStep
<1>2. ASSUME NEW c \in Session, conn'[c] = "none" PROVE toClient'[c] = <<>> /\ c \notin confirmed'
  <2>1. conn[c] = "none" /\ toClient[c] = <<>> /\ c \notin confirmed
    BY <1>1, <1>2 DEF Clients
  <2> QED BY <2>1, FramesStep
<1> QED BY <1>1, <1>2 DEF Clients

LEMMA PairsKept == Shapes /\ Entries /\ Pairs /\ [Next]_vars => Pairs'
<1> SUFFICES ASSUME Shapes, Entries, Pairs, [Next]_vars, NEW d \in Session,
                    NEW p \in handler'[d].to \cup handler'[d].todo
             PROVE  Owner(p[2]) = p[1]
  BY DEF Pairs, Owner
<1>1. CASE p \in handler[d].to \cup handler[d].todo
  BY <1>1 DEF Pairs
<1>2. CASE registry[p[1]] = p[2] /\ p[2] # None
  <2>1. p[1] \in Agent
    <3>1. handler'[d].to \cup handler'[d].todo \subseteq Agent \X Session
      BY TypeStep DEF Shapes, TypeOK
    <3> QED BY <3>1
  <2> QED BY <1>2, <2>1 DEF Entries
<1> QED BY <1>1, <1>2, PairsStep

\* An entry goes when its connection is cleaned up, or when a fan-out has failed on
\* its agent.
LEMMA DeregisterStep ==
    ASSUME Shapes, [Next]_vars, NEW a \in Agent, registry[a] # None, registry'[a] = None
    PROVE  \/ Finish(registry[a])
           \/ \E d \in Session : \/ Has(handler[d].stale, a)
                                 \/ \E p \in handler[d].to : Closed(p[2]) /\ p[1] = a
<1> DEFINE Failed == \E d \in Session : \/ Has(handler[d].stale, a)
                                        \/ \E p \in handler[d].to : Closed(p[2]) /\ p[1] = a
<1>0. DOMAIN registry = Agent /\ None \notin Session
  BY FrameFacts DEF Shapes, TypeOK
<1>1. registry' # registry
  OBVIOUS
<1>2. ASSUME NEW c \in Session, AnswerVerifies(c) PROVE FALSE
  <2>1. registry' = [registry EXCEPT ![Owner(c)] = c]
    BY <1>2 DEF AnswerVerifies
  <2> QED BY <1>0, <2>1
<1>3. ASSUME NEW c \in Session, Finish(c) PROVE Finish(registry[a])
  <2>1. registry[a] = c
    BY <1>3 DEF Finish
  <2> QED BY <1>3, <2>1
<1>4. ASSUME NEW c \in Session, Forward(c) \/ SendReturned(c) \/ SendRaised(c) PROVE Failed
  <2>1. PICK m \in Msg, todo \in SUBSET (Agent \X Session), stale \in Seq(Agent) : Forwarding(c, m, todo, stale)
    BY <1>4, ForwardActs
  <2>2. registry' = Deregister(stale)
    BY <1>1, <2>1 DEF Forwarding, Proceed
  <2>3. Has(stale, a)
    BY <2>2 DEF Deregister, Has
  <2> QED BY <2>1, <2>3, FailedSends
<1>5. ASSUME NEW c \in Session,
             \/ ReadHello(c) \/ IgnoreHello(c) \/ ChallengeSent(c) \/ ChallengeFailed(c) \/ AnswerFails(c)
             \/ AnswerUnexpected(c) \/ DropUnverified(c) \/ RefuseHello(c) \/ Throttle(c) \/ Notice(c)
      PROVE  UNCHANGED registry
  BY <1>5 DEF ReadHello, IgnoreHello, ChallengeSent, ChallengeFailed, AnswerFails, AnswerUnexpected,
              DropUnverified, RefuseHello, Throttle, Notice, relay
<1>6. ASSUME NEW b \in Agent, AgentStep(b) \/ Lose(b) PROVE UNCHANGED registry
  BY <1>6 DEF AgentStep, ClientReads, SeeClosed, Connect, Lose, relay
<1>7. ASSUME NEW m \in Msg, ClientSends(m) PROVE UNCHANGED registry
  BY <1>7 DEF ClientSends, relay
<1>8. ASSUME UNCHANGED vars PROVE UNCHANGED registry
  BY <1>8 DEF vars
<1> HIDE DEF Failed
<1>9. Failed \/ Finish(registry[a])
  BY <1>1, <1>2, <1>3, <1>4, <1>5, <1>6, <1>7, <1>8 DEF Next, HandlerStep
<1> QED BY <1>9 DEF Failed

\* The connection of an agent that reconnects promptly is the only one the relay
\* knows of: no other session is alive, no fan-out has another one as a target or
\* is about to deregister the agent; and it is registered once it was told so.
Alone(c) == \A e \in SessionsOf(Owner(c)) \ {c} : conn[e] \in {"none", "gone"}
Undisturbed(c) ==
    \A d \in Session : /\ \A p \in handler[d].to \cup handler[d].todo : p[1] = Owner(c) => p[2] = c
                       /\ ~Has(handler[d].stale, Owner(c))
Told(c) == Has(toClient[c], "registered") \/ c \in confirmed
Prompted ==
    prompt => \A c \in Session :
        conn[c] = "up" => Alone(c) /\ Undisturbed(c) /\ (Told(c) => registry[Owner(c)] = c)

\* A new connection of such an agent: nothing is left of its earlier ones.
LEMMA PromptConnect ==
    ASSUME Shapes, Clients, Pairs, prompt, NEW a \in Agent, NEW c \in SessionsOf(a), Connect(a, c)
    PROVE  Alone(c)' /\ Undisturbed(c)' /\ ~Told(c)'
<1>0. /\ conn \in [Session -> {"none", "up", "cut", "closed", "gone"}]
      /\ c \in Session /\ Owner(c) = a /\ Owner(c) \in Agent
  BY SessionFacts DEF Shapes, TypeOK
<1>1. /\ \A e \in SessionsOf(a) : Settled(e) /\ e \in Session
      /\ conn' = [conn EXCEPT ![c] = "up"] /\ UNCHANGED <<handler, toClient, confirmed>> /\ conn[c] = "none"
  BY SessionFacts DEF Connect, relay
<1>2. Alone(c)'
  <2>1. ASSUME NEW e \in SessionsOf(a) \ {c} PROVE conn'[e] \in {"none", "gone"}
    BY <1>0, <1>1 DEF Settled
  <2> QED BY <1>0, <2>1 DEF Alone, Owner, SessionsOf
<1>3. ASSUME NEW d \in Session, NEW p \in handler[d].to \cup handler[d].todo, p[1] = a PROVE FALSE
  <2>1. handler[d] \in HandlerType
    BY DEF Shapes
  <2>2. p[2] \in Session /\ Owner(p[2]) = a
    BY <1>3, <2>1, HandlerFacts DEF Pairs
  <2>3. Settled(p[2])
    BY <1>1, <2>2, SessionFacts
  <2> QED BY <2>3 DEF Settled
<1>4. ASSUME NEW d \in Session PROVE ~Has(handler[d].stale, a)
  BY <1>0, <1>1 DEF Settled, Has
<1>5. Undisturbed(c)'
  <2>1. /\ \A d \in Session : handler'[d] = handler[d]
    BY <1>1
  <2> QED BY <1>0, <1>1, <1>3, <1>4 DEF Undisturbed
<1>6. ~Told(c)'
  BY <1>0, <1>1, ShortQueue DEF Told, Clients
<1> QED BY <1>2, <1>5, <1>6

\* The same connection afterwards.
LEMMA PromptStep ==
    ASSUME Shapes, Entries, Clients, Pairs, [Next]_vars, NEW c \in Session, conn[c] = "up", conn'[c] = "up",
           Alone(c), Undisturbed(c), Told(c) => registry[Owner(c)] = c
    PROVE  Alone(c)' /\ Undisturbed(c)' /\ (Told(c)' => registry'[Owner(c)] = c)
<1> DEFINE a == Owner(c)
<1>0. /\ conn \in [Session -> {"none", "up", "cut", "closed", "gone"}] /\ cur \in [Agent -> Session \cup {None}]
      /\ registry \in [Agent -> Session \cup {None}] /\ None \notin Session
      /\ a \in Agent /\ cur[a] = c
  BY SessionFacts, FrameFacts DEF Shapes, TypeOK, Clients
<1> HIDE DEF a
<1>1. ASSUME NEW e \in Session, Owner(e) = a, Live(e) PROVE e = c
  <2>1. e \in SessionsOf(a)
    BY <1>1, SessionFacts
  <2> QED BY <1>1, <2>1 DEF Alone, Live, a
<1>2. Alone(c)'
  <2>1. ASSUME NEW e \in SessionsOf(a) \ {c} PROVE conn'[e] \in {"none", "gone"}
    <3>0. e \in Session /\ Owner(e) = a /\ ~Live(e) /\ conn[e] \in {"none", "gone"}
      BY <1>0, <1>1, SessionFacts DEF Alone, a
    <3>1. CASE UNCHANGED <<conn, cur>>
      BY <3>0, <3>1
    <3>2. ASSUME NEW d \in Session, Closes(d) PROVE conn'[e] \in {"none", "gone"}
      BY <1>0, <3>0, <3>2 DEF Closes
    <3>3. ASSUME NEW d \in Session, Finish(d) PROVE conn'[e] \in {"none", "gone"}
      BY <1>0, <3>0, <3>3 DEF Finish
    <3>4. ASSUME NEW b \in Agent, Forgets(b) PROVE conn'[e] \in {"none", "gone"}
      BY <3>0, <3>4 DEF Forgets
    <3>5. ASSUME NEW b \in Agent, Lose(b) PROVE conn'[e] \in {"none", "gone"}
      BY <1>0, <3>0, <3>5 DEF Lose
    <3>6. ASSUME NEW b \in Agent, NEW d \in SessionsOf(b), Connect(b, d) PROVE conn'[e] \in {"none", "gone"}
      <4>1. d # e
        BY <1>0, <3>0, <3>6, SessionFacts DEF Connect
      <4> QED BY <1>0, <3>0, <3>6, <4>1 DEF Connect
    <3> QED BY <3>1, <3>2, <3>3, <3>4, <3>5, <3>6, ConnStep
  <2> QED BY <2>1 DEF Alone, a, Owner, SessionsOf
<1>3. ASSUME NEW d \in Session, NEW p \in handler'[d].to \cup handler'[d].todo, p[1] = a PROVE p[2] = c
  <2>1. CASE p \in handler[d].to \cup handler[d].todo
    BY <1>3, <2>1 DEF Undisturbed, a
  <2>2. CASE registry[p[1]] = p[2] /\ p[2] # None
    BY <1>0, <1>1, <1>3, <2>2 DEF Entries
  <2> QED BY <2>1, <2>2, PairsStep
<1>4. ASSUME NEW d \in Session
      PROVE  ~Has(handler[d].stale, a) /\ ~\E p \in handler[d].to : Closed(p[2]) /\ p[1] = a
  BY DEF Undisturbed, Closed, a
<1>5. ASSUME NEW d \in Session PROVE ~Has(handler'[d].stale, a)
  BY <1>0, <1>4, PairsStep
<1>6. Undisturbed(c)'
  BY <1>3, <1>5 DEF Undisturbed, a, Owner
<1>7. ASSUME Told(c)' PROVE registry'[a] = c
  <2>1. CASE AnswerVerifies(c)
    BY <1>0, <2>1 DEF AnswerVerifies, a
  <2>2. CASE registry[a] = c
    <3>1. registry'[a] # None
      <4>1. ~Finish(c)
        BY DEF Finish
      <4> QED BY <1>0, <1>4, <2>2, <4>1, DeregisterStep
    <3>2. ASSUME NEW e \in Session, AnswerVerifies(e), Owner(e) = a PROVE e = c
      BY <1>1, <3>2 DEF AnswerVerifies, Reads, Live
    <3> QED BY <1>0, <2>2, <3>1, <3>2, EntryStep
  <2> QED BY <1>7, <2>1, <2>2, FramesStep DEF Told, a
<1> QED BY <1>2, <1>6, <1>7 DEF a

LEMMA PromptedStep == Shapes /\ Entries /\ Clients /\ Pairs /\ Prompted /\ [Next]_vars => Prompted'
<1> SUFFICES ASSUME Shapes, Entries, Clients, Pairs, Prompted, [Next]_vars PROVE Prompted'
  OBVIOUS
<1>0. /\ conn \in [Session -> {"none", "up", "cut", "closed", "gone"}] /\ cur \in [Agent -> Session \cup {None}]
  BY DEF Shapes, TypeOK
<1>1. ASSUME NEW c \in Session, prompt', conn'[c] = "up"
      PROVE  Alone(c)' /\ Undisturbed(c)' /\ (Told(c)' => registry'[Owner(c)] = c)
  <2>1. prompt
    BY <1>1, FramesStep
  <2>2. CASE conn[c] = "up"
    BY <1>1, <2>1, <2>2, PromptStep DEF Prompted
  <2>3. CASE conn[c] # "up"
    <3>1. PICK a \in Agent : c \in SessionsOf(a) /\ Connect(a, c)
      <4>1. ASSUME NEW d \in Session, Closes(d) \/ Finish(d) PROVE FALSE
        BY <1>0, <1>1, <2>3, <4>1 DEF Closes, Finish
      <4>2. ASSUME NEW b \in Agent, Forgets(b) \/ Lose(b) PROVE FALSE
        BY <1>0, <1>1, <2>3, <4>2 DEF Forgets, Lose
      <4>3. ASSUME NEW b \in Agent, NEW d \in SessionsOf(b), Connect(b, d) PROVE d = c
        BY <1>0, <1>1, <2>3, <4>3 DEF Connect
      <4> QED BY <1>1, <2>3, <4>1, <4>2, <4>3, ConnStep
    <3> QED BY <2>1, <3>1, PromptConnect
  <2> QED BY <2>2, <2>3
<1> QED BY <1>1 DEF Prompted, Owner

\* Everything the registry depends on.
Registration == Shapes /\ Entries /\ Clients /\ Pairs /\ Prompted

LEMMA RegistrationInvariant == Spec => []Registration
<1>1. Init => Registration
  <2> SUFFICES ASSUME Init PROVE Registration
    OBVIOUS
  <2>1. Entries /\ Clients
    BY DEF Init, Entries, Clients
  <2>2. Pairs
    BY DEF Init, Pairs, Reading
  <2>3. Prompted
    BY DEF Init, Prompted
  <2> QED BY <2>1, <2>2, <2>3, TypeInit DEF Registration
<1>2. Registration /\ [Next]_vars => Registration'
  BY TypeStep, EntriesStep, ClientsStep, PairsKept, PromptedStep DEF Registration
<1> QED BY <1>1, <1>2, PTL DEF Spec

\* An agent that was told ADNS_REGISTERED on its connection, and that reconnects only
\* when the relay is through with its previous session, is registered there: no
\* fan-out that failed, no late clean-up and no other challenge takes its entry away.
THEOREM RelayPromptIsRegistered == Spec => []PromptIsRegistered
<1>1. Registration => PromptIsRegistered
  <2> SUFFICES ASSUME Registration, prompt, NEW a \in Agent, cur[a] \in confirmed, conn[cur[a]] = "up"
               PROVE  registry[a] = cur[a]
    BY DEF PromptIsRegistered, ConfirmedIsRegistered
  <2>1. cur[a] \in Session /\ Owner(cur[a]) = a
    BY FrameFacts DEF Registration, Shapes, TypeOK, Clients
  <2> QED BY <2>1 DEF Registration, Prompted, Told
<1> QED BY <1>1, RegistrationInvariant, PTL

-----------------------------------------------------------------------------
(* A message arrives at most once *)

Forwards(d, m) == handler[d].at = "forwarding" /\ handler[d].msg = m

\* m is in session c's queue, or was read from it.
Held(c, m) == Has(toClient[c], m) \/ <<m, c>> \in got
Untouched(m) == \A c \in Session : ~Forwards(c, m) /\ ~Held(c, m)

\* An agent holds one copy.
OneCopy(m) ==
    /\ \A c \in Session : /\ Once(toClient[c], m)
                          /\ Has(toClient[c], m) => <<m, c>> \notin got
    /\ \A c, e \in Session : Owner(c) = Owner(e) /\ Held(c, m) /\ Held(e, m) => c = e

\* Until the relay reads m, nobody forwards it and nobody holds it.
Uplink(m) ==
    /\ \A c \in Session : /\ Once(toRelay[c], m)
                          /\ Has(toRelay[c], m) => m \in sent /\ Untouched(m)
    /\ \A c, e \in Session : Has(toRelay[c], m) /\ Has(toRelay[e], m) => c = e
    /\ m \notin sent => Untouched(m)

\* What is still to do in a fan-out of m: each agent once, none that holds it.
Ahead(todo, m) ==
    /\ \A p \in todo : \A c \in Session : Owner(c) = p[1] => ~Held(c, m)
    /\ \A p, q \in todo : p[1] = q[1] => p = q
FanningOut(m) ==
    /\ \A d, e \in Session : Forwards(d, m) /\ Forwards(e, m) => d = e
    /\ \A d \in Session : Forwards(d, m) => Ahead(handler[d].todo, m)

Copied(m) == OneCopy(m) /\ Uplink(m) /\ FanningOut(m)

\* A step that does not bring m any further.
Less(q, r, f) == (Has(r, f) => Has(q, f)) /\ (Once(q, f) => Once(r, f))
Down(c, m) ==
    /\ Less(toClient[c], toClient'[c], m)
    /\ <<m, c>> \in got' => <<m, c>> \in got \/ (Has(toClient[c], m) /\ ~Has(toClient'[c], m))
Quiet(m) ==
    /\ \A c \in Session : Down(c, m) /\ Less(toRelay[c], toRelay'[c], m)
    /\ m \in sent => m \in sent'
    /\ \A d \in Session : Forwards(d, m)' => Forwards(d, m) /\ handler'[d].todo = handler[d].todo

LEMMA LessFacts ==
    ASSUME NEW S, NEW q \in Seq(S), NEW m
    PROVE  /\ Less(q, q, m) /\ Less(q, <<>>, m)
           /\ \A f \in S : f # m => Less(q, Append(q, f), m) /\ Less(q, <<f>>, m)
           /\ q # <<>> => Less(q, Tail(q), m)
<1>1. Less(q, q, m) /\ Less(q, <<>>, m)
  BY ShortQueue DEF Less
<1>2. ASSUME NEW f \in S, f # m PROVE Less(q, Append(q, f), m) /\ Less(q, <<f>>, m)
  BY <1>2, ShortQueue, AppendFrame DEF Less
<1>3. ASSUME q # <<>> PROVE Less(q, Tail(q), m)
  BY <1>3, TailFrame DEF Less
<1> QED BY <1>1, <1>2, <1>3

\* The frames for the relay: only the sender adds m.
LEMMA UpStep ==
    ASSUME Shapes, [Next]_vars, NEW m \in Msg, ~ClientSends(m), NEW c \in Session
    PROVE  Less(toRelay[c], toRelay'[c], m)
<1>0. /\ toRelay \in [Session -> Seq(RelayFrame)] /\ toRelay[c] \in Seq(RelayFrame)
      /\ cur \in [Agent -> Session \cup {None}] /\ mail \in [Msg -> [from : Agent, to : Agent \cup {All}]]
  BY DEF Shapes, TypeOK, RelayFrame
<1>1. ASSUME UNCHANGED toRelay PROVE Less(toRelay[c], toRelay'[c], m)
  BY <1>0, <1>1, LessFacts
<1>2. ASSUME NEW d \in Session, NEW f, Reads(d, f) PROVE Less(toRelay[c], toRelay'[c], m)
  <2>1. toRelay'[c] = toRelay[c] \/ (toRelay'[c] = Tail(toRelay[c]) /\ toRelay[c] # <<>>)
    BY <1>2, ReadsType
  <2> QED BY <1>0, <2>1, LessFacts
<1>3. ASSUME NEW d \in Session,
             \/ ReadHello(d) \/ IgnoreHello(d) \/ AnswerVerifies(d) \/ AnswerFails(d) \/ AnswerUnexpected(d)
             \/ DropUnverified(d) \/ RefuseHello(d) \/ Forward(d)
      PROVE  \E f : Reads(d, f)
  BY <1>3 DEF ReadHello, IgnoreHello, AnswerVerifies, AnswerFails, AnswerUnexpected, DropUnverified, RefuseHello, Forward
<1>4. ASSUME NEW d \in Session, Throttle(d) \/ Finish(d) PROVE Less(toRelay[c], toRelay'[c], m)
  <2>1. toRelay' = [toRelay EXCEPT ![d] = <<>>]
    BY <1>4 DEF Throttle, Finish
  <2>2. toRelay'[c] = toRelay[c] \/ toRelay'[c] = <<>>
    BY <1>0, <2>1
  <2> QED BY <1>0, <2>2, LessFacts
<1>5. ASSUME NEW d \in Session,
             ChallengeSent(d) \/ ChallengeFailed(d) \/ SendReturned(d) \/ SendRaised(d) \/ Notice(d)
      PROVE  UNCHANGED toRelay
  BY <1>5 DEF ChallengeSent, ChallengeFailed, SendReturned, SendRaised, Notice
<1>6. ASSUME NEW a \in Agent, ClientReads(a) PROVE Less(toRelay[c], toRelay'[c], m)
  <2>1. toRelay' = toRelay \/ toRelay' = [toRelay EXCEPT ![cur[a]] = Append(toRelay[cur[a]], "answer")]
    BY <1>6 DEF ClientReads
  <2>2. toRelay'[c] = toRelay[c] \/ toRelay'[c] = Append(toRelay[c], "answer")
    BY <1>0, <2>1
  <2>3. "answer" \in RelayFrame /\ "answer" # m
    BY FrameFacts DEF RelayFrame
  <2> QED BY <1>0, <2>2, <2>3, LessFacts
<1>7. ASSUME NEW a \in Agent, NEW d \in SessionsOf(a), Connect(a, d) PROVE Less(toRelay[c], toRelay'[c], m)
  <2>1. toRelay' = [toRelay EXCEPT ![d] = <<"hello">>]
    BY <1>7 DEF Connect
  <2>2. toRelay'[c] = toRelay[c] \/ toRelay'[c] = <<"hello">>
    BY <1>0, <2>1
  <2>3. "hello" \in RelayFrame /\ "hello" # m
    BY FrameFacts DEF RelayFrame
  <2> QED BY <1>0, <2>2, <2>3, LessFacts
<1>8. ASSUME NEW a \in Agent, SeeClosed(a) \/ Lose(a) PROVE UNCHANGED toRelay
  BY <1>8 DEF SeeClosed, Lose
<1>9. ASSUME NEW n \in Msg, ClientSends(n) PROVE Less(toRelay[c], toRelay'[c], m)
  <2>1. toRelay' = [toRelay EXCEPT ![cur[mail[n].from]] = Append(toRelay[cur[mail[n].from]], n)]
    BY <1>9 DEF ClientSends
  <2>2. toRelay'[c] = toRelay[c] \/ toRelay'[c] = Append(toRelay[c], n)
    BY <1>0, <2>1
  <2>3. n # m /\ n \in RelayFrame
    BY <1>9 DEF RelayFrame
  <2> QED BY <1>0, <2>2, <2>3, LessFacts
<1>10. ASSUME UNCHANGED vars PROVE UNCHANGED toRelay
  BY <1>10 DEF vars
<1> QED BY <1>1, <1>2, <1>3, <1>4, <1>5, <1>6, <1>7, <1>8, <1>9, <1>10 DEF Next, HandlerStep, AgentStep

\* The frames for the agents: only a coroutine that forwards m adds it; an agent that
\* reads it holds it as before.
LEMMA DownStep ==
    ASSUME Shapes, [Next]_vars, NEW m \in Msg, NEW c \in Session, Once(toClient[c], m),
           \A d \in Session, todo \in SUBSET (Agent \X Session), stale \in Seq(Agent) :
               ~Forwarding(d, m, todo, stale)
    PROVE  Down(c, m)
<1>0. /\ toClient \in [Session -> Seq(Frame)] /\ toClient[c] \in Seq(Frame)
      /\ cur \in [Agent -> Session \cup {None}]
  BY DEF Shapes, TypeOK
<1>1. ASSUME UNCHANGED <<toClient, got>> PROVE Down(c, m)
  BY <1>0, <1>1, LessFacts DEF Down
<1>2. ASSUME NEW d \in Session, NEW f \in Frame, Sends(d, f), f # m, UNCHANGED got PROVE Down(c, m)
  <2>1. toClient'[c] = toClient[c] \/ toClient'[c] = Append(toClient[c], f)
    BY <1>2, SendsType
  <2> QED BY <1>0, <1>2, <2>1, LessFacts DEF Down
<1>3. ASSUME NEW d \in Session, ReadHello(d) \/ AnswerVerifies(d) PROVE Down(c, m)
  <2>1. \E f \in {"challenge", "registered"} : Sends(d, f)
    BY <1>3 DEF ReadHello, AnswerVerifies
  <2>2. UNCHANGED got
    BY <1>3 DEF ReadHello, AnswerVerifies, client
  <2> QED BY <1>2, <2>1, <2>2, FrameFacts DEF Frame
<1>4. ASSUME NEW d \in Session, Forward(d) \/ SendReturned(d) \/ SendRaised(d) PROVE Down(c, m)
  <2>1. PICK n \in Msg, todo \in SUBSET (Agent \X Session), stale \in Seq(Agent) : Forwarding(d, n, todo, stale)
    BY <1>4, ForwardActs
  <2>2. n # m /\ UNCHANGED got
    BY <2>1 DEF Forwarding, client
  <2>3. CASE todo = {}
    BY <1>1, <2>1, <2>2, <2>3 DEF Forwarding, Proceed
  <2>4. CASE todo # {}
    <3>1. PICK p \in todo : Sends(p[2], n)
      BY <2>1, <2>4 DEF Forwarding, Proceed
    <3>2. p[2] \in Session /\ n \in Frame
      BY DEF Frame
    <3> QED BY <1>2, <2>2, <3>1, <3>2
  <2> QED BY <2>3, <2>4
<1>5. ASSUME NEW d \in Session,
             \/ IgnoreHello(d) \/ ChallengeSent(d) \/ ChallengeFailed(d) \/ AnswerFails(d)
             \/ AnswerUnexpected(d) \/ DropUnverified(d) \/ RefuseHello(d) \/ Throttle(d) \/ Finish(d) \/ Notice(d)
      PROVE  UNCHANGED <<toClient, got>>
  BY <1>5 DEF IgnoreHello, ChallengeSent, ChallengeFailed, AnswerFails, AnswerUnexpected, DropUnverified, RefuseHello,
              Throttle, Finish, Notice, client
<1>6. ASSUME NEW a \in Agent, ClientReads(a) PROVE Down(c, m)
  <2>1. /\ cur[a] \in Session /\ toClient[cur[a]] # <<>>
        /\ toClient' = [toClient EXCEPT ![cur[a]] = Tail(toClient[cur[a]])]
        /\ got' = got \/ got' = got \cup {<<Head(toClient[cur[a]]), cur[a]>>}
    BY <1>0, <1>6 DEF ClientReads
  <2>2. CASE cur[a] = c
    <3>1. toClient'[c] = Tail(toClient[c])
      BY <1>0, <2>1, <2>2
    <3>2. Less(toClient[c], Tail(toClient[c]), m)
      BY <1>0, <2>1, <2>2, LessFacts
    <3>3. Head(toClient[c]) = m => Has(toClient[c], m) /\ ~Has(Tail(toClient[c]), m)
      BY <1>0, <2>1, <2>2, TailFrame
    <3>4. <<m, c>> \in got' => <<m, c>> \in got \/ Head(toClient[c]) = m
      BY <2>1, <2>2
    <3> QED BY <3>1, <3>2, <3>3, <3>4 DEF Down
  <2>3. CASE cur[a] # c
    <3>1. toClient'[c] = toClient[c] /\ (<<m, c>> \in got' => <<m, c>> \in got)
      BY <1>0, <2>1, <2>3
    <3> QED BY <1>0, <3>1, LessFacts DEF Down
  <2> QED BY <2>2, <2>3
<1>7. ASSUME NEW a \in Agent, Lose(a) PROVE Down(c, m)
  <2>1. toClient' = [toClient EXCEPT ![cur[a]] = <<>>] /\ UNCHANGED got
    BY <1>7 DEF Lose
  <2>2. toClient'[c] = toClient[c] \/ toClient'[c] = <<>>
    BY <1>0, <2>1
  <2> QED BY <1>0, <2>1, <2>2, LessFacts DEF Down
<1>8. ASSUME NEW a \in Agent, SeeClosed(a) \/ \E d \in SessionsOf(a) : Connect(a, d)
      PROVE  UNCHANGED <<toClient, got>>
  BY <1>8 DEF SeeClosed, Connect
<1>9. ASSUME NEW n \in Msg, ClientSends(n) PROVE UNCHANGED <<toClient, got>>
  BY <1>9 DEF ClientSends
<1>10. ASSUME UNCHANGED vars PROVE UNCHANGED <<toClient, got>>
  BY <1>10 DEF vars
<1> QED BY <1>1, <1>3, <1>4, <1>5, <1>6, <1>7, <1>8, <1>9, <1>10 DEF Next, HandlerStep, AgentStep

\* Steps are quiet, but for the one that sends m and those that forward it.
LEMMA CopyKinds ==
    ASSUME Shapes, [Next]_vars, NEW m \in Msg, OneCopy(m), ~ClientSends(m),
           \A d \in Session, todo \in SUBSET (Agent \X Session), stale \in Seq(Agent) :
               ~Forwarding(d, m, todo, stale)
    PROVE  Quiet(m)
<1>0. handler \in [Session -> HandlerType]
  BY DEF Shapes
<1>1. \A c \in Session : Down(c, m) /\ Less(toRelay[c], toRelay'[c], m)
  BY UpStep, DownStep DEF OneCopy
<1>2. m \in sent => m \in sent'
  <2>1. ASSUME NEW c \in Session, HandlerStep(c) \/ Throttle(c) \/ Finish(c) \/ Notice(c) PROVE UNCHANGED sent
    BY <2>1 DEF HandlerStep, ReadHello, IgnoreHello, ChallengeSent, ChallengeFailed, AnswerVerifies, AnswerFails,
                AnswerUnexpected, DropUnverified, RefuseHello, Forward, SendReturned, SendRaised, Throttle, Finish, Notice, client
  <2>2. ASSUME NEW a \in Agent, AgentStep(a) \/ Lose(a) PROVE UNCHANGED sent
    BY <2>2 DEF AgentStep, ClientReads, SeeClosed, Connect, Lose
  <2>3. ASSUME NEW n \in Msg, ClientSends(n) PROVE sent \subseteq sent'
    BY <2>3 DEF ClientSends
  <2>4. ASSUME UNCHANGED vars PROVE UNCHANGED sent
    BY <2>4 DEF vars
  <2> QED BY <2>1, <2>2, <2>3, <2>4 DEF Next
<1>3. ASSUME NEW d \in Session, Forwards(d, m)'
      PROVE  Forwards(d, m) /\ handler'[d].todo = handler[d].todo
  <2>0. handler[d] \in HandlerType
    BY <1>0
  <2>1. CASE Idling(d)
    <3>1. Reading.at # "forwarding"
      BY DEF Reading
    <3>2. ASSUME NEW r \in HandlerType PROVE [r EXCEPT !.at = "challenging"].at # "forwarding"
      BY <3>2 DEF HandlerType
    <3>3. handler'[d].at = "forwarding"
      BY <1>3 DEF Forwards
    <3>4. handler'[d] # Reading /\ handler'[d] # [handler[d] EXCEPT !.at = "challenging"]
      BY <2>0, <3>1, <3>2, <3>3
    <3>5. handler'[d] = handler[d]
      BY <2>1, <3>4 DEF Idling
    <3> QED BY <1>3, <3>5 DEF Forwards
  <2>2. ASSUME NEW c \in Session, NEW n \in Msg, NEW todo \in SUBSET (Agent \X Session), NEW stale \in Seq(Agent),
               Forwarding(c, n, todo, stale)
        PROVE  handler'[d] = handler[d]
    <3>1. n # m
      BY <2>2
    <3>2. CASE c # d
      BY <1>0, <2>2, <3>2 DEF Forwarding, Proceed
    <3>3. CASE c = d
      <4>1. CASE todo = {}
        <5>1. handler'[d] = Reading
          BY <1>0, <2>2, <3>3, <4>1 DEF Forwarding, Proceed
        <5> QED BY <1>3, <5>1 DEF Forwards, Reading
      <4>2. CASE todo # {}
        <5>1. PICK p \in todo : handler'[d] = [at |-> "forwarding", msg |-> n, to |-> {p},
                                               todo |-> todo \ {p}, stale |-> stale]
          BY <1>0, <2>2, <3>3, <4>2 DEF Forwarding, Proceed
        <5>2. handler'[d].msg = n
          BY <5>1
        <5> QED BY <1>3, <3>1, <5>2 DEF Forwards
      <4> QED BY <4>1, <4>2
    <3> QED BY <3>2, <3>3
  <2> QED BY <1>3, <2>1, <2>2, ForwardKinds DEF Forwards
<1> QED BY <1>1, <1>2, <1>3 DEF Quiet

LEMMA QuietStep ==
    ASSUME NEW m, Copied(m), Quiet(m)
    PROVE  Copied(m)'
<1>1. \A c \in Session : /\ Has(toClient'[c], m) => Has(toClient[c], m)
                         /\ Once(toClient'[c], m)
                         /\ Has(toRelay'[c], m) => Has(toRelay[c], m)
                         /\ Once(toRelay'[c], m)
  BY DEF Quiet, Down, Less, Copied, OneCopy, Uplink
<1>2. \A c \in Session : Held(c, m)' => Held(c, m)
  BY <1>1 DEF Held, Quiet, Down
<1>3. \A c \in Session : Has(toClient'[c], m) => <<m, c>> \notin got'
  BY <1>1 DEF Quiet, Down, Copied, OneCopy
<1>4. OneCopy(m)'
  <2>1. ASSUME NEW c \in Session, NEW e \in Session, Owner(c) = Owner(e), Held(c, m)', Held(e, m)' PROVE c = e
    BY <1>2, <2>1 DEF Copied, OneCopy
  <2> QED BY <1>1, <1>3, <2>1 DEF OneCopy, Owner
<1>5. \A d \in Session : Forwards(d, m)' => Forwards(d, m) /\ handler'[d].todo = handler[d].todo
  BY DEF Quiet
<1>6. Untouched(m) => Untouched(m)'
  BY <1>2, <1>5 DEF Untouched
<1>7. Uplink(m)'
  BY <1>1, <1>6 DEF Uplink, Copied, Quiet
<1>8. FanningOut(m)'
  <2>1. ASSUME NEW d \in Session, Forwards(d, m)' PROVE Ahead(handler[d].todo, m)'
    <3>1. handler'[d].todo = handler[d].todo /\ Ahead(handler[d].todo, m)
      BY <1>5, <2>1 DEF Copied, FanningOut
    <3> QED BY <1>2, <3>1 DEF Ahead, Owner
  <2> QED BY <1>5, <2>1 DEF FanningOut, Copied
<1> QED BY <1>4, <1>7, <1>8 DEF Copied

\* The sender hands m to the relay: the first anyone hears of it.
LEMMA SendStep ==
    ASSUME Shapes, NEW m \in Msg, Copied(m), ClientSends(m)
    PROVE  Copied(m)'
<1> DEFINE s == cur[mail[m].from]
<1>0. /\ toRelay \in [Session -> Seq(RelayFrame)] /\ m \in RelayFrame
      /\ cur \in [Agent -> Session \cup {None}] /\ mail[m].from \in Agent
  BY DEF Shapes, TypeOK, RelayFrame
<1>1. /\ s \in Session /\ m \notin sent /\ m \in sent'
      /\ toRelay' = [toRelay EXCEPT ![s] = Append(toRelay[s], m)]
      /\ UNCHANGED <<handler, toClient, got>>
  BY <1>0 DEF ClientSends, relay
<1> HIDE DEF s
<1>2. Untouched(m) /\ \A c \in Session : ~Has(toRelay[c], m) /\ Once(toRelay[c], m)
  BY <1>1 DEF Copied, Uplink
<1>3. toRelay'[s] = Append(toRelay[s], m) /\ \A c \in Session \ {s} : toRelay'[c] = toRelay[c]
  BY <1>0, <1>1
<1>4. Once(Append(toRelay[s], m), m)
  BY <1>0, <1>1, <1>2, AppendFrame
<1>5. Untouched(m)'
  BY <1>1, <1>2 DEF Untouched, Forwards, Held
<1>6. Uplink(m)'
  BY <1>1, <1>2, <1>3, <1>4, <1>5 DEF Uplink
<1>7. OneCopy(m)'
  BY <1>1 DEF Copied, OneCopy, Held, Owner
<1>8. FanningOut(m)'
  BY <1>5 DEF FanningOut, Untouched
<1> QED BY <1>6, <1>7, <1>8 DEF Copied

\* Before a coroutine takes its next target of m: it is the only one at m, m is nowhere
\* else on its way to the relay, and the targets left do not hold it.
LEMMA ForwardReady ==
    ASSUME Shapes, Entries, Pairs, NEW m \in Msg, Copied(m),
           NEW d \in Session, NEW todo \in SUBSET (Agent \X Session), NEW stale \in Seq(Agent),
           Forwarding(d, m, todo, stale)
    PROVE  /\ Ahead(todo, m) /\ \A p \in todo : Owner(p[2]) = p[1]
           /\ \A c \in Session : Forwards(c, m) => c = d
           /\ \A c \in Session : ~Has(toRelay'[c], m) /\ Once(toRelay'[c], m)
           /\ m \in sent /\ m \in sent'
<1>0. toRelay \in [Session -> Seq(RelayFrame)]
  BY DEF Shapes, TypeOK, RelayFrame
<1>1. UNCHANGED sent
  BY DEF Forwarding, client
<1>2. CASE Reads(d, m) /\ todo = Targets(m)
  <2>1. /\ toRelay[d] \in Seq(RelayFrame) /\ toRelay[d] # <<>> /\ m = Head(toRelay[d])
        /\ toRelay'[d] = Tail(toRelay[d]) /\ \A e \in Session \ {d} : toRelay'[e] = toRelay[e]
    BY <1>2, ReadsType
  <2>2. Has(toRelay[d], m) /\ Once(toRelay[d], m)
    BY <2>1, TailFrame DEF Copied, Uplink
  <2>3. ~Has(Tail(toRelay[d]), m) /\ Once(Tail(toRelay[d]), m)
    BY <2>1, <2>2, TailFrame
  <2>4. Untouched(m) /\ m \in sent /\ \A e \in Session \ {d} : ~Has(toRelay[e], m) /\ Once(toRelay[e], m)
    BY <2>2 DEF Copied, Uplink
  <2>5. \A p \in todo : p[1] \in Agent /\ p = <<p[1], registry[p[1]]>> /\ registry[p[1]] # None
    BY <1>2 DEF Targets
  <2>6. \A p \in todo : Owner(p[2]) = p[1]
    BY <2>5 DEF Entries
  <2>7. Ahead(todo, m)
    BY <2>4, <2>5 DEF Ahead, Untouched
  <2> QED BY <1>1, <2>1, <2>3, <2>4, <2>6, <2>7 DEF Untouched
<1>3. CASE handler[d].at = "forwarding" /\ m = handler[d].msg /\ todo = handler[d].todo /\ UNCHANGED toRelay
  <2>1. Forwards(d, m)
    BY <1>3 DEF Forwards
  <2>2. \A c \in Session : ~Has(toRelay[c], m) /\ Once(toRelay[c], m)
    BY <2>1 DEF Copied, Uplink, Untouched
  <2>3. m \in sent
    BY <2>1 DEF Copied, Uplink, Untouched
  <2>4. Ahead(todo, m) /\ \A c \in Session : Forwards(c, m) => c = d
    BY <1>3, <2>1 DEF Copied, FanningOut
  <2>5. \A p \in todo : Owner(p[2]) = p[1]
    BY <1>3 DEF Pairs
  <2> QED BY <1>1, <1>3, <2>2, <2>3, <2>4, <2>5
<1> QED BY <1>2, <1>3 DEF Forwarding

LEMMA ForwardStep ==
    ASSUME Shapes, Entries, Pairs, NEW m \in Msg, Copied(m),
           NEW d \in Session, NEW todo \in SUBSET (Agent \X Session), NEW stale \in Seq(Agent),
           Forwarding(d, m, todo, stale)
    PROVE  Copied(m)'
<1>0. handler \in [Session -> HandlerType] /\ toClient \in [Session -> Seq(Frame)] /\ m \in Frame
  BY DEF Shapes, TypeOK, Frame
<1>1. /\ Ahead(todo, m) /\ \A p \in todo : Owner(p[2]) = p[1]
      /\ \A c \in Session : Forwards(c, m) => c = d
      /\ \A c \in Session : ~Has(toRelay'[c], m) /\ Once(toRelay'[c], m)
      /\ m \in sent /\ m \in sent'
  BY ForwardReady
<1>2. Uplink(m)'
  BY <1>1 DEF Uplink
<1>3. UNCHANGED got
  BY DEF Forwarding, client
<1>4. CASE todo = {}
  <2>1. handler' = [handler EXCEPT ![d] = Reading] /\ UNCHANGED toClient
    BY <1>4 DEF Forwarding, Proceed
  <2>2. handler'[d] = Reading /\ \A c \in Session \ {d} : handler'[c] = handler[c]
    BY <1>0, <2>1
  <2>3. \A c \in Session : ~Forwards(c, m)'
    BY <1>1, <2>2 DEF Forwards, Reading
  <2>4. OneCopy(m)'
    BY <1>3, <2>1 DEF Copied, OneCopy, Held, Owner
  <2>5. FanningOut(m)'
    BY <2>3 DEF FanningOut
  <2> QED BY <1>2, <2>4, <2>5 DEF Copied
<1>5. CASE todo # {}
  <2>1. PICK p \in todo :
            /\ handler' = [handler EXCEPT ![d] = [at |-> "forwarding", msg |-> m, to |-> {p},
                                                  todo |-> todo \ {p}, stale |-> stale]]
            /\ Sends(p[2], m)
    BY <1>5 DEF Forwarding, Proceed
  <2> DEFINE t == p[2]
  <2>2. t \in Session /\ Owner(t) = p[1]
    BY <1>1
  <2>3. /\ handler'[d] = [at |-> "forwarding", msg |-> m, to |-> {p}, todo |-> todo \ {p}, stale |-> stale]
        /\ \A c \in Session \ {d} : handler'[c] = handler[c]
    BY <1>0, <2>1
  <2>4. handler'[d].todo = todo \ {p}
    BY <2>3
  <2>5. /\ \A e \in Session \ {t} : toClient'[e] = toClient[e]
        /\ toClient'[t] = toClient[t] \/ toClient'[t] = Append(toClient[t], m)
    BY <1>0, <2>1, <2>2, SendsType
  <2> HIDE DEF t
  <2>6. \A c \in Session : Owner(c) = Owner(t) => ~Held(c, m)
    BY <1>1, <2>2 DEF Ahead
  <2>7. ~Has(toClient[t], m) /\ <<m, t>> \notin got /\ Once(toClient[t], m) /\ toClient[t] \in Seq(Frame)
    BY <1>0, <2>2, <2>6 DEF Held, Copied, OneCopy
  <2>8. Once(toClient'[t], m)
    <3>1. Once(Append(toClient[t], m), m)
      BY <1>0, <2>7, AppendFrame
    <3> QED BY <2>5, <2>7, <3>1
  <2>9. \A c \in Session \ {t} : Held(c, m)' <=> Held(c, m)
    BY <1>3, <2>5 DEF Held
  <2>10. OneCopy(m)'
    <3>1. \A c \in Session : Once(toClient'[c], m)
      BY <2>5, <2>8 DEF Copied, OneCopy
    <3>2. \A c \in Session : Has(toClient'[c], m) => <<m, c>> \notin got'
      BY <1>3, <2>5, <2>7 DEF Copied, OneCopy
    <3>3. ASSUME NEW c \in Session, NEW e \in Session, Owner(c) = Owner(e), Held(c, m)', Held(e, m)' PROVE c = e
      <4>1. CASE c = t \/ e = t
        BY <2>2, <2>6, <2>9, <3>3, <4>1
      <4>2. CASE c # t /\ e # t
        BY <2>9, <3>3, <4>2 DEF Copied, OneCopy
      <4> QED BY <4>1, <4>2
    <3> QED BY <3>1, <3>2, <3>3 DEF OneCopy, Owner
  <2>11. \A c \in Session : Forwards(c, m)' => c = d
    BY <1>1, <2>3 DEF Forwards
  <2>12. Ahead(handler[d].todo, m)'
    <3>1. ASSUME NEW q \in todo \ {p}, NEW c \in Session, Owner(c) = q[1] PROVE ~Held(c, m)'
      <4>1. q[1] # p[1]
        BY <1>1 DEF Ahead
      <4>2. c # t /\ ~Held(c, m)
        BY <1>1, <2>2, <3>1, <4>1 DEF Ahead
      <4> QED BY <2>9, <4>2
    <3>2. \A q, r \in todo \ {p} : q[1] = r[1] => q = r
      BY <1>1 DEF Ahead
    <3> QED BY <2>4, <3>1, <3>2 DEF Ahead, Owner
  <2>13. FanningOut(m)'
    BY <2>11, <2>12 DEF FanningOut
  <2> QED BY <1>2, <2>10, <2>13 DEF Copied
<1> QED BY <1>4, <1>5

Distribution == \A m \in Msg : Copied(m)

LEMMA CopiedStep == Shapes /\ Entries /\ Pairs /\ Distribution /\ [Next]_vars => Distribution'
<1> SUFFICES ASSUME Shapes, Entries, Pairs, Distribution, [Next]_vars, NEW m \in Msg PROVE Copied(m)'
  BY DEF Distribution
<1>1. Copied(m) /\ OneCopy(m)
  BY DEF Distribution, Copied
<1>2. CASE ClientSends(m)
  BY <1>1, <1>2, SendStep
<1>3. CASE \E d \in Session, todo \in SUBSET (Agent \X Session), stale \in Seq(Agent) : Forwarding(d, m, todo, stale)
  BY <1>1, <1>3, ForwardStep
<1>4. CASE /\ ~ClientSends(m)
           /\ \A d \in Session, todo \in SUBSET (Agent \X Session), stale \in Seq(Agent) : ~Forwarding(d, m, todo, stale)
  <2>1. Quiet(m)
    BY <1>1, <1>4, CopyKinds
  <2> QED BY <1>1, <2>1, QuietStep
<1> QED BY <1>2, <1>3, <1>4

LEMMA DistributionInvariant == Spec => []Distribution
<1>1. Init => Distribution
  <2> SUFFICES ASSUME Init, NEW m \in Msg PROVE Copied(m)
    BY DEF Distribution
  <2>1. \A c \in Session : toClient[c] = <<>> /\ toRelay[c] = <<>> /\ handler[c] = Reading
    BY DEF Init
  <2>2. sent = {} /\ got = {}
    BY DEF Init
  <2>3. \A c \in Session : ~Forwards(c, m) /\ ~Held(c, m) /\ ~Has(toRelay[c], m)
    BY <2>1, <2>2, ShortQueue DEF Forwards, Held, Reading
  <2>4. OneCopy(m)
    BY <2>1, <2>2, <2>3, ShortQueue DEF OneCopy
  <2>5. Uplink(m)
    BY <2>1, <2>3, ShortQueue DEF Uplink, Untouched
  <2>6. FanningOut(m)
    BY <2>3 DEF FanningOut
  <2> QED BY <2>4, <2>5, <2>6 DEF Copied
<1>2. Registration /\ Distribution /\ [Next]_vars => Distribution'
  BY CopiedStep DEF Registration
<1> QED BY <1>1, <1>2, RegistrationInvariant, PTL DEF Spec

\* Whatever connects, is lost and re-registers while a coroutine awaits a send, an agent
\* is handed a message at most once, counting the copies on their way to any of its
\* sessions and those it has read (_handle_connection's fan-out).
THEOREM RelayAtMostOnce == Spec => []AtMostOnce
<1>1. Distribution => AtMostOnce
  <2> SUFFICES ASSUME Distribution, NEW m \in Msg, NEW a \in Agent
               PROVE  Cardinality(Copies(m, a)) + Cardinality({c \in SessionsOf(a) : <<m, c>> \in got}) <= 1
    BY DEF AtMostOnce
  <2> DEFINE Q == Copies(m, a)
             G == {c \in SessionsOf(a) : <<m, c>> \in got}
  <2>1. \A c \in SessionsOf(a) : c \in Session /\ Owner(c) = a
    BY SessionFacts
  <2>2. OneCopy(m)
    BY DEF Distribution, Copied
  <2>3. ASSUME NEW p \in Q
        PROVE  \E c, i : c \in SessionsOf(a) /\ p = <<c, i>> /\ i \in DOMAIN toClient[c] /\ toClient[c][i] = m
    BY DEF Copies
  <2> HIDE DEF Q
  <2>4. ASSUME NEW p \in Q, NEW q \in Q PROVE p = q
    <3>1. PICK c, i : c \in SessionsOf(a) /\ p = <<c, i>> /\ i \in DOMAIN toClient[c] /\ toClient[c][i] = m
      BY <2>3
    <3>2. PICK e, j : e \in SessionsOf(a) /\ q = <<e, j>> /\ j \in DOMAIN toClient[e] /\ toClient[e][j] = m
      BY <2>3
    <3>3. Held(c, m) /\ Held(e, m)
      BY <3>1, <3>2 DEF Held, Has
    <3>4. c = e
      BY <2>1, <2>2, <3>1, <3>2, <3>3 DEF OneCopy
    <3>5. Once(toClient[c], m)
      BY <2>1, <2>2, <3>1 DEF OneCopy
    <3>6. i = j
      BY <3>1, <3>2, <3>4, <3>5 DEF Once
    <3> QED BY <3>1, <3>2, <3>4, <3>6
  <2>5. ASSUME NEW p \in Q, NEW e \in G PROVE FALSE
    <3>1. PICK c, i : c \in SessionsOf(a) /\ p = <<c, i>> /\ i \in DOMAIN toClient[c] /\ toClient[c][i] = m
      BY <2>3
    <3>2. Has(toClient[c], m) /\ Held(c, m) /\ Held(e, m)
      BY <3>1 DEF Held, Has
    <3>3. c = e
      BY <2>1, <2>2, <3>1, <3>2 DEF OneCopy
    <3> QED BY <2>1, <2>2, <3>1, <3>2, <3>3 DEF OneCopy
  <2>6. ASSUME NEW c \in G, NEW e \in G PROVE c = e
    BY <2>1, <2>2 DEF OneCopy, Held
  <2> HIDE DEF G
  <2>7. ASSUME NEW S, \A x, y \in S : x = y PROVE S = {} \/ \E x : S = {x}
    BY <2>7
  <2>8. (Q = {} \/ \E x : Q = {x}) /\ (G = {} \/ \E x : G = {x}) /\ (Q = {} \/ G = {})
    BY <2>4, <2>5, <2>6, <2>7
  <2>9. Cardinality({}) = 0 /\ \A x : Cardinality({x}) = 1
    BY FS_EmptySet, FS_Singleton
  <2>10. Cardinality(Q) + Cardinality(G) <= 1
    <3>1. Cardinality(Q) \in {0, 1} /\ Cardinality(G) \in {0, 1} /\ (Cardinality(Q) = 0 \/ Cardinality(G) = 0)
      BY <2>8, <2>9
    <3> QED BY <3>1
  <2> QED BY <2>10 DEF Q, G
<1> QED BY <1>1, DistributionInvariant, PTL
=============================================================================
