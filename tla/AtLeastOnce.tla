---------------------------- MODULE AtLeastOnce -----------------------------
(***************************************************************************)
(* What sending to a peer promises, without tasks, connections, a queue or *)
(* reconnection: a message that has been accepted is held, perhaps in more *)
(* than one copy, until it has arrived or is lost.  It is lost with the    *)
(* connections that are cut, or one at a time, when more messages are held *)
(* than there is room for.  Once no longer held it never comes back.       *)
(***************************************************************************)
EXTENDS Naturals, FiniteSets

CONSTANTS
    Msg,        \* messages
    Room        \* more messages than this have to be held for one to be given up

VARIABLES
    accepted,   \* the messages given to send
    held,       \* those of which a copy is left that may still arrive
    arrived,    \* those the peer has read
    givenUp,    \* those given up for want of room
    cut         \* those lost with a connection

vars == <<accepted, held, arrived, givenUp, cut>>

Init ==
    /\ accepted = {} /\ held = {} /\ arrived = {} /\ givenUp = {} /\ cut = {}

\* No message leaves `had` without a reason, and none comes in.
Holds(had) ==
    /\ held' \subseteq had
    /\ had \ held' \subseteq arrived' \cup givenUp' \cup cut'

\* Messages may be lost: any with a connection, one for want of room.
Loses(had) ==
    /\ \E S \in SUBSET had : cut' = cut \cup S
    /\ \/ UNCHANGED givenUp
       \/ Cardinality(had) > Room /\ \E m \in had : givenUp' = givenUp \cup {m}

Accept(m) ==
    /\ m \notin accepted
    /\ accepted' = accepted \cup {m}
    /\ Holds(held \cup {m}) /\ Loses(held \cup {m})
    /\ UNCHANGED arrived

Arrive(m) ==
    /\ m \in held
    /\ arrived' = arrived \cup {m}
    /\ Holds(held)
    /\ UNCHANGED <<accepted, givenUp, cut>>

Lapse ==
    /\ Holds(held) /\ Loses(held)
    /\ UNCHANGED <<accepted, arrived>>

Next == (\E m \in Msg : Accept(m) \/ Arrive(m)) \/ Lapse

Spec == Init /\ [][Next]_vars
=============================================================================
