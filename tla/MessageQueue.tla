---------------------------- MODULE MessageQueue ----------------------------
(***************************************************************************)
(* The per-peer dead-letter queue of tpcp/core/queue.py as operators on a  *)
(* sequence.  Every method body runs under an asyncio.Lock and contains no *)
(* await, so each is one atomic step of its caller.                        *)
(***************************************************************************)
EXTENDS Naturals, Sequences

CONSTANT MaxSize    \* max_size_per_peer

ASSUME MaxSizeAssumption == MaxSize \in Nat \ {0}

Elems(q) == {q[i] : i \in DOMAIN q}

Full(q) == Len(q) >= MaxSize

\* Mutant: a full queue gives up nothing.
EnqueueUnbounded(q, m) == Append(q, m)

\* enqueue: a full queue gives up its oldest message.
Enqueue(q, m) == Append(IF Full(q) THEN Tail(q) ELSE q, m)
EnqueueEvicts(q) == IF Full(q) THEN {Head(q)} ELSE {}

\* enqueue_front: a full queue gives up its newest message.
EnqueueFront(q, m) == <<m>> \o (IF Full(q) THEN SubSeq(q, 1, Len(q) - 1) ELSE q)
EnqueueFrontEvicts(q) == IF Full(q) THEN {q[Len(q)]} ELSE {}

\* dequeue_one and has_messages.
DequeueOne(q) == Tail(q)
HasMessages(q) == q # <<>>
=============================================================================
