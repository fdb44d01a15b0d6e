---------------------------- MODULE ReplicatedMap ----------------------------
(***************************************************************************)
(* What shared memory promises, without timestamps being compared one at a *)
(* time, locks, databases or snapshots: every agent knows a set of writes, *)
(* reads for each key the greatest write it knows, learns only writes that *)
(* some agent made, and makes writes greater than all it knows.  Agents    *)
(* that know the same writes therefore read the same map.                  *)
(***************************************************************************)
EXTENDS Naturals

CONSTANTS Node, Key, Value, None

Entry == [ts : Nat, writer : Node, value : Value]
Slot == Key \X Entry

VARIABLES
    written,    \* all writes ever made, as <<key, entry>>
    known,      \* the writes each agent knows
    read        \* what each agent reads

vars == <<written, known, read>>

\* The total order of entries: Lamport time, then writer, then value.
Above(e, f) ==
    \/ e.ts > f.ts
    \/ e.ts = f.ts /\ e.writer > f.writer
    \/ e.ts = f.ts /\ e.writer = f.writer /\ e.value > f.value

\* r[k] is the greatest entry that the set S of writes has for k, if any.
Reads(r, S) ==
    \A k \in Key :
        /\ r[k] # None => <<k, r[k]>> \in S
        /\ \A w \in S : w[1] = k => r[k] # None /\ ~Above(w[2], r[k])

Init ==
    /\ written = {}
    /\ known = [n \in Node |-> {}]
    /\ read = [n \in Node |-> [k \in Key |-> None]]

\* Agent n comes to know w, and reads accordingly.
Knows(n, w) ==
    /\ known' = [known EXCEPT ![n] = @ \cup {w}]
    /\ \A m \in Node \ {n} : read'[m] = read[m]
    /\ Reads(read'[n], known'[n])

Write(n) ==
    \E w \in written' :
        /\ w[2].writer = n
        /\ \A x \in known[n] : w[2].ts > x[2].ts
        /\ written' = written \cup {w}
        /\ Knows(n, w)

Learn(n) ==
    /\ UNCHANGED written
    /\ \E w \in written : Knows(n, w)

\* A restart: what was known is learnt again, from disk or from peers.
Forget(n) ==
    /\ UNCHANGED written
    /\ known' = [known EXCEPT ![n] = {}]
    /\ read' = [read EXCEPT ![n] = [k \in Key |-> None]]

Next == \E n \in Node : Write(n) \/ Learn(n) \/ Forget(n)

Spec == Init /\ [][Next]_vars
=============================================================================
