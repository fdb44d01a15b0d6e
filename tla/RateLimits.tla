----------------------------- MODULE RateLimits -----------------------------
(***************************************************************************)
(* The rate limiters of the relay (relay/server.py): the token bucket of a *)
(* connection and the limit on challenges per address.  Tokens are counted *)
(* in the smallest unit a tick can add, so that fractions of a token are   *)
(* exact; times are kept as ages.  After a refusal the relay closes the    *)
(* connection; here its bucket may go on, which allows more behaviours.    *)
(***************************************************************************)
EXTENDS Integers, FiniteSets

CONSTANTS
    Rate,         \* units a tick adds
    Cost,         \* units in one token, the price of a message
    Burst,        \* capacity of the bucket, in units
    MaxIdle,      \* bound: ticks between two calls of consume
    MaxChallenges,\* 10: challenges per address ...
    Minute,       \* ... in 60 s, in ticks
    Ticket        \* bound: names of the challenges of an address, used again
                  \* when none remembers them

ASSUME BucketAssumption == Rate \in Nat /\ Cost \in Nat /\ Burst \in Nat

ASSUME ChallengeAssumption == MaxChallenges \in Nat /\ Minute \in Nat \ {0}

VARIABLES
    tokens,       \* TokenBucket.tokens
    refilled,     \* time since TokenBucket._last_refill
    debt,         \* ghost: the most by which what was let through in some
                  \* interval up to now exceeds what the rate allows for it
    issued,       \* _challenge_rate_limits[ip]: challenge |-> age
    recent        \* ghost: challenge |-> age, all those issued in the last Minute

bucket == <<tokens, refilled, debt>>
challenges == <<issued, recent>>
vars == <<tokens, refilled, debt, issued, recent>>

Least(a, b) == IF a <= b THEN a ELSE b
Most(a, b) == IF a >= b THEN a ELSE b

Init ==
    /\ tokens = Burst /\ refilled = 0 /\ debt = 0
    /\ issued = <<>> /\ recent = <<>>

\* Mutant: the refill is not capped.
RefilledUncapped == tokens + refilled * Rate

\* min(burst, tokens + elapsed * rate)
Refilled == Least(Burst, tokens + refilled * Rate)

\* consume() returns True.
Admit ==
    /\ Refilled >= Cost
    /\ tokens' = Refilled - Cost
    /\ refilled' = 0
    /\ debt' = debt + Cost
    /\ UNCHANGED challenges

\* consume() returns False, having refilled all the same.
Reject ==
    /\ Refilled < Cost
    /\ tokens' = Refilled
    /\ refilled' = 0
    /\ UNCHANGED <<debt, challenges>>

\* Mutant: a challenge counts until the minute is over, not while it lasts.
InMinuteShort(age) == age < Minute - 1

\* now - t < 60
InMinute(age) == age < Minute

Kept == {c \in DOMAIN issued : InMinute(issued[c])}

Unused == Ticket \ (Kept \cup DOMAIN recent)

\* f with a new challenge c, of its entries only those in S.
Noted(f, S, c) == [d \in S \cup {c} |-> IF d = c THEN 0 ELSE f[d]]

\* _initiate_challenge up to the limit: old entries go, in any case.
Challenge ==
    /\ IF Cardinality(Kept) < MaxChallenges
       THEN LET c == CHOOSE d \in Unused : TRUE
            IN  /\ Unused # {}
                /\ issued' = Noted(issued, Kept, c)
                /\ recent' = Noted(recent, DOMAIN recent, c)
       ELSE issued' = [c \in Kept |-> issued[c]] /\ UNCHANGED recent
    /\ UNCHANGED bucket

\* The challenges grow older.
Age ==
    /\ issued' = [c \in DOMAIN issued |-> Least(issued[c] + 1, Minute)]
    /\ recent' = [c \in {d \in DOMAIN recent : recent[d] + 1 < Minute} |-> recent[c] + 1]

Tick ==
    /\ refilled < MaxIdle
    /\ refilled' = refilled + 1
    /\ debt' = Most(0, debt - Rate)
    /\ UNCHANGED tokens
    /\ Age

Next == Admit \/ Reject \/ Challenge \/ Tick

Spec == Init /\ [][Next]_vars

-----------------------------------------------------------------------------
(* Properties *)

\* "rate: tokens replenished per second (sustained throughput)", "burst: max
\* tokens": in no interval, wherever it starts, does a connection get more
\* messages through than the burst and the rate over the interval allow.
Throughput == debt <= Burst

\* "max 10 challenges/minute": in no period of 60 s, wherever it starts, are
\* there more challenges for an address.
ChallengesPerMinute == Cardinality(DOMAIN recent) <= MaxChallenges
=============================================================================
