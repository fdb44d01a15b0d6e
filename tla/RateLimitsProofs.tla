-------------------------- MODULE RateLimitsProofs --------------------------
(***************************************************************************)
(* The limiters of relay/server.py.  The token bucket, for every rate,     *)
(* burst and price of a message: what it lets through in any interval is   *)
(* bounded.  The challenges of an address: in no minute, wherever it       *)
(* begins, are there more than the limit.                                  *)
(***************************************************************************)
EXTENDS RateLimits, FiniteSetTheorems, TLAPS

\* What is left in the bucket and what has been let through beyond the rate
\* never exceed the burst together.
BucketInv ==
    /\ tokens \in Nat /\ refilled \in Nat /\ debt \in Nat
    /\ tokens <= Burst
    /\ debt + Refilled <= Burst

\* One more tick adds one more Rate, before the cap.
LEMMA OneMoreTick ==
    ASSUME NEW n \in Nat
    PROVE  n * Rate \in Nat /\ (n + 1) * Rate = n * Rate + Rate
BY BucketAssumption

\* A bucket just filled (refilled = 0) holds its tokens.
LEMMA NothingToRefill ==
    ASSUME NEW t \in Nat, t <= Burst
    PROVE  Least(Burst, t + 0 * Rate) = t
BY BucketAssumption DEF Least

\* A tick repays what it adds to the bucket.
LEMMA TickRepays ==
    ASSUME NEW d \in Nat, NEW r \in Nat, NEW s \in Nat,
           d + r <= Burst, s <= r + Rate, s <= Burst
    PROVE  Most(0, d - Rate) \in Nat /\ Most(0, d - Rate) + s <= Burst
<1>1. CASE d >= Rate
  BY <1>1, BucketAssumption DEF Most
<1>2. CASE ~(d >= Rate)
  BY <1>2, BucketAssumption DEF Most
<1> QED BY <1>1, <1>2

\* The bucket of a new connection is full, and nothing has been let through.
LEMMA BucketInit == Init => BucketInv
BY BucketAssumption, NothingToRefill DEF Init, BucketInv, Refilled

\* consume(), and time, keep the balance of BucketInv.
LEMMA BucketStep == BucketInv /\ [Next]_vars => BucketInv'
<1> SUFFICES ASSUME BucketInv, [Next]_vars PROVE BucketInv'
  OBVIOUS
<1>1. refilled * Rate \in Nat
  BY OneMoreTick DEF BucketInv
<1>2. Refilled \in Nat /\ Refilled <= Burst
  BY <1>1, BucketAssumption DEF BucketInv, Refilled, Least
<1>3. ASSUME refilled' = 0, tokens' \in Nat, tokens' <= Burst
      PROVE  Refilled' = tokens'
  BY <1>3, NothingToRefill DEF Refilled
<1>4. CASE Admit
  <2>1. tokens' \in Nat /\ tokens' <= Burst
    BY <1>2, <1>4, BucketAssumption DEF Admit
  <2>2. Refilled' = Refilled - Cost
    BY <1>3, <1>4, <2>1 DEF Admit
  <2> QED BY <1>2, <1>4, <2>1, <2>2, BucketAssumption DEF Admit, BucketInv
<1>5. CASE Reject
  <2>1. Refilled' = Refilled
    BY <1>2, <1>3, <1>5 DEF Reject
  <2> QED BY <1>2, <1>5, <2>1 DEF Reject, BucketInv
<1>6. CASE Challenge
  BY <1>6 DEF Challenge, bucket, BucketInv, Refilled
<1>7. CASE Tick
  <2>1. Refilled' <= Refilled + Rate /\ Refilled' <= Burst /\ Refilled' \in Nat
    <3>1. refilled' * Rate = refilled * Rate + Rate
      BY <1>7, OneMoreTick DEF Tick, BucketInv
    <3> QED BY <1>1, <1>7, <3>1, BucketAssumption DEF Tick, BucketInv, Refilled, Least
  <2>2. debt' \in Nat /\ debt' + Refilled' <= Burst
    BY <1>2, <1>7, <2>1, TickRepays DEF Tick, BucketInv
  <2> QED BY <1>7, <2>1, <2>2 DEF Tick, BucketInv
<1>8. CASE UNCHANGED vars
  BY <1>8 DEF vars, BucketInv, Refilled
<1> QED BY <1>4, <1>5, <1>6, <1>7, <1>8 DEF Next

\* TokenBucket: in no interval does a connection get more messages through
\* consume() than the burst and the rate over that interval allow.
THEOREM BucketThroughput == Spec => []Throughput
<1>1. BucketInv => Throughput
  <2> SUFFICES ASSUME BucketInv PROVE Throughput
    OBVIOUS
  <2>1. refilled * Rate \in Nat
    BY OneMoreTick DEF BucketInv
  <2> QED BY <2>1, BucketAssumption DEF BucketInv, Throughput, Refilled, Least
<1> QED BY <1>1, BucketInit, BucketStep, PTL DEF Spec

\* The list of an address holds all its challenges of the last minute, with their
\* ages: those it drops are no longer of any interest.
ChallengeInv ==
    /\ \A c \in DOMAIN issued : issued[c] \in Nat
    /\ DOMAIN recent = Kept /\ \A c \in Kept : recent[c] = issued[c]
    /\ IsFiniteSet(Kept) /\ Cardinality(Kept) <= MaxChallenges

LEMMA ChallengeInit == Init => ChallengeInv
<1> SUFFICES ASSUME Init PROVE ChallengeInv
  OBVIOUS
<1>1. DOMAIN issued = {} /\ DOMAIN recent = {}
  BY DEF Init
<1>2. Kept = {}
  BY <1>1 DEF Kept
<1>3. IsFiniteSet({}) /\ Cardinality({}) <= MaxChallenges
  BY FS_EmptySet, ChallengeAssumption
<1> QED BY <1>1, <1>2, <1>3 DEF ChallengeInv

LEMMA ChallengeStep == ChallengeInv /\ [Next]_vars => ChallengeInv'
<1> SUFFICES ASSUME ChallengeInv, [Next]_vars PROVE ChallengeInv'
  OBVIOUS
<1>0. /\ Minute \in Nat \ {0} /\ MaxChallenges \in Nat /\ DOMAIN recent = Kept /\ IsFiniteSet(Kept)
      /\ Cardinality(Kept) <= MaxChallenges /\ \A c \in Kept : recent[c] = issued[c]
  BY ChallengeAssumption DEF ChallengeInv
<1>1. \A c \in DOMAIN issued : issued[c] \in Nat /\ (c \in Kept <=> issued[c] < Minute)
  BY DEF ChallengeInv, Kept, InMinute
<1>2. Kept \subseteq DOMAIN issued /\ Kept' = {c \in DOMAIN issued' : issued'[c] < Minute}
  BY DEF Kept, InMinute
<1>3. CASE Challenge /\ Cardinality(Kept) < MaxChallenges
  <2>1. PICK c : /\ c \in Unused /\ issued' = Noted(issued, Kept, c)
                 /\ recent' = Noted(recent, DOMAIN recent, c)
    BY <1>3 DEF Challenge
  <2>2. c \notin Kept
    BY <2>1 DEF Unused
  <2>3. /\ DOMAIN issued' = Kept \cup {c} /\ DOMAIN recent' = Kept \cup {c}
        /\ issued'[c] = 0 /\ recent'[c] = 0
        /\ \A d \in Kept : issued'[d] = issued[d] /\ recent'[d] = recent[d]
    BY <1>0, <2>1, <2>2 DEF Noted
  <2>4. Kept' = Kept \cup {c}
    BY <1>0, <1>1, <1>2, <2>3
  <2>5. IsFiniteSet(Kept \cup {c}) /\ Cardinality(Kept \cup {c}) = Cardinality(Kept) + 1 /\ Cardinality(Kept) \in Nat
    BY <1>0, <2>2, FS_AddElement, FS_CardinalityType
  <2>6. Cardinality(Kept \cup {c}) <= MaxChallenges
    BY <1>0, <1>3, <2>5
  <2>7. \A d \in Kept \cup {c} : issued'[d] \in Nat /\ recent'[d] = issued'[d]
    BY <1>0, <1>1, <1>2, <2>3
  <2> QED BY <2>3, <2>4, <2>5, <2>6, <2>7 DEF ChallengeInv
<1>4. CASE Challenge /\ ~(Cardinality(Kept) < MaxChallenges)
  <2>1. issued' = [c \in Kept |-> issued[c]] /\ recent' = recent
    BY <1>4 DEF Challenge
  <2>2. Kept' = Kept
    BY <1>1, <1>2, <2>1
  <2> QED BY <1>0, <1>1, <1>2, <2>1, <2>2 DEF ChallengeInv
<1>5. CASE Tick
  <2>1. /\ issued' = [c \in DOMAIN issued |-> Least(issued[c] + 1, Minute)]
        /\ recent' = [c \in {d \in DOMAIN recent : recent[d] + 1 < Minute} |-> recent[c] + 1]
    BY <1>5 DEF Tick, Age
  <2>2. ASSUME NEW c \in DOMAIN issued
        PROVE  /\ issued'[c] \in Nat /\ (issued'[c] < Minute <=> issued[c] + 1 < Minute)
               /\ issued[c] + 1 < Minute => issued'[c] = issued[c] + 1 /\ c \in Kept
    <3>1. issued[c] \in Nat
      BY <1>1
    <3>2. issued'[c] = IF issued[c] + 1 <= Minute THEN issued[c] + 1 ELSE Minute
      BY <2>1 DEF Least
    <3> QED BY <1>0, <1>1, <3>1, <3>2
  <2>3. DOMAIN issued' = DOMAIN issued /\ Kept' = {c \in DOMAIN issued : issued[c] + 1 < Minute}
    BY <1>2, <2>1, <2>2
  <2>4. Kept' \subseteq Kept
    BY <2>2, <2>3
  <2>5. DOMAIN recent' = Kept' /\ \A c \in Kept' : recent'[c] = issued'[c]
    <3>1. {d \in DOMAIN recent : recent[d] + 1 < Minute} = Kept'
      <4>1. \A d \in Kept : recent[d] = issued[d] /\ d \in DOMAIN issued
        BY <1>0, <1>2
      <4>2. \A d \in DOMAIN issued : issued[d] + 1 < Minute => d \in Kept
        BY <2>2
      <4> QED BY <1>0, <2>3, <4>1, <4>2
    <3>2. DOMAIN recent' = Kept' /\ \A c \in Kept' : recent'[c] = recent[c] + 1
      BY <2>1, <3>1
    <3> QED BY <1>0, <2>2, <2>3, <2>4, <3>2
  <2>6. IsFiniteSet(Kept') /\ Cardinality(Kept') <= Cardinality(Kept) /\ Cardinality(Kept') \in Nat /\ Cardinality(Kept) \in Nat
    BY <1>0, <2>4, FS_Subset, FS_CardinalityType
  <2>7. Cardinality(Kept') <= MaxChallenges
    BY <1>0, <2>6
  <2> QED BY <2>2, <2>3, <2>5, <2>6, <2>7 DEF ChallengeInv
<1>6. CASE UNCHANGED challenges
  <2>1. issued' = issued /\ recent' = recent
    BY <1>6 DEF challenges
  <2>2. Kept' = Kept
    BY <2>1 DEF Kept, InMinute
  <2> QED BY <1>0, <1>1, <2>1, <2>2 DEF ChallengeInv
<1> QED BY <1>3, <1>4, <1>5, <1>6 DEF Next, Admit, Reject, vars, challenges

\* _initiate_challenge: in no period of a minute, wherever it begins, does an
\* address get more than MaxChallenges challenges, although the list is only
\* looked through when one is asked for.
THEOREM ChallengesLimited == Spec => []ChallengesPerMinute
<1>1. ChallengeInv => ChallengesPerMinute
  BY DEF ChallengeInv, ChallengesPerMinute
<1> QED BY <1>1, ChallengeInit, ChallengeStep, PTL DEF Spec
=============================================================================
