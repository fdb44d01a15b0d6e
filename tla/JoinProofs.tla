----------------------------- MODULE JoinProofs -----------------------------
(***************************************************************************)
(* What ChunkReassembler._reassemble gives back: a list of chunks that has *)
(* each index of a transfer once, in any order, sorted and joined, is the  *)
(* payload.  The join is a fold, and the argument an induction, which is   *)
(* carried out on the least number for which a statement fails.            *)
(***************************************************************************)
EXTENDS MCServices, FiniteSetTheorems, SequenceTheorems, TLAPS

\* The least-number principle, for a set.
LEMMA LeastOf ==
    ASSUME NEW A, A \subseteq Nat, A # {}
    PROVE  \E m \in A : \A k \in A : m <= k
<1>1. PICK m \in A : \A k \in A : <<k, m>> \notin OpToRel(<, Nat)
  BY NatLessThanWellFounded, WFMin
<1>2. \A k \in A : ~(k < m)
  BY <1>1 DEF OpToRel
<1> QED BY <1>2

LEMMA GreatestOf ==
    ASSUME NEW n \in Nat, NEW u \in SUBSET (1..n), u # {}
    PROVE  T!Max(u) \in u /\ \A x \in u : x <= T!Max(u)
<1> DEFINE A == {m \in Nat : \A x \in u : x <= m}
<1>1. A \subseteq Nat /\ n \in A
  OBVIOUS
<1>2. PICK m \in A : \A k \in A : m <= k
  <2> HIDE DEF A
  <2> QED BY <1>1, LeastOf
<1>3. m \in u
  <2> SUFFICES ASSUME m \notin u PROVE FALSE
    OBVIOUS
  <2>1. \A x \in u : x \in Nat /\ x >= 1 /\ x <= m /\ x # m
    OBVIOUS
  <2>2. PICK x \in u : TRUE
    OBVIOUS
  <2>3. m - 1 \in Nat /\ \A y \in u : y <= m - 1
    BY <2>1, <2>2
  <2> QED BY <1>2, <2>3
<1>4. \E g \in u : \A y \in u : g >= y
  BY <1>3
<1>5. T!Max(u) \in u /\ \A y \in u : T!Max(u) >= y
  BY <1>4 DEF T!Max
<1> QED BY <1>5

-----------------------------------------------------------------------------
(* sorted() *)

Indexed(list) == {list[k][1] : k \in DOMAIN list}

Once(list) == \A j, k \in DOMAIN list : list[j][1] = list[k][1] => j = k

\* A list that has each index below n once.
Complete(list, n) ==
    /\ Len(list) \in Nat /\ DOMAIN list = 1..Len(list)
    /\ Indexed(list) = 0..(n - 1)
    /\ Once(list)

\* A list that has each index below n once is n long.
LEMMA CompleteLength ==
    ASSUME NEW n \in Nat, NEW list, Complete(list, n)
    PROVE  DOMAIN list = 1..n
<1>1. Len(list) \in Nat /\ DOMAIN list = 1..Len(list)
  BY DEF Complete
<1> DEFINE f == [k \in 1..Len(list) |-> list[k][1]]
<1>2. f \in Bijection(1..Len(list), 0..(n - 1))
  <2>1. f \in [1..Len(list) -> 0..(n - 1)]
    BY <1>1 DEF Complete, Indexed, Once
  <2>2. IsInjective(f)
    BY <1>1 DEF Complete, Once, IsInjective
  <2>3. \A i \in 0..(n - 1) : \E k \in 1..Len(list) : f[k] = i
    BY <1>1 DEF Complete, Indexed, Once
  <2> QED BY <2>1, <2>2, <2>3 DEF Bijection, Injection, Surjection
<1>3. Cardinality(1..Len(list)) = Cardinality(0..(n - 1)) /\ IsFiniteSet(1..Len(list))
  <2>1. ExistsBijection(1..Len(list), 0..(n - 1))
    BY <1>2 DEF ExistsBijection
  <2>2. IsFiniteSet(1..Len(list))
    BY <1>1, FS_Interval
  <2> QED BY <2>1, <2>2, FS_Bijection
<1>4. Cardinality(1..Len(list)) = Len(list)
  <2>1. ASSUME NEW m \in Nat PROVE Cardinality(1..m) = m
    <3>1. Cardinality(1..m) = IF 1 > m THEN 0 ELSE m - 1 + 1
      BY FS_Interval
    <3> QED BY <3>1
  <2> QED BY <1>1, <2>1
<1>5. Cardinality(0..(n - 1)) = n
  BY FS_Interval
<1> QED BY <1>1, <1>3, <1>4, <1>5

\* sorted() puts the entry with index k - 1 at place k: the least place k with
\* another entry e has a greater index than k - 1, since the smaller ones are
\* taken, so the entry with index k - 1 comes later although it should precede e.
LEMMA SortedComplete ==
    ASSUME NEW n \in Nat, NEW list, Complete(list, n)
    PROVE  /\ DOMAIN T!Sorted(list) = 1..n
           /\ \A k \in 1..n : /\ \E j \in DOMAIN list : T!Sorted(list)[k] = list[j]
                              /\ T!Sorted(list)[k][1] = k - 1
<1> DEFINE InOrder(p) == \A j, k \in 1..n : j < k => list[p[j]][1] <= list[p[k]][1]
           Orders == T!Bijection(1..n, 1..n)
           order == CHOOSE p \in Orders : InOrder(p)
<1>1. DOMAIN list = 1..n
  BY CompleteLength
<1>2. T!Sorted(list) = [k \in 1..n |-> list[order[k]]]
  BY <1>1 DEF T!Sorted
<1>3. /\ \A j \in 1..n : list[j][1] \in 0..(n - 1)
      /\ \A j, k \in 1..n : list[j][1] = list[k][1] => j = k
      /\ \A i \in 0..(n - 1) : \E j \in 1..n : list[j][1] = i
  BY <1>1 DEF Complete, Indexed, Once
<1>4. \E p \in Orders : InOrder(p)
  <2> DEFINE at(k) == CHOOSE j \in 1..n : list[j][1] = k - 1
             p == [k \in 1..n |-> at(k)]
  <2>1. \A k \in 1..n : at(k) \in 1..n /\ list[at(k)][1] = k - 1
    <3> SUFFICES ASSUME NEW k \in 1..n PROVE at(k) \in 1..n /\ list[at(k)][1] = k - 1
      OBVIOUS
    <3>1. \E j \in 1..n : list[j][1] = k - 1
      BY <1>3
    <3> QED BY <3>1
  <2> HIDE DEF at
  <2>2. p \in [1..n -> 1..n] /\ \A k \in 1..n : list[p[k]][1] = k - 1
    BY <2>1
  <2> HIDE DEF p
  <2>3. T!IsInjective(p)
    <3>1. DOMAIN p = 1..n
      BY <2>2
    <3>2. ASSUME NEW j \in 1..n, NEW k \in 1..n, p[j] = p[k] PROVE j = k
      <4>1. list[p[j]][1] = j - 1 /\ list[p[k]][1] = k - 1
        BY <2>2
      <4> QED BY <3>2, <4>1
    <3> QED BY <3>1, <3>2 DEF T!IsInjective
  <2>4. \A j \in 1..n : \E k \in 1..n : p[k] = j
    <3> SUFFICES ASSUME NEW j \in 1..n PROVE \E k \in 1..n : p[k] = j
      OBVIOUS
    <3>1. PICK k \in 1..n : k - 1 = list[j][1]
      <4>1. \A i \in 0..(n - 1) : \E k \in 1..n : k - 1 = i
        <5> SUFFICES ASSUME NEW i \in 0..(n - 1) PROVE \E k \in 1..n : k - 1 = i
          OBVIOUS
        <5>1. i + 1 \in 1..n /\ (i + 1) - 1 = i
          OBVIOUS
        <5> QED BY <5>1
      <4> QED BY <1>3, <4>1
    <3>2. p[k] \in 1..n /\ list[p[k]][1] = list[j][1]
      BY <2>2, <3>1
    <3>3. p[k] = j
      BY <1>3, <3>2
    <3> QED BY <3>3
  <2>5. p \in Orders
    BY <2>2, <2>3, <2>4 DEF T!Bijection, T!Injection, T!Surjection
  <2>6. InOrder(p)
    BY <2>2
  <2> QED BY <2>5, <2>6
<1>5. order \in Orders /\ InOrder(order)
  BY <1>4
<1> HIDE DEF order
<1>6. /\ \A k \in 1..n : order[k] \in 1..n
      /\ \A j, k \in 1..n : order[j] = order[k] => j = k
      /\ \A j \in 1..n : \E k \in 1..n : order[k] = j
  BY <1>5 DEF T!Bijection, T!Injection, T!Surjection, T!IsInjective
<1> DEFINE g == [k \in 1..n |-> list[order[k]][1]]
<1>8. \A k \in 1..n : g[k] = list[order[k]][1]
  OBVIOUS
<1> HIDE DEF g
<1>7. /\ \A k \in 1..n : g[k] \in 0..(n - 1)
      /\ \A j, k \in 1..n : g[j] = g[k] => j = k
      /\ \A i \in 0..(n - 1) : \E k \in 1..n : g[k] = i
      /\ \A j, k \in 1..n : j < k => g[j] <= g[k]
  <2>1. \A k \in 1..n : g[k] \in 0..(n - 1)
    BY <1>3, <1>6, <1>8
  <2>2. ASSUME NEW j \in 1..n, NEW k \in 1..n, g[j] = g[k] PROVE j = k
    <3>1. PICK a \in 1..n, b \in 1..n : a = order[j] /\ b = order[k]
      BY <1>6
    <3>2. list[a][1] = list[b][1]
      BY <1>8, <2>2, <3>1
    <3>3. a = b
      BY <1>3, <3>2
    <3> QED BY <1>6, <3>1, <3>3
  <2>3. ASSUME NEW i \in 0..(n - 1) PROVE \E k \in 1..n : g[k] = i
    <3>1. PICK j \in 1..n : list[j][1] = i
      BY <1>3
    <3>2. PICK k \in 1..n : order[k] = j
      BY <1>6
    <3> QED BY <1>8, <3>1, <3>2
  <2>4. \A j, k \in 1..n : j < k => g[j] <= g[k]
    BY <1>5, <1>8
  <2> QED BY <2>1, <2>2, <2>3, <2>4
<1>9. \A k \in 1..n : g[k] = k - 1
  <2> DEFINE B == {k \in 1..n : g[k] # k - 1}
  <2> SUFFICES ASSUME B # {} PROVE FALSE
    OBVIOUS
  <2>1. PICK k \in B : \A j \in B : k <= j
    <3>1. B \subseteq Nat
      OBVIOUS
    <3> HIDE DEF B
    <3> QED BY <3>1, LeastOf
  <2>2. k \in 1..n /\ g[k] # k - 1 /\ \A j \in 1..n : j < k => g[j] = j - 1
    BY <2>1
  <2>3. g[k] > k - 1
    <3> SUFFICES ASSUME g[k] < k - 1 PROVE FALSE
      BY <1>7, <2>2
    <3>1. g[k] + 1 \in 1..n /\ g[k] + 1 < k
      BY <1>7, <2>2
    <3>2. g[g[k] + 1] = g[k]
      BY <1>7, <2>2, <3>1
    <3> QED BY <1>7, <2>2, <3>1, <3>2
  <2>4. PICK m \in 1..n : g[m] = k - 1
    BY <1>7, <2>2
  <2>5. m > k
    BY <2>2, <2>4
  <2> QED BY <1>7, <2>2, <2>3, <2>4, <2>5
<1> QED BY <1>1, <1>2, <1>6, <1>8, <1>9

-----------------------------------------------------------------------------
(* b"".join *)

\* it is the fold of the join over the places in d: of a set of places, the data of
\* the greatest comes after that of the others.
Appends(q, it, d) ==
    it = [s \in SUBSET d |-> IF s = {} THEN <<>> ELSE it[s \ {T!Max(s)}] \o q[T!Max(s)][2]]

\* There is such a function, for any number of places: from one for k places comes
\* one for k + 1.
LEMMA FoldExists ==
    ASSUME NEW q, NEW n \in Nat
    PROVE  \E it : Appends(q, it, 1..n)
<1> DEFINE B == {k \in Nat : ~\E it : Appends(q, it, 1..k)}
<1> SUFFICES ASSUME B # {} PROVE FALSE
  OBVIOUS
<1>1. PICK k \in B : \A j \in B : k <= j
  <2>1. B \subseteq Nat
    OBVIOUS
  <2> HIDE DEF B
  <2> QED BY <2>1, LeastOf
<1>2. k # 0
  <2> SUFFICES ASSUME k = 0 PROVE FALSE
    OBVIOUS
  <2> DEFINE it == [s \in SUBSET (1..0) |-> <<>>]
  <2>1. \A s \in SUBSET (1..0) : s = {}
    OBVIOUS
  <2>2. Appends(q, it, 1..0)
    BY <2>1 DEF Appends
  <2> QED BY <1>1, <2>2
<1>3. PICK it : Appends(q, it, 1..(k - 1))
  <2>1. k - 1 \in Nat /\ k - 1 \notin B
    BY <1>1, <1>2
  <2> QED BY <2>1
<1> DEFINE more == [s \in SUBSET (1..k) |-> IF s = {} THEN <<>> ELSE it[s \ {T!Max(s)}] \o q[T!Max(s)][2]]
<1>4. \A s \in SUBSET (1..(k - 1)) : more[s] = it[s]
  <2> SUFFICES ASSUME NEW s \in SUBSET (1..(k - 1)) PROVE more[s] = it[s]
    OBVIOUS
  <2>1. s \in SUBSET (1..k)
    BY <1>1
  <2>2. it[s] = IF s = {} THEN <<>> ELSE it[s \ {T!Max(s)}] \o q[T!Max(s)][2]
    BY <1>3 DEF Appends
  <2> QED BY <2>1, <2>2
<1>5. ASSUME NEW s \in SUBSET (1..k), s # {} PROVE s \ {T!Max(s)} \in SUBSET (1..(k - 1))
  <2>1. T!Max(s) \in s /\ \A x \in s : x <= T!Max(s)
    BY <1>1, <1>5, GreatestOf
  <2>2. PICK g : g = T!Max(s)
    OBVIOUS
  <2>3. k \in Nat /\ g \in 1..k /\ \A x \in s : x \in 1..k /\ x <= g
    BY <1>1, <2>1, <2>2
  <2>4. \A x \in s \ {g} : x \in 1..(k - 1)
    <3> SUFFICES ASSUME NEW x \in s, x # g PROVE x \in 1..(k - 1)
      OBVIOUS
    <3>1. x \in 1..k /\ x < g
      BY <2>3
    <3> QED BY <2>3, <3>1
  <2> QED BY <2>2, <2>4
<1>6. Appends(q, more, 1..k)
  <2>1. \A s \in SUBSET (1..k) : more[s] = IF s = {} THEN <<>> ELSE it[s \ {T!Max(s)}] \o q[T!Max(s)][2]
    OBVIOUS
  <2>2. more = [s \in SUBSET (1..k) |-> more[s]]
    OBVIOUS
  <2> HIDE DEF more
  <2>3. ASSUME NEW s \in SUBSET (1..k)
        PROVE  more[s] = IF s = {} THEN <<>> ELSE more[s \ {T!Max(s)}] \o q[T!Max(s)][2]
    <3>1. CASE s = {}
      BY <2>1, <3>1
    <3>2. CASE s # {}
      <4>1. more[s \ {T!Max(s)}] = it[s \ {T!Max(s)}]
        BY <1>4, <1>5, <3>2
      <4>2. more[s] = it[s \ {T!Max(s)}] \o q[T!Max(s)][2]
        BY <2>1, <3>2
      <4> QED BY <3>2, <4>1, <4>2
    <3> QED BY <3>1, <3>2
  <2>4. [s \in SUBSET (1..k) |-> more[s]]
        = [s \in SUBSET (1..k) |-> IF s = {} THEN <<>> ELSE more[s \ {T!Max(s)}] \o q[T!Max(s)][2]]
    BY <2>3
  <2> QED BY <2>2, <2>4 DEF Appends
<1> QED BY <1>1, <1>6

LEMMA JoinFolds ==
    ASSUME NEW list, NEW n \in Nat, DOMAIN T!Sorted(list) = 1..n
    PROVE  \E it : Appends(T!Sorted(list), it, 1..n) /\ T!Join(list) = it[1..n]
<1> DEFINE q == T!Sorted(list)
           it == CHOOSE f : f = [s \in SUBSET (DOMAIN q) |-> IF s = {} THEN <<>> ELSE f[s \ {T!Max(s)}] \o q[T!Max(s)][2]]
<1>1. T!Join(list) = it[DOMAIN q]
  BY DEF T!Join, T!FoldLeft, T!MapThenFoldSet
<1>2. \E f : f = [s \in SUBSET (DOMAIN q) |-> IF s = {} THEN <<>> ELSE f[s \ {T!Max(s)}] \o q[T!Max(s)][2]]
  <2>1. PICK f : Appends(q, f, 1..n)
    BY FoldExists
  <2>2. f = [s \in SUBSET (DOMAIN q) |-> IF s = {} THEN <<>> ELSE f[s \ {T!Max(s)}] \o q[T!Max(s)][2]]
    BY <2>1 DEF Appends
  <2> QED BY <2>2
<1>3. it = [s \in SUBSET (DOMAIN q) |-> IF s = {} THEN <<>> ELSE it[s \ {T!Max(s)}] \o q[T!Max(s)][2]]
  BY <1>2
<1> HIDE DEF it, q
<1>4. DOMAIN q = 1..n
  BY DEF q
<1>5. Appends(q, it, 1..n)
  BY <1>3, <1>4 DEF Appends
<1> QED BY <1>1, <1>4, <1>5 DEF q

-----------------------------------------------------------------------------
(* The chunks *)

\* The payload's first m bytes.
UpTo(t, m) == [x \in 1..m |-> <<t, x>>]

\* math.ceil: the chunks together are as long as the payload, and none is empty.
LEMMA CeilBounds ==
    ASSUME NEW t \in Transfers
    PROVE  /\ T!TotalChunks(t) \in Nat
           /\ T!TotalChunks(t) * ChunkSize >= Size[t]
           /\ \A j \in Nat : j < T!TotalChunks(t) => j * ChunkSize < Size[t]
<1>1. PICK c \in Nat \ {0}, z \in Nat \ {0} : c = ChunkSize /\ z = Size[t]
  BY TransferAssumption
<1>2. PICK n \in Nat : n = (z + c - 1) \div c
  BY <1>1
<1>3. c * n <= z + c - 1 /\ z + c - 1 < c * n + c
  BY <1>2
<1>4. n * c >= z /\ \A j \in Nat : j < n => j * c < z
  <2>1. PICK p \in Nat : p = c * n /\ p = n * c
    BY <1>1, <1>2
  <2>2. ASSUME NEW j \in Nat, j < n PROVE j * c < z
    <3>1. PICK d \in Nat : n = j + 1 + d
      BY <1>2, <2>2
    <3>2. p = j * c + c + d * c
      BY <2>1, <3>1
    <3>3. j * c \in Nat /\ d * c \in Nat
      OBVIOUS
    <3> QED BY <1>3, <2>1, <3>2, <3>3
  <2> QED BY <1>3, <2>1, <2>2
<1> QED BY <1>1, <1>2, <1>4 DEF T!TotalChunks

\* The bytes from s to e after the first s are the first e.
LEMMA NextBytes ==
    ASSUME NEW t \in Transfers, NEW s \in Nat, NEW e \in Nat, s < e, e <= Size[t]
    PROVE  UpTo(t, s) \o SubSeq(T!Payload(t), s + 1, e) = UpTo(t, e)
<1>1. T!Payload(t) \in Seq({t} \X Nat) /\ Len(T!Payload(t)) = Size[t] /\ Size[t] \in Nat
  BY TransferAssumption DEF T!Payload
<1>2. UpTo(t, s) \in Seq({t} \X Nat) /\ Len(UpTo(t, s)) = s /\ UpTo(t, e) \in Seq({t} \X Nat) /\ Len(UpTo(t, e)) = e
  BY DEF UpTo
<1>3. PICK b : b = SubSeq(T!Payload(t), s + 1, e)
  OBVIOUS
<1>4. b \in Seq({t} \X Nat) /\ Len(b) = e - s /\ \A x \in 1..(e - s) : b[x] = <<t, s + x>>
  <2>1. \A x \in 1..(e - s) : s + x \in 1..Size[t]
    BY <1>1
  <2>2. b \in Seq({t} \X Nat) /\ Len(b) = e - s /\ \A x \in 1..(e - s) : b[x] = T!Payload(t)[s + x]
    BY <1>1, <1>3
  <2> QED BY <2>1, <2>2 DEF T!Payload
<1>5. PICK a : a = UpTo(t, s) \o b
  OBVIOUS
<1>6. /\ a \in Seq({t} \X Nat) /\ Len(a) = e
      /\ \A x \in 1..s : a[x] = <<t, x>>
      /\ \A y \in 1..(e - s) : a[s + y] = <<t, s + y>>
  <2>1. PICK u \in Seq({t} \X Nat) : u = UpTo(t, s) /\ Len(u) = s /\ \A x \in 1..s : u[x] = <<t, x>>
    BY <1>2 DEF UpTo
  <2>2. a = u \o b
    BY <1>5, <2>1
  <2>3. a \in Seq({t} \X Nat) /\ Len(a) = Len(u) + Len(b)
    BY <1>4, <2>1, <2>2
  <2>4. \A x \in 1..(Len(u) + Len(b)) : a[x] = IF x <= Len(u) THEN u[x] ELSE b[x - Len(u)]
    BY <1>4, <2>1, <2>2
  <2>5. Len(u) = s /\ Len(b) = e - s /\ s + (e - s) = e
    BY <1>4, <2>1
  <2>6. \A x \in 1..s : a[x] = <<t, x>>
    BY <2>1, <2>4, <2>5
  <2>7. ASSUME NEW y \in 1..(e - s) PROVE a[s + y] = <<t, s + y>>
    <3>1. s + y \in 1..e /\ ~(s + y <= s) /\ (s + y) - s = y
      OBVIOUS
    <3>2. a[s + y] = b[y]
      BY <2>4, <2>5, <3>1
    <3> QED BY <1>4, <3>2
  <2> QED BY <2>3, <2>5, <2>6, <2>7
<1>7. ASSUME NEW x \in 1..e PROVE a[x] = UpTo(t, e)[x]
  <2>1. UpTo(t, e)[x] = <<t, x>>
    BY DEF UpTo
  <2>2. CASE x <= s
    BY <1>6, <2>1, <2>2
  <2>3. CASE x > s
    <3>1. PICK y \in 1..(e - s) : s + y = x
      <4>1. x - s \in 1..(e - s) /\ s + (x - s) = x
        BY <2>3
      <4> QED BY <4>1
    <3> QED BY <1>6, <2>1, <3>1
  <2> QED BY <2>2, <2>3
<1>8. a = UpTo(t, e)
  BY <1>2, <1>6, <1>7
<1> QED BY <1>3, <1>5, <1>8

\* The chunks of a transfer, each once and in any order, join to its payload: the
\* least number of chunks whose join is not a prefix of the payload cannot exist.
LEMMA JoinExact ==
    ASSUME NEW t \in Transfers, NEW list, Complete(list, T!TotalChunks(t)),
           \A k \in DOMAIN list : list[k][2] = T!Chunk(t, list[k][1])
    PROVE  T!Join(list) = T!Payload(t)
<1>1. PICK c \in Nat \ {0}, z \in Nat \ {0}, n \in Nat :
          c = ChunkSize /\ z = Size[t] /\ n = T!TotalChunks(t)
  BY TransferAssumption, CeilBounds
<1> DEFINE q == T!Sorted(list)
<1> HIDE DEF q
<1>2. n * c >= z /\ \A j \in Nat : j < n => j * c < z
  BY <1>1, CeilBounds
<1>3. DOMAIN q = 1..n /\ \A k \in 1..n : q[k][1] = k - 1 /\ q[k][2] = T!Chunk(t, k - 1)
  <2>1. Complete(list, n)
    BY <1>1
  <2>2. /\ DOMAIN q = 1..n
        /\ \A k \in 1..n : (\E j \in DOMAIN list : q[k] = list[j]) /\ q[k][1] = k - 1
    BY <2>1, SortedComplete DEF q
  <2> QED BY <1>1, <2>2
<1>4. PICK it : Appends(q, it, 1..n) /\ T!Join(list) = it[1..n]
  BY <1>3, JoinFolds DEF q
<1> DEFINE end(k) == IF k * c <= z THEN k * c ELSE z
           B == {k \in Nat : k <= n /\ it[1..k] # UpTo(t, end(k))}
<1>5. it[1..n] = UpTo(t, end(n))
  <2> SUFFICES ASSUME B # {} PROVE FALSE
    BY <1>1
  <2>1. PICK k \in B : \A j \in B : k <= j
    <3>1. B \subseteq Nat
      OBVIOUS
    <3> HIDE DEF B
    <3> QED BY <3>1, LeastOf
  <2>2. k \in Nat /\ k <= n /\ it[1..k] # UpTo(t, end(k)) /\ 1..k \in SUBSET (1..n)
    BY <1>1, <2>1
  <2>3. k # 0
    <3> SUFFICES ASSUME k = 0 PROVE FALSE
      OBVIOUS
    <3>1. 1..0 = {} /\ {} \in SUBSET (1..n) /\ end(0) = 0
      BY <1>1
    <3>2. it[{}] = <<>>
      BY <1>4, <3>1 DEF Appends
    <3>3. UpTo(t, 0) = <<>>
      BY <3>1 DEF UpTo
    <3> QED BY <2>2, <3>1, <3>2, <3>3
  <2>4. PICK j \in Nat : j = k - 1 /\ k = j + 1 /\ j < n
    BY <2>2, <2>3
  <2>5. it[1..j] = UpTo(t, end(j))
    <3>1. j \notin B
      BY <2>1, <2>4
    <3> QED BY <2>4, <3>1
  <2>6. PICK s \in Nat : s = j * c /\ s < z /\ end(j) = s /\ k * c = s + c
    BY <1>1, <1>2, <2>4
  <2> HIDE DEF B
  <2>7. PICK e \in Nat : e = end(k) /\ s < e /\ e <= z /\ e = IF s + c <= z THEN s + c ELSE z
    BY <1>1, <2>6
  <2> HIDE DEF end
  <2>8. T!Max(1..k) = k
    <3>1. 1..k \in SUBSET (1..k) /\ k \in 1..k /\ 1..k # {}
      BY <2>2, <2>3
    <3>2. T!Max(1..k) \in 1..k /\ \A x \in 1..k : x <= T!Max(1..k)
      BY <2>2, <3>1, GreatestOf
    <3> QED BY <2>2, <3>1, <3>2
  <2>9. (1..k) \ {k} = 1..j /\ 1..k # {}
    BY <2>2, <2>4
  <2>10. it[1..k] = it[1..j] \o q[k][2]
    <3>1. it[1..k] = IF 1..k = {} THEN <<>> ELSE it[(1..k) \ {T!Max(1..k)}] \o q[T!Max(1..k)][2]
      BY <1>4, <2>2 DEF Appends
    <3> QED BY <2>8, <2>9, <3>1
  <2>11. q[k][2] = SubSeq(T!Payload(t), s + 1, e)
    <3>1. q[k][2] = T!Chunk(t, j)
      BY <1>3, <2>2, <2>3, <2>4
    <3>2. T!Min({s + c, z}) = e
      BY <2>7 DEF T!Min
    <3>3. T!Chunk(t, j) = SubSeq(T!Payload(t), j * ChunkSize + 1, T!Min({j * ChunkSize + ChunkSize, Size[t]}))
      BY DEF T!Chunk
    <3> QED BY <1>1, <2>6, <3>1, <3>2, <3>3
  <2>12. UpTo(t, s) \o SubSeq(T!Payload(t), s + 1, e) = UpTo(t, e)
    BY <1>1, <2>7, NextBytes
  <2> QED BY <2>2, <2>5, <2>6, <2>7, <2>10, <2>11, <2>12
<1>6. end(n) = z
  BY <1>1, <1>2
<1>7. UpTo(t, z) = T!Payload(t)
  BY <1>1 DEF UpTo, T!Payload
<1> QED BY <1>4, <1>5, <1>6, <1>7
=============================================================================
