---------------------------- MODULE ChannelProofs -----------------------------
(***************************************************************************)
(* Theorems about a channel, for every width of its counters, every number   *)
(* of chunks, and any network that loses, repeats, reorders and delays       *)
(* packets within the counters' comparison: the comparison is right, the     *)
(* receiving half strands no chunk, and the two halves implement a reliable  *)
(* stream.                                                                   *)
(***************************************************************************)
EXTENDS Channel, FiniteSetTheorems, SequenceTheorems, NaturalsInduction, WellFoundedInduction, TLAPS

-----------------------------------------------------------------------------
(* The cyclic counters. *)

LEMMA ModBelow == ASSUME NEW n \in 0 .. (M - 1) PROVE n % M = n
  BY CyclicAssumption, SMT

LEMMA ModAbove == ASSUME NEW n \in M .. (2 * M - 1) PROVE n % M = n - M
  BY CyclicAssumption, SMT

LEMMA ModNegative == ASSUME NEW n \in (-M) .. (-1) PROVE n % M = n + M
  BY CyclicAssumption, SMT

\* Where a counter stands d steps later (d less than a turn).
LEMMA PlusValue ==
  ASSUME NEW x \in U16, NEW d \in 0 .. (M - 1)
  PROVE  Plus(x, d) = IF x + d < M THEN x + d ELSE x + d - M
<1>1. CASE x + d < M
  BY <1>1, CyclicAssumption, ModBelow DEF Plus, trunc, U16
<1>2. CASE ~(x + d < M)
  <2>1. x + d \in M .. (2 * M - 1)
    BY <1>2, CyclicAssumption DEF U16
  <2>2. (x + d) % M = (x + d) - M
    BY <2>1, ModAbove
  <2> QED BY <1>2, <2>2, CyclicAssumption DEF Plus, trunc, U16
<1> QED BY <1>1, <1>2

\* Where a counter stood k steps ago (k at most a turn).
LEMMA MinusValue ==
  ASSUME NEW x \in U16, NEW k \in 0 .. (M - 1)
  PROVE  Minus(x, k) = IF x < k THEN x - k + M ELSE x - k
<1>1. CASE x < k
  <2>1. x - k \in (-M) .. (-1)
    BY <1>1, CyclicAssumption DEF U16
  <2> QED BY <1>1, <2>1, ModNegative DEF Minus, trunc
<1>2. CASE ~(x < k)
  <2>1. x - k \in 0 .. (M - 1)
    BY <1>2, CyclicAssumption DEF U16
  <2> QED BY <1>2, <2>1, ModBelow DEF Minus, trunc
<1> QED BY <1>1, <1>2

LEMMA WrapInRange == Wrap \in 0 .. (M - 1)
  BY CyclicAssumption

\* The comparisons of cyclic.py are about steps: a counter that is d steps ahead, d at most
\* `wrap` and the two together at most half a turn, is greater exactly when d > 0, and
\* never smaller.
THEOREM ComparisonFollowsSteps ==
  ASSUME NEW x \in U16, NEW d \in 0 .. Wrap, 2 * (Wrap + d) <= M
  PROVE  /\ Lt(x, Plus(x, d)) <=> d > 0
         /\ Gt(Plus(x, d), x) <=> d > 0
         /\ ~Lt(Plus(x, d), x) /\ ~Gt(x, Plus(x, d))
<1> DEFINE y == Plus(x, d)
<1>1. d \in 0 .. (M - 1) /\ M \in Nat /\ Wrap \in Nat /\ x \in 0 .. (M - 1) /\ M > 0
  BY CyclicAssumption DEF U16
<1>2. y = IF x + d < M THEN x + d ELSE x + d - M
  BY <1>1, PlusValue
<1>3. y \in U16
  BY <1>1, <1>2 DEF U16
<1>4. Minus(x, Wrap) = IF x < Wrap THEN x - Wrap + M ELSE x - Wrap
  BY MinusValue, WrapInRange
<1>5. Minus(y, Wrap) = IF y < Wrap THEN y - Wrap + M ELSE y - Wrap
  BY MinusValue, WrapInRange, <1>3
<1> DEFINE X == Minus(x, Wrap)  Y == Minus(y, Wrap)
<1>6. SignDiffers(x, y) => (X < Y <=> d > 0) /\ ~(Y < X) /\ X \in Int /\ Y \in Int
  BY <1>1, <1>2, <1>3, <1>4, <1>5, CyclicAssumption DEF SignDiffers, U16
<1>7. ~SignDiffers(x, y) => (x < y <=> d > 0) /\ ~(y < x)
  BY <1>1, <1>2, <1>3, CyclicAssumption DEF SignDiffers, U16
<1>8. SignDiffers(x, y) <=> SignDiffers(y, x)
  BY DEF SignDiffers
<1>9. x \in Int /\ y \in Int
  BY <1>1, <1>3 DEF U16
<1> HIDE DEF y, X, Y
<1>10. CASE SignDiffers(x, y)
  <2>1. /\ Lt(x, y) = (X < Y) /\ Gt(x, y) = (X > Y)
        /\ Lt(y, x) = (Y < X) /\ Gt(y, x) = (Y > X)
    BY <1>8, <1>10 DEF Lt, Gt, X, Y
  <2>2. (X < Y <=> d > 0) /\ (Y > X <=> d > 0) /\ ~(Y < X) /\ ~(X > Y)
    BY <1>6, <1>10
  <2> QED BY <2>1, <2>2 DEF y
<1>11. CASE ~SignDiffers(x, y)
  <2>1. /\ Lt(x, y) = (x < y) /\ Gt(x, y) = (x > y)
        /\ Lt(y, x) = (y < x) /\ Gt(y, x) = (y > x)
    BY <1>8, <1>11 DEF Lt, Gt
  <2>2. (x < y <=> d > 0) /\ (y > x <=> d > 0) /\ ~(y < x) /\ ~(x > y)
    BY <1>7, <1>9, <1>11
  <2> QED BY <2>1, <2>2 DEF y
<1> QED BY <1>10, <1>11

\* Subtraction gives the steps back: skip_rx_gap() measures its gap, and rx_drw() the age of
\* a packet, this way.
THEOREM DistanceIsSteps ==
  ASSUME NEW x \in U16, NEW d \in 0 .. (M - 1)
  PROVE  Minus(Plus(x, d), x) = d
<1>1. Plus(x, d) = IF x + d < M THEN x + d ELSE x + d - M
  BY PlusValue
<1>2. M \in Nat /\ x \in 0 .. (M - 1) /\ d \in 0 .. (M - 1)
  BY CyclicAssumption DEF U16
<1>3. Plus(x, d) \in U16
  BY <1>1, <1>2 DEF U16
<1>4. Minus(Plus(x, d), x) = IF Plus(x, d) < x THEN Plus(x, d) - x + M ELSE Plus(x, d) - x
  BY <1>2, <1>3, MinusValue
<1> QED BY <1>1, <1>2, <1>4

\* Counters that have run any number of turns.
LEMMA TimesM == ASSUME NEW q \in Int, NEW p \in Int, q > p PROVE M * q >= M * p + M
<1>1. M \in Nat
  BY CyclicAssumption
<1>2. q - p >= 1
  OBVIOUS
<1>3. M * (q - p - 1) >= 0
  BY <1>1, <1>2
<1> QED
  BY <1>1, <1>3

LEMMA ModOf ==
  ASSUME NEW n \in Int
  PROVE  n % M \in 0 .. (M - 1) /\ n \div M \in Int /\ n = M * (n \div M) + (n % M)
  BY CyclicAssumption

LEMMA ModUnique ==
  ASSUME NEW n \in Int, NEW q \in Int, NEW r \in 0 .. (M - 1), n = M * q + r
  PROVE  n % M = r
<1> DEFINE p == n \div M
<1>1. n % M \in 0 .. (M - 1) /\ p \in Int /\ n = M * p + (n % M)
  BY ModOf
<1> HIDE DEF p
<1>0. M \in Nat /\ M * p \in Int /\ M * q \in Int
  BY <1>1, CyclicAssumption
<1>2. CASE p = q
  BY <1>0, <1>1, <1>2
<1>3. CASE p > q
  BY <1>0, <1>1, <1>3, TimesM
<1>4. CASE q > p
  BY <1>0, <1>1, <1>4, TimesM
<1> QED
  BY <1>1, <1>2, <1>3, <1>4

LEMMA IdxPlus ==
  ASSUME NEW n \in Int, NEW d \in 0 .. (M - 1)
  PROVE  trunc(n + d) = Plus(trunc(n), d)
<1> DEFINE r == n % M  q == n \div M
<1>1. r \in 0 .. (M - 1) /\ q \in Int /\ n = M * q + r
  BY ModOf
<1>2. M \in Nat /\ M > 0
  BY CyclicAssumption
<1> HIDE DEF r, q
<1>3. CASE r + d < M
  <2>1. n + d = M * q + (r + d) /\ r + d \in 0 .. (M - 1) /\ n + d \in Int
    BY <1>1, <1>2, <1>3
  <2>2. (n + d) % M = r + d
    BY <2>1, <1>1, ModUnique
  <2>3. (r + d) % M = r + d
    BY <2>1, <1>2
  <2> QED
    BY <2>2, <2>3 DEF trunc, Plus, r
<1>4. CASE r + d >= M
  <2>1. n + d = M * (q + 1) + (r + d - M) /\ r + d - M \in 0 .. (M - 1) /\ n + d \in Int /\ q + 1 \in Int
    BY <1>1, <1>2, <1>4
  <2>2. (n + d) % M = r + d - M
    BY <2>1, <1>1, ModUnique
  <2>3. (r + d) % M = r + d - M
    <3>1. r + d = M * 1 + (r + d - M) /\ r + d \in Int
      BY <1>1, <1>2
    <3> QED
      BY <3>1, <2>1, ModUnique
  <2> QED
    BY <2>2, <2>3 DEF trunc, Plus, r
<1> QED
  BY <1>1, <1>2, <1>3, <1>4

LEMMA IdxInRange == ASSUME NEW n \in Int PROVE Idx(n) \in U16
  BY ModOf DEF Idx, trunc, U16

\* Two counters less than a turn apart that look the same are the same.
LEMMA IdxNear ==
  ASSUME NEW m \in Int, NEW n \in Int, m <= n, n - m < M, Idx(m) = Idx(n)
  PROVE  m = n
<1> DEFINE d == n - m
<1>1. d \in 0 .. (M - 1) /\ n = m + d
  BY CyclicAssumption
<1> HIDE DEF d
<1>2. Idx(n) = Plus(Idx(m), d)
  BY <1>1, IdxPlus DEF Idx
<1>3. Minus(Idx(n), Idx(m)) = d
  BY <1>1, <1>2, IdxInRange, DistanceIsSteps
<1>4. Minus(Idx(m), Idx(m)) = 0
  <2>1. Idx(m) \in Int
    BY IdxInRange, CyclicAssumption DEF U16
  <2>2. 0 % M = 0
    BY CyclicAssumption
  <2> QED
    BY <2>1, <2>2 DEF Minus, trunc
<1> QED
  BY <1>1, <1>3, <1>4

\* How far a chunk is ahead, as skip_rx_gap() measures it.
LEMMA DistIs ==
  ASSUME NEW m \in Int, NEW n \in Int, m <= n, n - m < M
  PROVE  Minus(Idx(n), Idx(m)) = n - m
<1> DEFINE d == n - m
<1>1. d \in 0 .. (M - 1) /\ n = m + d
  BY CyclicAssumption
<1> HIDE DEF d
<1>2. Idx(n) = Plus(Idx(m), d)
  BY <1>1, IdxPlus DEF Idx
<1> QED
  BY <1>1, <1>2, IdxInRange, DistanceIsSteps

\* How far a packet may be off: the comparisons of cyclic.py hold for it.
WindowAssumption ==
  /\ Lag <= Wrap /\ 2 * (Wrap + Lag) <= M
  /\ Ahead <= Wrap /\ 2 * (Wrap + Ahead) <= M

LEMMA CompareIdx ==
  ASSUME NEW m \in Int, NEW n \in Int, m <= n, n - m <= Wrap, 2 * (Wrap + (n - m)) <= M
  PROVE  /\ Gt(Idx(n), Idx(m)) <=> n > m
         /\ Lt(Idx(m), Idx(n)) <=> n > m
         /\ ~Gt(Idx(m), Idx(n)) /\ ~Lt(Idx(n), Idx(m))
<1> DEFINE d == n - m
<1>1. d \in 0 .. Wrap /\ d \in 0 .. (M - 1) /\ n = m + d /\ 2 * (Wrap + d) <= M
  BY CyclicAssumption
<1>2. d > 0 <=> n > m
  OBVIOUS
<1> HIDE DEF d
<1>3. Idx(n) = Plus(Idx(m), d)
  BY <1>1, IdxPlus DEF Idx
<1> QED
  BY <1>1, <1>2, <1>3, IdxInRange, ComparisonFollowsSteps

\* The same, in whichever order they are.
LEMMA CompareNear ==
  ASSUME WindowAssumption, NEW m \in Int, NEW n \in Int, Behind(m, n), n - m <= Ahead
  PROVE  (Gt(Idx(m), Idx(n)) <=> m > n) /\ (Lt(Idx(n), Idx(m)) <=> n < m)
<1> USE ReceiverAssumption, CyclicAssumption DEF WindowAssumption, Behind
<1>1. CASE m <= n
  BY <1>1, CompareIdx
<1>2. CASE n <= m
  BY <1>2, CompareIdx
<1> QED
  BY <1>1, <1>2

-----------------------------------------------------------------------------
\* The receiving half.

LEMMA LeastNumber ==
  ASSUME NEW S, S \subseteq Nat, S # {}
  PROVE  \E m \in S : \A k \in S : m <= k
<1>1. \E x \in S : \A y \in S : ~(<<y, x>> \in OpToRel(<, Nat))
  BY WFMin, NatLessThanWellFounded, Zenon
<1>2. \E x \in S : \A y \in S : ~(y < x)
  BY <1>1, Zenon DEF OpToRel
<1> HIDE <1>1
<1> QED
  BY <1>2

\* A queue that holds chunks from `from` on, each at its index.
Fits(queue, from) ==
  /\ IsFiniteSet(DOMAIN queue)
  /\ \A i \in DOMAIN queue :
       queue[i] \in Chunks /\ Idx(queue[i]) = i /\ from <= queue[i] /\ queue[i] - from <= Ahead

Held(queue) == {queue[i] : i \in DOMAIN queue}

\* What such a queue holds at an index.
LEMMA FitsAt ==
  ASSUME WindowAssumption, NEW queue, NEW from \in Int, Fits(queue, from),
         NEW d \in 0 .. (Ahead + 1), Idx(from + d) \in DOMAIN queue
  PROVE  queue[Idx(from + d)] = from + d /\ d <= Ahead /\ from + d \in Chunks
<1> USE CyclicAssumption, ReceiverAssumption DEF WindowAssumption
<1> DEFINE n == queue[Idx(from + d)]
<1>1. n \in Chunks /\ n \in Int /\ Idx(n) = Idx(from + d) /\ from <= n /\ n - from <= Ahead
  BY DEF Fits, Chunks
<1> HIDE DEF n
<1>2. CASE n <= from + d
  BY <1>1, <1>2, IdxNear DEF n
<1>3. CASE from + d <= n
  BY <1>1, <1>3, IdxNear DEF n
<1> QED
  BY <1>1, <1>2, <1>3

\* The loop of rx_drw() ends, after the chunks that follow each other.
LEMMA RunIs ==
  ASSUME WindowAssumption, NEW queue, NEW from \in Int, Fits(queue, from)
  PROVE  LET k == RunLength(queue, from)
         IN /\ k \in 0 .. (Ahead + 1) /\ Idx(from + k) \notin DOMAIN queue
            /\ \A i \in 0 .. (k - 1) : Idx(from + i) \in DOMAIN queue /\ queue[Idx(from + i)] = from + i
                                       /\ from + i \in Chunks
<1> USE CyclicAssumption, ReceiverAssumption
<1> DEFINE Stop == {j \in Nat : Idx(from + j) \notin DOMAIN queue}
           Is(k) == /\ Idx(from + k) \notin DOMAIN queue
                    /\ \A i \in 0 .. (k - 1) : Idx(from + i) \in DOMAIN queue
<1>1. Ahead + 1 \in Stop
  BY FitsAt
<1>2. PICK k \in Stop : \A j \in Stop : k <= j
  BY <1>1, LeastNumber
<1>3. k \in 0 .. (Ahead + 1) /\ Is(k)
  <2>1. k <= Ahead + 1 /\ k \in Nat /\ Idx(from + k) \notin DOMAIN queue
    BY <1>1, <1>2
  <2>2. ASSUME NEW i \in 0 .. (k - 1) PROVE Idx(from + i) \in DOMAIN queue
    <3>1. i \in Nat /\ ~(k <= i)
      BY <2>1
    <3> QED
      BY <1>2, <3>1
  <2> QED
    BY <2>1, <2>2
<1>4. \A i \in 0 .. (k - 1) : queue[Idx(from + i)] = from + i /\ Idx(from + i) \in DOMAIN queue
  BY <1>3, FitsAt
<1>5. k \in 0 .. Cardinality(DOMAIN queue)
  <2> DEFINE S == 0 .. (k - 1)
             f == [i \in S |-> Idx(from + i)]
  <2>1. IsFiniteSet(S) /\ Cardinality(S) = k
    BY <1>3, FS_Interval, 0 \in Int, k - 1 \in Int, (k - 1) - 0 + 1 = k, 0 <= k - 1 \/ k = 0
  <2>2. IsFiniteSet(DOMAIN queue) /\ Cardinality(DOMAIN queue) \in Nat
    BY FS_CardinalityType DEF Fits
  <2>3. f \in Injection(S, DOMAIN queue)
    <3>1. f \in [S -> DOMAIN queue]
      BY <1>4
    <3>2. \A i, j \in S : f[i] = f[j] => i = j
      <4> SUFFICES ASSUME NEW i \in S, NEW j \in S, f[i] = f[j] PROVE i = j
        OBVIOUS
      <4>1. Idx(from + i) = Idx(from + j)
        OBVIOUS
      <4>2. from + i = from + j
        BY <1>4, <4>1
      <4>3. i \in Int /\ j \in Int
        OBVIOUS
      <4> QED
        BY <4>2, <4>3
    <3> QED
      BY <3>1, <3>2 DEF Injection, IsInjective
  <2>4. Cardinality(S) <= Cardinality(DOMAIN queue)
    BY <2>2, <2>3, FS_Injection
  <2> QED
    BY <1>3, <2>1, <2>2, <2>4
<1> HIDE DEF Is, Stop
<1>6. Is(RunLength(queue, from)) /\ RunLength(queue, from) \in 0 .. Cardinality(DOMAIN queue)
  <2>1. RunLength(queue, from) = CHOOSE j \in 0 .. Cardinality(DOMAIN queue) : Is(j)
    BY DEF RunLength, Is
  <2> QED
    BY <1>3, <1>5, <2>1
<1> DEFINE r == RunLength(queue, from)
<1>7. r \in Nat /\ Is(r)
  <2>1. Cardinality(DOMAIN queue) \in Nat
    BY FS_CardinalityType DEF Fits
  <2> QED
    BY <1>6, <2>1
<1> HIDE DEF r
<1>8. r <= Ahead + 1
  <2>1. CASE r > k
    <3>1. k \in 0 .. (r - 1) /\ Idx(from + k) \notin DOMAIN queue
      BY <1>3, <1>7, <2>1 DEF Is
    <3> QED
      BY <1>7, <3>1 DEF Is
  <2> QED
    BY <1>3, <1>7, <2>1
<1>9. \A i \in 0 .. (r - 1) : Idx(from + i) \in DOMAIN queue /\ queue[Idx(from + i)] = from + i
                              /\ from + i \in Chunks
  BY <1>7, <1>8, FitsAt DEF Is
<1> QED
  BY <1>7, <1>8, <1>9 DEF Is, r

LEMMA ChunksAreInts == Chunks \subseteq Counts /\ Counts \subseteq Nat
  BY ReceiverAssumption DEF Chunks, Counts

LEMMA FiniteIndexes == IsFiniteSet(Indexes)
<1>1. IsFiniteSet(Chunks)
  BY FS_Interval, ReceiverAssumption DEF Chunks
<1> DEFINE f == [n \in Chunks |-> Idx(n)]
<1>2. f \in Surjection(Chunks, Indexes)
  BY DEF Indexes, Surjection
<1> QED
  BY <1>1, <1>2, FS_Surjection

\* What the loop of rx_drw() hands on, and what it leaves in the queue.
LEMMA RecombineIs ==
  ASSUME WindowAssumption, NEW queue, NEW from \in Counts, NEW wire \in Seq(Chunks),
         Fits(queue, from), Recombine(queue, from, wire)
  PROVE  /\ RxTypeOK' \/ read' \notin Seq(Chunks)
         /\ QueueInWindow'
         /\ \E k \in Nat :
              /\ rxNext' = from + k
              /\ buf' = wire \o [i \in 1 .. k |-> from + i - 1]
              /\ from .. (from + k - 1) \subseteq Held(queue)
              /\ Queued' = Held(queue) \ (from .. (from + k - 1))
<1> USE ReceiverAssumption, CyclicAssumption
<1> DEFINE k == RunLength(queue, from)
           run == {Idx(from + j) : j \in 0 .. (k - 1)}
<1>1. /\ k \in 0 .. (Ahead + 1) /\ Idx(from + k) \notin DOMAIN queue
      /\ \A i \in 0 .. (k - 1) : Idx(from + i) \in DOMAIN queue /\ queue[Idx(from + i)] = from + i
                                 /\ from + i \in Chunks
  BY RunIs, ChunksAreInts
<1>2. /\ rxNext' = from + k
      /\ buf' = wire \o [i \in 1 .. k |-> queue[Idx(from + i - 1)]]
      /\ rxqueue' = [i \in DOMAIN queue \ run |-> queue[i]]
  BY DEF Recombine
<1> HIDE DEF k
<1>3. k \in Nat /\ from \in Nat
  BY <1>1, ChunksAreInts
<1>4. ASSUME NEW i \in 1 .. k
      PROVE  queue[Idx(from + i - 1)] = from + i - 1 /\ from + i - 1 \in Chunks
  <2>1. i - 1 \in 0 .. (k - 1) /\ from + (i - 1) = from + i - 1
    BY <1>3
  <2>2. queue[Idx(from + (i - 1))] = from + (i - 1) /\ from + (i - 1) \in Chunks
    BY <1>1, <2>1
  <2> QED
    BY <2>1, <2>2
<1>5. [i \in 1 .. k |-> queue[Idx(from + i - 1)]] = [i \in 1 .. k |-> from + i - 1]
  BY <1>4
<1>6. [i \in 1 .. k |-> from + i - 1] \in Seq(Chunks)
  <2> DEFINE f == [i \in 1 .. k |-> from + i - 1]
  <2>1. f \in [1 .. k -> Chunks]
    BY <1>4
  <2> HIDE DEF f
  <2>2. f \in Seq(Chunks)
    BY <1>3, <2>1
  <2> QED
    BY <2>2 DEF f
<1>7. buf' = wire \o [i \in 1 .. k |-> from + i - 1] /\ buf' \in Seq(Chunks)
  <2>1. buf' = wire \o [i \in 1 .. k |-> from + i - 1]
    BY <1>2, <1>5
  <2> QED
    BY <1>6, <2>1, ConcatProperties, Zenon
<1>8. rxNext' \in Counts
  <2>1. CASE k = 0
    BY <1>2, <1>3, <2>1
  <2>2. CASE k > 0
    <3>1. k - 1 \in 0 .. (k - 1)
      BY <1>3, <2>2
    <3>2. from + (k - 1) \in Chunks
      BY <1>1, <3>1
    <3> QED
      BY <1>2, <1>3, <3>2 DEF Chunks, Counts
  <2> QED
    BY <1>3, <2>1, <2>2
<1>9. DOMAIN rxqueue' = DOMAIN queue \ run /\ \A i \in DOMAIN rxqueue' : rxqueue'[i] = queue[i]
  BY <1>2
<1>10. ASSUME NEW i \in DOMAIN queue
       PROVE  /\ queue[i] \in Chunks /\ queue[i] \in Nat /\ Idx(queue[i]) = i /\ i \in Indexes
              /\ from <= queue[i] /\ queue[i] <= from + Ahead
              /\ i \in run <=> queue[i] \in from .. (from + k - 1)
              /\ queue[i] # from + k
  <2>1. queue[i] \in Chunks /\ queue[i] \in Nat /\ Idx(queue[i]) = i /\ from <= queue[i] /\ queue[i] - from <= Ahead
    BY ChunksAreInts DEF Fits
  <2>2. i \in Indexes
    BY <2>1 DEF Indexes
  <2>3. ASSUME i \in run PROVE queue[i] \in from .. (from + k - 1)
    <3>1. PICK j \in 0 .. (k - 1) : i = Idx(from + j)
      BY <2>3
    <3>2. queue[i] = from + j
      BY <1>1, <3>1
    <3> QED
      BY <1>3, <3>2
  <2>4. ASSUME queue[i] \in from .. (from + k - 1) PROVE i \in run
    <3>1. queue[i] - from \in 0 .. (k - 1) /\ from + (queue[i] - from) = queue[i]
      BY <1>3, <2>1, <2>4
    <3> QED
      BY <2>1, <3>1
  <2>5. queue[i] # from + k
    BY <1>1, <2>1
  <2> QED
    BY <1>3, <2>1, <2>2, <2>3, <2>4, <2>5
<1> HIDE DEF run
<1>11. QueueInWindow'
  <2> SUFFICES ASSUME NEW i \in DOMAIN rxqueue'
               PROVE  Idx(rxqueue'[i]) = i /\ rxqueue'[i] \in (rxNext' + 1) .. (rxNext' + Ahead)
    BY DEF QueueInWindow
  <2>1. i \in DOMAIN queue /\ i \notin run /\ rxqueue'[i] = queue[i]
    BY <1>9
  <2> QED
    BY <1>2, <1>3, <1>10, <2>1
<1>12. Queued' = Held(queue) \ (from .. (from + k - 1))
  BY <1>9, <1>10 DEF Queued, Held
<1>13. from .. (from + k - 1) \subseteq Held(queue)
  <2> SUFFICES ASSUME NEW n \in from .. (from + k - 1) PROVE n \in Held(queue)
    OBVIOUS
  <2>1. n - from \in 0 .. (k - 1) /\ from + (n - from) = n
    BY <1>3
  <2>2. Idx(n) \in DOMAIN queue /\ queue[Idx(n)] = n
    BY <1>1, <2>1
  <2> QED
    BY <2>2 DEF Held
<1>14. DOMAIN rxqueue' \subseteq Indexes /\ Queued' \subseteq Chunks
  BY <1>9, <1>10, <1>12 DEF Held
<1> QED
  BY <1>2, <1>3, <1>7, <1>8, <1>11, <1>12, <1>13, <1>14 DEF RxTypeOK

\* rx_drw() of a packet in the window: it is dropped, or it is put in order.
LEMMA RxDrwIs ==
  ASSUME WindowAssumption, RxIInv, NEW n \in Chunks, Behind(rxNext, n), n - rxNext <= Ahead, RxDrw(n)
  PROVE  /\ RxIInv'
         /\ \/ n < rxNext /\ UNCHANGED <<rxNext, rxqueue, buf, read>>
            \/ /\ n >= rxNext /\ read' = read
               /\ \E k \in Nat :
                    /\ rxNext' = rxNext + k
                    /\ buf' = buf \o [i \in 1 .. k |-> rxNext + i - 1]
                    /\ rxNext .. (rxNext + k - 1) \subseteq Queued \cup {n}
                    /\ Queued' = (Queued \cup {n}) \ (rxNext .. (rxNext + k - 1))
<1> USE ReceiverAssumption, CyclicAssumption
<1>1. rxNext \in Counts /\ rxNext \in Nat /\ n \in Nat /\ buf \in Seq(Chunks) /\ read \in Seq(Chunks)
  BY ChunksAreInts DEF RxIInv, RxTypeOK
<1>2. Gt(Idx(rxNext), Idx(n)) <=> rxNext > n
  BY <1>1, CompareNear
<1>3. CASE rxNext > n
  BY <1>1, <1>2, <1>3 DEF RxDrw, RxIInv, RxTypeOK, QueueInWindow, Queued
<1>4. CASE ~(rxNext > n)
  <2> DEFINE queue == [i \in DOMAIN rxqueue \cup {Idx(n)} |-> IF i = Idx(n) THEN n ELSE rxqueue[i]]
  <2>1. Recombine(queue, rxNext, buf) /\ read' = read
    BY <1>2, <1>4 DEF RxDrw
  <2>2. DOMAIN queue = DOMAIN rxqueue \cup {Idx(n)}
    OBVIOUS
  <2>3. ASSUME NEW i \in DOMAIN rxqueue
        PROVE  /\ rxqueue[i] \in Chunks /\ Idx(rxqueue[i]) = i /\ rxNext < rxqueue[i]
               /\ rxqueue[i] <= rxNext + Ahead /\ rxqueue[i] \in Nat
    BY <1>1, ChunksAreInts DEF RxIInv, RxTypeOK, QueueInWindow, Queued
  <2>4. ASSUME NEW i \in DOMAIN rxqueue, i = Idx(n) PROVE rxqueue[i] = n
    <3>1. Idx(rxqueue[i]) = Idx(n) /\ rxqueue[i] \in Int /\ n \in Int
      BY <1>1, <2>3, <2>4
    <3>2. CASE rxqueue[i] <= n
      <4>1. n - rxqueue[i] < M
        BY <1>1, <2>3, <3>2 DEF WindowAssumption
      <4> QED
        BY <3>1, <3>2, <4>1, IdxNear
    <3>3. CASE n <= rxqueue[i]
      <4>1. rxqueue[i] - n < M
        BY <1>1, <1>4, <2>3, <3>3 DEF WindowAssumption
      <4> QED
        BY <3>1, <3>3, <4>1, IdxNear
    <3> QED
      BY <3>1, <3>2, <3>3
  <2>5. \A i \in DOMAIN queue : queue[i] = IF i = Idx(n) THEN n ELSE rxqueue[i]
    OBVIOUS
  <2> HIDE DEF queue
  <2>6. Fits(queue, rxNext)
    <3>1. IsFiniteSet(DOMAIN rxqueue)
      BY FiniteIndexes, FS_Subset DEF RxIInv, RxTypeOK
    <3>2. IsFiniteSet(DOMAIN queue)
      BY <2>2, <3>1, FS_AddElement
    <3> QED
      BY <1>1, <1>4, <2>2, <2>3, <2>5, <3>2 DEF Fits
  <2>7. Held(queue) = Queued \cup {n}
    <3>1. Queued = {rxqueue[i] : i \in DOMAIN rxqueue}
      BY DEF Queued
    <3>2. ASSUME NEW i \in DOMAIN rxqueue PROVE rxqueue[i] = queue[i] /\ i \in DOMAIN queue
      BY <2>2, <2>4, <2>5
    <3>3. n = queue[Idx(n)] /\ Idx(n) \in DOMAIN queue
      BY <2>2, <2>5
    <3>4. \A i \in DOMAIN queue : queue[i] = n \/ i \in DOMAIN rxqueue
      BY <2>2, <2>5
    <3> QED
      BY <3>1, <3>2, <3>3, <3>4 DEF Held
  <2>8. read' \in Seq(Chunks)
    BY <1>1, <2>1
  <2>9. /\ RxTypeOK' \/ read' \notin Seq(Chunks)
        /\ QueueInWindow'
        /\ \E k \in Nat :
             /\ rxNext' = rxNext + k
             /\ buf' = buf \o [i \in 1 .. k |-> rxNext + i - 1]
             /\ rxNext .. (rxNext + k - 1) \subseteq Queued \cup {n}
             /\ Queued' = (Queued \cup {n}) \ (rxNext .. (rxNext + k - 1))
    <3>1. /\ RxTypeOK' \/ read' \notin Seq(Chunks)
          /\ QueueInWindow'
          /\ \E k \in Nat :
               /\ rxNext' = rxNext + k
               /\ buf' = buf \o [i \in 1 .. k |-> rxNext + i - 1]
               /\ rxNext .. (rxNext + k - 1) \subseteq Held(queue)
               /\ Queued' = Held(queue) \ (rxNext .. (rxNext + k - 1))
      BY <1>1, <2>1, <2>6, RecombineIs, Zenon
    <3> QED
      BY <2>7, <3>1, Zenon
  <2> QED
    BY <1>1, <1>4, <2>1, <2>8, <2>9 DEF RxIInv
<1> QED
  BY <1>1, <1>3, <1>4

\* skip_rx_gap() resumes at the oldest chunk it has.
LEMMA SkipStep ==
  ASSUME WindowAssumption, RxIInv, SkipRxGap
  PROVE  RxIInv'
<1> USE ReceiverAssumption, CyclicAssumption
<1>1. rxNext \in Counts /\ rxNext \in Nat /\ read \in Seq(Chunks) /\ IsFiniteSet(DOMAIN rxqueue)
  BY ChunksAreInts, FiniteIndexes, FS_Subset DEF RxIInv, RxTypeOK
<1>2. ASSUME NEW i \in DOMAIN rxqueue
      PROVE  /\ rxqueue[i] \in Chunks /\ Idx(rxqueue[i]) = i /\ rxNext < rxqueue[i]
             /\ rxqueue[i] <= rxNext + Ahead /\ rxqueue[i] \in Nat
             /\ Dist(i) = rxqueue[i] - rxNext /\ Dist(i) \in Nat
  <2>1. /\ rxqueue[i] \in Chunks /\ Idx(rxqueue[i]) = i /\ rxNext < rxqueue[i]
        /\ rxqueue[i] <= rxNext + Ahead /\ rxqueue[i] \in Nat
    BY <1>1, ChunksAreInts DEF RxIInv, RxTypeOK, QueueInWindow, Queued
  <2>2. Minus(Idx(rxqueue[i]), Idx(rxNext)) = rxqueue[i] - rxNext
    BY <1>1, <2>1, DistIs DEF WindowAssumption
  <2> QED
    BY <1>1, <2>1, <2>2 DEF Dist
<1>3. DOMAIN rxqueue # {}
  BY FS_EmptySet DEF SkipRxGap
<1>4. PICK m \in {Dist(i) : i \in DOMAIN rxqueue} : \A d \in {Dist(i) : i \in DOMAIN rxqueue} : m <= d
  <2>1. {Dist(i) : i \in DOMAIN rxqueue} \subseteq Nat /\ {Dist(i) : i \in DOMAIN rxqueue} # {}
    BY <1>2, <1>3
  <2> QED
    BY <2>1, LeastNumber
<1>5. PICK i \in DOMAIN rxqueue : \A j \in DOMAIN rxqueue : Dist(i) <= Dist(j)
  BY <1>4
<1>6. Oldest \in DOMAIN rxqueue /\ \A j \in DOMAIN rxqueue : Dist(Oldest) <= Dist(j)
  BY <1>5 DEF Oldest
<1> DEFINE from == rxNext + Dist(Oldest)
<1>7. from = rxqueue[Oldest] /\ from \in Chunks /\ from \in Counts
  BY <1>1, <1>2, <1>6, ChunksAreInts
<1>8. Fits(rxqueue, from)
  BY <1>1, <1>2, <1>6, <1>7 DEF Fits
<1>9. Recombine(rxqueue, from, <<>>) /\ read' = read
  BY DEF SkipRxGap
<1> HIDE DEF from
<1>10. <<>> \in Seq(Chunks)
  OBVIOUS
<1> QED
  BY <1>1, <1>7, <1>8, <1>9, <1>10, RecombineIs DEF RxIInv

LEMMA ReadStep == ASSUME RxIInv, Read PROVE RxIInv'
  BY DEF RxIInv, RxTypeOK, QueueInWindow, Queued, Read

LEMMA RxInvariant == ASSUME WindowAssumption PROVE RxSpec => []RxIInv
<1>1. RxInit => RxIInv
  BY ReceiverAssumption DEF RxInit, RxIInv, RxTypeOK, QueueInWindow, Queued, Counts
<1>2. RxIInv /\ [RxNextStep]_rxVars => RxIInv'
  <2> SUFFICES ASSUME RxIInv, [RxNextStep]_rxVars PROVE RxIInv'
    OBVIOUS
  <2>1. CASE RxStep
    BY <2>1, SkipStep, ReadStep DEF RxStep
  <2>2. ASSUME NEW n \in Chunks, Arrive(n) PROVE RxIInv'
    BY <2>2, RxDrwIs DEF Arrive, Behind
  <2>3. CASE UNCHANGED rxVars
    BY <2>3 DEF rxVars, RxIInv, RxTypeOK, QueueInWindow, Queued
  <2> QED
    BY <2>1, <2>2, <2>3 DEF RxNextStep
<1> QED
  BY <1>1, <1>2, PTL DEF RxSpec

\* Whatever order packets arrive in and however often, rx_drw() and skip_rx_gap() hand on every
\* chunk they can and pass no chunk they have, while packets stay within the counters' comparison.
THEOREM StrandsNothing == ASSUME WindowAssumption PROVE RxSpec => []NothingStranded
<1>1. RxIInv => NothingStranded
  <2> SUFFICES ASSUME RxIInv, NEW n \in Queued PROVE n > rxNext
    BY DEF NothingStranded
  <2>1. PICK i \in DOMAIN rxqueue : n = rxqueue[i]
    BY DEF Queued
  <2>2. rxNext \in Nat
    BY ChunksAreInts DEF RxIInv, RxTypeOK
  <2> QED
    BY <2>1, <2>2, ReceiverAssumption DEF RxIInv, QueueInWindow
<1> QED
  BY <1>1, RxInvariant, PTL

-----------------------------------------------------------------------------
\* The two halves.

\* The window; no chunk is given up; and with resets, which leave acknowledgments behind, fewer
\* chunks than a turn of the counter.
StreamAssumption == WindowAssumption /\ ~Realtime /\ (MaxResets = 0 \/ MaxChunks < M)

LEMMA ReachedIs ==
  ASSUME RxTypeOK
  PROVE  Reached \subseteq Chunks /\ Reached \subseteq Nat /\ rxNext \in Nat
<1>1. rxNext \in Nat /\ Counts = First .. (First + MaxChunks) /\ Chunks = First .. (First + MaxChunks - 1)
  BY ChunksAreInts DEF RxTypeOK, Counts, Chunks
<1>2. First .. (rxNext - 1) \subseteq Chunks
  BY <1>1, ReceiverAssumption DEF RxTypeOK
<1> QED
  BY <1>1, <1>2, ChunksAreInts DEF Reached, RxTypeOK

LEMMA NextIsMissing == ASSUME RxTypeOK, QueueInWindow PROVE rxNext \notin Reached
<1>1. rxNext \in Nat
  BY ReachedIs
<1>2. ASSUME NEW i \in DOMAIN rxqueue PROVE rxqueue[i] # rxNext
  BY <1>1, ReceiverAssumption DEF QueueInWindow
<1> QED
  BY <1>1, <1>2 DEF Reached, Queued

LEMMA ReachedWritten ==
  ASSUME RxTypeOK, SentInv, written \in Counts
  PROVE  \A n \in Reached : n < written
<1>1. rxNext \in Nat /\ written \in Nat
  BY ReachedIs, ChunksAreInts
<1> QED
  BY <1>1 DEF Reached, SentInv

\* A step that leaves the receiving half alone.
LEMMA RxSame ==
  ASSUME ChannelInv, UNCHANGED rxVars
  PROVE  /\ RxTypeOK' /\ QueueInWindow' /\ StreamInv'
         /\ Reached' = Reached /\ Queued' = Queued /\ rxNext' = rxNext /\ Stream' = Stream
  BY DEF ChannelInv, TypeOK, RxTypeOK, QueueInWindow, StreamInv, Stream, Reached, Queued, rxVars

\* The types as the steps use them.
LEMMA Typed ==
  ASSUME TypeOK
  PROVE  /\ written \in Nat /\ txAck \in Nat /\ start \in Nat /\ done \in Nat /\ returned \in Nat
         /\ tmp \in Nat /\ resets \in Nat /\ rxNext \in Nat
         /\ txqueue \subseteq Nat /\ data \subseteq Nat /\ ackn \subseteq Nat
         /\ Reached \subseteq Chunks /\ Reached \subseteq Nat
<1>1. Reached \subseteq Chunks /\ Reached \subseteq Nat /\ rxNext \in Nat
  BY ReachedIs DEF TypeOK
<1>2. /\ written \in Counts /\ txAck \in Counts /\ start \in Counts /\ done \in Counts
      /\ returned \in Counts /\ tmp \in Counts /\ resets \in 0 .. MaxResets
      /\ txqueue \subseteq Chunks /\ data \subseteq Chunks /\ ackn \subseteq Chunks
  BY DEF TypeOK
<1> QED
  BY <1>1, <1>2, ChunksAreInts, ChannelAssumption

LEMMA WriteInvariant ==
  ASSUME ChannelInv, Write
  PROVE  ChannelInv'
<1> USE ReceiverAssumption, ChannelAssumption
<1>1. PICK size \in Sizes :
        /\ written + size \in Counts /\ written' = written + size
        /\ backlog' = backlog \o [i \in 1 .. size |-> written + i - 1]
        /\ start' = written /\ done' = written + size
  BY DEF Write
<1>2. /\ UNCHANGED <<txqueue, acks, txAck, returned, resets, apc, tmp, data, ackn>>
      /\ UNCHANGED rxVars /\ wpc = "idle" /\ wpc' \in {"idle", "waiting"}
  BY DEF Write, netVars
<1>3. size \in Nat \ {0} /\ TypeOK
  BY <1>1 DEF ChannelInv
<1>4. written \in Nat /\ txAck \in Nat /\ returned \in Nat /\ tmp \in Nat
  BY <1>3, Typed
<1>5. /\ RxTypeOK' /\ QueueInWindow' /\ StreamInv'
      /\ Reached' = Reached /\ Queued' = Queued /\ rxNext' = rxNext
  BY <1>2, RxSame
<1> DEFINE new == [i \in 1 .. size |-> written + i - 1]
<1>6. new \in Seq(Chunks) /\ Len(new) = size /\ \A i \in 1 .. size : new[i] < written + size
  <2>1. \A i \in 1 .. size : written + i - 1 \in Chunks
    BY <1>1, <1>3, <1>4 DEF TypeOK, Counts, Chunks
  <2>2. new \in [1 .. size -> Chunks]
    BY <2>1
  <2>3. \A i \in 1 .. size : new[i] < written + size
    BY <1>3, <1>4
  <2> HIDE DEF new
  <2> QED
    BY <1>3, <2>2, <2>3
<1> HIDE DEF new
<1>7. backlog' = backlog \o new /\ backlog \in Seq(Chunks)
  BY <1>1, <1>3 DEF new, TypeOK
<1>8. /\ backlog' \in Seq(Chunks) /\ Len(backlog') = Len(backlog) + size
      /\ \A i \in 1 .. Len(backlog) + size :
           backlog'[i] = IF i <= Len(backlog) THEN backlog[i] ELSE new[i - Len(backlog)]
  BY <1>6, <1>7, ConcatProperties
<1>9. TypeOK'
  BY <1>1, <1>2, <1>3, <1>5, <1>8 DEF TypeOK
<1>10. SentInv'
  <2>1. \A i \in 1 .. Len(backlog') : backlog'[i] < written'
    <3> SUFFICES ASSUME NEW i \in 1 .. Len(backlog') PROVE backlog'[i] < written'
      OBVIOUS
    <3>0. Len(backlog) \in Nat
      BY <1>7
    <3>1. CASE i <= Len(backlog)
      <4>1. backlog[i] \in Chunks /\ backlog[i] < written /\ backlog'[i] = backlog[i]
        BY <1>7, <1>8, <3>0, <3>1 DEF ChannelInv, SentInv
      <4>2. backlog[i] \in Nat
        BY <4>1, ChunksAreInts
      <4>3. size \in Nat /\ size > 0
        BY <1>3
      <4>4. written' = written + size
        BY <1>1
      <4> QED
        BY <1>4, <4>1, <4>2, <4>3, <4>4
    <3>2. CASE i > Len(backlog)
      BY <1>1, <1>3, <1>6, <1>8, <3>0, <3>2
    <3> QED
      BY <3>0, <3>1, <3>2
  <2>2. \A n \in txqueue \cup data \cup Queued : n < written /\ n \in Nat
    BY <1>3, Typed, ChunksAreInts DEF ChannelInv, SentInv, TypeOK, RxTypeOK
  <2>3. written < written' /\ rxNext \in Nat
    BY <1>1, <1>3, <1>4, Typed
  <2> QED
    BY <1>2, <1>4, <1>5, <2>1, <2>2, <2>3, <1>1 DEF ChannelInv, SentInv, Behind
<1>11. AckInv'
  BY <1>2, <1>5 DEF ChannelInv, AckInv, Behind
<1>12. WriteInv'
  <2>1. txAck <= written /\ returned <= written
    BY DEF ChannelInv, SentInv, WriteInv
  <2>2. apc = "ackStore" => tmp < written
    BY <1>3, ReachedWritten DEF ChannelInv, AckInv, TypeOK
  <2> QED
    BY <1>1, <1>2, <1>3, <1>4, <2>1, <2>2 DEF WriteInv
<1> QED
  BY <1>5, <1>9, <1>10, <1>11, <1>12 DEF ChannelInv

\* A write that returns has been acknowledged to its end, and so it has been received.
LEMMA ReturnsReached ==
  ASSUME StreamAssumption, ChannelInv, InWindow, WriteReturns
  PROVE  /\ txAck = done /\ start .. (done - 1) \subseteq Reached /\ done = written
         /\ returned < done /\ done \in Nat
<1>1. TypeOK /\ wpc = "waiting" /\ ~Lt(Idx(txAck), Idx(done))
  BY DEF ChannelInv, WriteReturns, Ge
<1>2. /\ returned <= start /\ start < done /\ done = written /\ start .. (txAck - 1) \subseteq Reached
      /\ txAck <= written /\ written - txAck <= Ahead
  BY <1>1 DEF ChannelInv, WriteInv, SentInv, InWindow
<1>3. txAck \in Nat /\ done \in Nat /\ start \in Nat /\ returned \in Nat
  BY <1>1, Typed
<1>4. Lt(Idx(txAck), Idx(done)) <=> txAck < done
  BY <1>2, <1>3, CompareNear, ReceiverAssumption DEF Behind, StreamAssumption
<1> QED
  BY <1>1, <1>2, <1>3, <1>4

LEMMA ReturnsInvariant ==
  ASSUME StreamAssumption, ChannelInv, InWindow, WriteReturns
  PROVE  ChannelInv'
<1>1. /\ UNCHANGED <<written, backlog, txqueue, acks, txAck, start, done, resets, apc, tmp, data, ackn>>
      /\ UNCHANGED rxVars /\ wpc' = "idle" /\ returned' = done
  BY DEF WriteReturns, netVars
<1>2. /\ RxTypeOK' /\ QueueInWindow' /\ StreamInv'
      /\ Reached' = Reached /\ Queued' = Queued /\ rxNext' = rxNext
  BY <1>1, RxSame
<1>3. done = written /\ done \in Nat
  BY ReturnsReached
<1>4. TypeOK'
  BY <1>1, <1>2 DEF ChannelInv, TypeOK
<1>5. SentInv' /\ AckInv'
  BY <1>1, <1>2 DEF ChannelInv, SentInv, AckInv, Behind
<1>6. WriteInv'
  BY <1>1, <1>3 DEF WriteInv
<1> QED
  BY <1>2, <1>4, <1>5, <1>6 DEF ChannelInv

\* Giving a write up.
LEMMA TimesOutInvariant ==
  ASSUME ChannelInv, WriteTimesOut
  PROVE  ChannelInv'
<1>1. /\ UNCHANGED <<written, backlog, txqueue, acks, txAck, start, done, returned, apc, tmp, data, ackn>>
      /\ UNCHANGED rxVars /\ wpc' = "reset1" /\ resets' = resets + 1 /\ resets < MaxResets
  BY DEF WriteTimesOut, netVars
<1>2. /\ RxTypeOK' /\ QueueInWindow' /\ StreamInv'
      /\ Reached' = Reached /\ Queued' = Queued /\ rxNext' = rxNext
  BY <1>1, RxSame
<1>3. resets \in 0 .. MaxResets /\ resets' # 0 /\ resets' \in 0 .. MaxResets
  BY <1>1, ChannelAssumption DEF ChannelInv, TypeOK
<1>4. TypeOK'
  BY <1>1, <1>2, <1>3 DEF ChannelInv, TypeOK
<1>5. SentInv' /\ AckInv' /\ WriteInv'
  BY <1>1, <1>2, <1>3 DEF ChannelInv, SentInv, AckInv, WriteInv, Behind
<1> QED
  BY <1>2, <1>4, <1>5 DEF ChannelInv

\* reset_tx(), which begins after a write was given up.
LEMMA ResetInvariant ==
  ASSUME ChannelInv, ResetTx
  PROVE  ChannelInv'
<1>1. /\ UNCHANGED <<written, start, done, returned, resets, tmp, data, ackn>> /\ UNCHANGED rxVars
  BY DEF ResetTx, netVars
<1>2. /\ RxTypeOK' /\ QueueInWindow' /\ StreamInv'
      /\ Reached' = Reached /\ Queued' = Queued /\ rxNext' = rxNext
  BY <1>1, RxSame
<1>3. /\ txqueue' \subseteq txqueue /\ backlog' \in {backlog, <<>>} /\ acks' \in {acks, {}}
      /\ txAck' \in {txAck, written} /\ apc' \in {apc, "idle", "dead"}
      /\ wpc' \in {"reset2", "reset3", "reset4", "idle"} /\ wpc \in {"reset1", "reset2", "reset3", "reset4"}
      /\ apc' = "ackStore" => apc = "ackStore"
  BY DEF ResetTx, ClearTxqueue
<1>4. resets # 0
  BY <1>3 DEF ChannelInv, AckInv
<1>5. TypeOK'
  <2>1. TypeOK /\ <<>> \in Seq(Chunks) /\ {} \subseteq Indexes
    BY DEF ChannelInv
  <2>2. backlog' \in Seq(Chunks) /\ acks' \subseteq Indexes /\ txAck' \in Counts
    BY <1>3, <2>1 DEF TypeOK
  <2>3. apc' \in {"idle", "ackTest", "ackRemove", "ackStore", "dead"}
    BY <1>3, <2>1 DEF TypeOK
  <2> QED
    BY <1>1, <1>2, <1>3, <2>1, <2>2, <2>3 DEF TypeOK
<1>6. SentInv'
  <2>1. written \in Nat /\ Len(<<>>) = 0
    BY Typed DEF ChannelInv
  <2> QED
    BY <1>1, <1>2, <1>3, <2>1 DEF ChannelInv, SentInv, Behind
<1>7. AckInv' /\ WriteInv'
  BY <1>1, <1>2, <1>3, <1>4 DEF ChannelInv, AckInv, WriteInv
<1> QED
  BY <1>2, <1>5, <1>6, <1>7 DEF ChannelInv

\* poll() moves the first of the backlog into flight.
LEMMA RefillIs ==
  ASSUME TypeOK, Refill
  PROVE  \E k \in 1 .. Len(backlog) :
           /\ txqueue' = txqueue \cup {backlog[i] : i \in 1 .. k}
           /\ backlog' \in Seq(Chunks) /\ Len(backlog') = Len(backlog) - k
           /\ \A i \in 1 .. (Len(backlog) - k) : backlog'[i] = backlog[k + i]
<1>1. backlog \in Seq(Chunks) /\ Len(backlog) \in Nat \ {0}
  BY DEF TypeOK, Refill
<1> DEFINE k == CHOOSE k \in 1 .. Len(backlog) : k = Len(backlog) \/ Cardinality(txqueue) + k = MaxInFlight
<1>2. k \in 1 .. Len(backlog)
  <2>1. Len(backlog) \in 1 .. Len(backlog)
    BY <1>1
  <2> QED
    BY <2>1
<1>3. /\ txqueue' = txqueue \cup {backlog[i] : i \in 1 .. k}
      /\ backlog' = SubSeq(backlog, k + 1, Len(backlog))
  BY DEF Refill
<1> HIDE DEF k
<1>4. /\ backlog' \in Seq(Chunks) /\ Len(backlog') = Len(backlog) - k
      /\ \A i \in 1 .. (Len(backlog) - k) : backlog'[i] = backlog[k + i]
  BY <1>1, <1>2, <1>3
<1> QED
  BY <1>2, <1>3, <1>4

LEMMA RefillInvariant ==
  ASSUME ChannelInv, Refill
  PROVE  ChannelInv'
<1>1. /\ UNCHANGED <<written, acks, txAck, wpc, start, done, returned, resets, apc, tmp, data, ackn>>
      /\ UNCHANGED rxVars
  BY DEF Refill, netVars
<1>2. /\ RxTypeOK' /\ QueueInWindow' /\ StreamInv'
      /\ Reached' = Reached /\ Queued' = Queued /\ rxNext' = rxNext
  BY <1>1, RxSame
<1>3. TypeOK /\ backlog \in Seq(Chunks) /\ Len(backlog) \in Nat
  BY DEF ChannelInv, TypeOK
<1>4. PICK k \in 1 .. Len(backlog) :
        /\ txqueue' = txqueue \cup {backlog[i] : i \in 1 .. k}
        /\ backlog' \in Seq(Chunks) /\ Len(backlog') = Len(backlog) - k
        /\ \A i \in 1 .. (Len(backlog) - k) : backlog'[i] = backlog[k + i]
  BY <1>3, RefillIs
<1>5. txqueue' = txqueue \cup {backlog[i] : i \in 1 .. k}
  BY <1>4
<1>6. /\ backlog' \in Seq(Chunks) /\ Len(backlog') = Len(backlog) - k
      /\ \A i \in 1 .. (Len(backlog) - k) : backlog'[i] = backlog[k + i]
  BY <1>4
<1>7. \A i \in 1 .. k : backlog[i] \in Chunks /\ backlog[i] < written
  BY <1>3, <1>4 DEF ChannelInv, SentInv
<1>8. TypeOK'
  BY <1>1, <1>2, <1>3, <1>5, <1>6, <1>7 DEF TypeOK
<1>9. SentInv'
  <2>1. \A i \in 1 .. Len(backlog') : backlog'[i] < written
    <3> SUFFICES ASSUME NEW i \in 1 .. (Len(backlog) - k) PROVE backlog[k + i] < written
      BY <1>3, <1>4, <1>6
    <3>1. k + i \in 1 .. Len(backlog)
      BY <1>3, <1>4
    <3> QED
      BY <3>1 DEF ChannelInv, SentInv
  <2> QED
    BY <1>1, <1>2, <1>5, <1>7, <2>1 DEF ChannelInv, SentInv, Behind
<1>10. AckInv' /\ WriteInv'
  BY <1>1, <1>2 DEF ChannelInv, AckInv, WriteInv, Behind
<1> QED
  BY <1>2, <1>8, <1>9, <1>10 DEF ChannelInv

\* What rx_ack() finds among the acknowledgments has been received, and it is the one it means.
LEMMA AckMeans ==
  ASSUME StreamAssumption, ChannelInv, InWindow, NEW n \in Reached, Idx(n) = Idx(txAck),
         resets = 0 => n >= txAck
  PROVE  n = txAck
<1> USE CyclicAssumption, ReceiverAssumption
<1>1. TypeOK /\ n \in Chunks /\ n \in Nat /\ txAck \in Counts /\ txAck \in Nat /\ written \in Nat
  BY Typed DEF ChannelInv, TypeOK
<1>2. n < written
  BY <1>1, ReachedWritten DEF ChannelInv, TypeOK
<1>3. CASE resets = 0
  <2>1. txAck <= n /\ n - txAck < M
    BY <1>1, <1>2, <1>3 DEF InWindow, StreamAssumption, WindowAssumption
  <2> QED
    BY <1>1, <2>1, IdxNear
<1>4. CASE resets # 0
  <2>1. MaxChunks < M
    BY <1>1, <1>4 DEF StreamAssumption, TypeOK
  <2>2. n - txAck < M /\ txAck - n < M
    BY <1>1, <2>1 DEF Chunks, Counts
  <2> QED
    BY <1>1, <2>2, IdxNear
<1> QED
  BY <1>3, <1>4

LEMMA AckRemoveInvariant ==
  ASSUME StreamAssumption, ChannelInv, InWindow, AckTest \/ AckRemove
  PROVE  ChannelInv'
<1>1. /\ UNCHANGED <<written, backlog, txqueue, txAck, wpc, start, done, returned, resets, data, ackn>>
      /\ UNCHANGED rxVars
  BY DEF AckTest, AckRemove, netVars
<1>2. /\ RxTypeOK' /\ QueueInWindow' /\ StreamInv'
      /\ Reached' = Reached /\ Queued' = Queued /\ rxNext' = rxNext
  BY <1>1, RxSame
<1>3. SentInv'
  BY <1>1, <1>2 DEF ChannelInv, SentInv, Behind
<1>4. CASE AckTest
  <2>1. UNCHANGED <<acks, tmp>> /\ apc' \in {"ackRemove", "idle"}
    BY <1>4 DEF AckTest
  <2>2. TypeOK'
    BY <1>1, <1>2, <2>1 DEF ChannelInv, TypeOK
  <2>3. AckInv' /\ WriteInv'
    BY <1>1, <1>2, <2>1 DEF ChannelInv, AckInv, WriteInv, Behind
  <2> QED
    BY <1>2, <1>3, <2>2, <2>3 DEF ChannelInv
<1>5. CASE AckRemove
  <2>1. /\ acks' = acks \ {Idx(txAck)} /\ tmp' = txAck /\ apc' \in {"ackStore", "dead"}
        /\ apc' = "ackStore" => Idx(txAck) \in acks
    BY <1>5 DEF AckRemove
  <2>2. TypeOK'
    BY <1>1, <1>2, <2>1 DEF ChannelInv, TypeOK
  <2>3. apc' = "ackStore" => txAck \in Reached
    <3> SUFFICES ASSUME Idx(txAck) \in acks PROVE txAck \in Reached
      BY <2>1
    <3>1. PICK n \in Reached : Idx(n) = Idx(txAck) /\ (resets = 0 => n >= txAck)
      BY DEF ChannelInv, AckInv
    <3> QED
      BY <3>1, AckMeans
  <2>4. \A i \in acks' : \E n \in Reached : i = Idx(n) /\ (resets = 0 => n > txAck)
    <3> SUFFICES ASSUME NEW i \in acks, i # Idx(txAck)
                 PROVE  \E n \in Reached : i = Idx(n) /\ (resets = 0 => n > txAck)
      BY <2>1
    <3>1. PICK n \in Reached : i = Idx(n) /\ (resets = 0 => n >= txAck)
      BY DEF ChannelInv, AckInv
    <3>2. n # txAck /\ n \in Nat /\ txAck \in Nat
      BY <3>1, Typed DEF ChannelInv
    <3> QED
      BY <3>1, <3>2
  <2>5. \A i \in acks' : \E n \in Reached : i = Idx(n) /\ (resets = 0 => n >= txAck /\ n > txAck)
    BY <2>4, Typed DEF ChannelInv
  <2>6. AckInv'
    BY <1>1, <1>2, <2>1, <2>3, <2>5 DEF ChannelInv, AckInv, Behind
  <2>7. WriteInv'
    <3>1. txAck \in Nat /\ start \in Nat /\ start .. txAck \subseteq (start .. (txAck - 1)) \cup {txAck}
      BY Typed DEF ChannelInv
    <3> QED
      BY <1>1, <1>2, <2>1, <2>3, <3>1 DEF ChannelInv, WriteInv
  <2> QED
    BY <1>2, <1>3, <2>2, <2>6, <2>7 DEF ChannelInv
<1> QED
  BY <1>4, <1>5

LEMMA AckStoreInvariant ==
  ASSUME StreamAssumption, ChannelInv, AckStore
  PROVE  ChannelInv'
<1>1. /\ UNCHANGED <<written, backlog, txqueue, acks, wpc, start, done, returned, resets, tmp, data>>
      /\ UNCHANGED rxVars /\ txAck' = tmp + 1 /\ apc = "ackStore" /\ apc' = "ackTest"
      /\ ackn' = {m \in ackn : txAck' - m <= Lag}
  BY DEF AckStore
<1>2. /\ RxTypeOK' /\ QueueInWindow' /\ StreamInv'
      /\ Reached' = Reached /\ Queued' = Queued /\ rxNext' = rxNext
  BY <1>1, RxSame
<1>3. /\ TypeOK /\ tmp \in Reached /\ tmp \in Chunks /\ tmp \in Nat /\ tmp < written
      /\ written \in Nat /\ start \in Nat
  BY <1>1, Typed, ReachedWritten DEF ChannelInv, AckInv, TypeOK
<1>4. txAck' \in Counts /\ txAck' <= written /\ txAck' - 1 = tmp /\ txAck' \in Nat
  BY <1>1, <1>3, ReceiverAssumption DEF Chunks, Counts
<1>5. TypeOK'
  BY <1>1, <1>2, <1>3, <1>4 DEF TypeOK
<1>6. SentInv'
  BY <1>1, <1>2, <1>4 DEF ChannelInv, SentInv, Behind
<1>7. WriteInv'
  BY <1>1, <1>2, <1>4 DEF ChannelInv, WriteInv
<1>8. AckInv'
  <2>1. resets = 0 => tmp = txAck /\ First .. (txAck - 1) \subseteq Reached /\ wpc \in {"idle", "waiting"}
    BY <1>1 DEF ChannelInv, AckInv
  <2>2. resets = 0 => First .. (txAck' - 1) \subseteq Reached
    <3>1. First .. tmp \subseteq (First .. (tmp - 1)) \cup {tmp}
      BY <1>3, ReceiverAssumption
    <3> QED
      BY <1>3, <1>4, <2>1, <3>1
  <2>3. \A i \in acks : \E n \in Reached : i = Idx(n) /\ (resets = 0 => n >= txAck')
    <3> SUFFICES ASSUME NEW i \in acks PROVE \E n \in Reached : i = Idx(n) /\ (resets = 0 => n >= txAck')
      OBVIOUS
    <3>1. PICK n \in Reached : i = Idx(n) /\ (resets = 0 => n > txAck)
      BY <1>1 DEF ChannelInv, AckInv
    <3>2. n \in Nat
      BY <1>3, Typed
    <3> QED
      BY <1>1, <1>3, <2>1, <3>1, <3>2
  <2> QED
    BY <1>1, <1>2, <2>1, <2>2, <2>3 DEF ChannelInv, AckInv, Behind
<1> QED
  BY <1>2, <1>5, <1>6, <1>7, <1>8 DEF ChannelInv

\* An acknowledgment counts unless it is older than tx_ack.
LEMMA RxAckInvariant ==
  ASSUME StreamAssumption, ChannelInv, InWindow, NEW n \in Chunks, RxAck(n)
  PROVE  ChannelInv'
<1>1. /\ UNCHANGED <<written, backlog, txAck, wpc, start, done, returned, resets, tmp, data, ackn>>
      /\ UNCHANGED rxVars /\ apc' = "ackTest" /\ n \in ackn /\ txqueue' \subseteq txqueue
      /\ acks' = IF Ge(Idx(n), Idx(txAck)) THEN acks \cup {Idx(n)} ELSE acks
  BY DEF RxAck, netVars
<1>2. /\ RxTypeOK' /\ QueueInWindow' /\ StreamInv'
      /\ Reached' = Reached /\ Queued' = Queued /\ rxNext' = rxNext
  BY <1>1, RxSame
<1>3. TypeOK /\ n \in Reached /\ n \in Nat /\ txAck \in Nat /\ written \in Nat /\ n < written
  BY <1>1, Typed, ReachedWritten, ChunksAreInts DEF ChannelInv, AckInv, TypeOK
<1>4. resets = 0 => (Ge(Idx(n), Idx(txAck)) <=> n >= txAck)
  <2> SUFFICES ASSUME resets = 0 PROVE Ge(Idx(n), Idx(txAck)) <=> n >= txAck
    OBVIOUS
  <2>1. Behind(txAck, n)
    BY <1>1 DEF ChannelInv, AckInv
  <2>2. n - txAck <= Ahead
    BY <1>3, ReceiverAssumption DEF InWindow
  <2>3. Lt(Idx(n), Idx(txAck)) <=> n < txAck
    BY <1>3, <2>1, <2>2, CompareNear DEF StreamAssumption
  <2> QED
    BY <1>3, <2>3 DEF Ge
<1>5. TypeOK'
  BY <1>1, <1>2, <1>3 DEF TypeOK, Indexes
<1>6. SentInv' /\ WriteInv'
  BY <1>1, <1>2 DEF ChannelInv, SentInv, WriteInv, Behind
<1>7. AckInv'
  <2>1. \A i \in acks' : \E m \in Reached : i = Idx(m) /\ (resets = 0 => m >= txAck)
    <3> SUFFICES ASSUME NEW i \in acks' PROVE \E m \in Reached : i = Idx(m) /\ (resets = 0 => m >= txAck)
      OBVIOUS
    <3>1. CASE i \in acks
      BY <3>1 DEF ChannelInv, AckInv
    <3>2. CASE i \notin acks
      BY <1>1, <1>3, <1>4, <3>2
    <3> QED
      BY <3>1, <3>2
  <2> QED
    BY <1>1, <1>2, <2>1 DEF ChannelInv, AckInv, Behind
<1> QED
  BY <1>2, <1>5, <1>6, <1>7 DEF ChannelInv

\* What is sent, or lost.
LEMMA NetworkInvariant ==
  ASSUME ChannelInv, InWindow, Lose \/ \E n \in Chunks : Transmit(n)
  PROVE  ChannelInv'
<1>1. UNCHANGED txVars /\ UNCHANGED rxVars /\ ackn' \subseteq ackn
  BY DEF Lose, Transmit
<1>2. /\ RxTypeOK' /\ QueueInWindow' /\ StreamInv'
      /\ Reached' = Reached /\ Queued' = Queued /\ rxNext' = rxNext
  BY <1>1, RxSame
<1>3. \A n \in data' : n \in data \/ n \in txqueue
  BY DEF Lose, Transmit
<1>4. TypeOK'
  BY <1>1, <1>2, <1>3 DEF ChannelInv, TypeOK, txVars
<1>5. SentInv'
  BY <1>1, <1>2, <1>3 DEF ChannelInv, SentInv, txVars, Behind, InWindow
<1>6. AckInv' /\ WriteInv'
  BY <1>1, <1>2 DEF ChannelInv, AckInv, WriteInv, txVars, Behind
<1> QED
  BY <1>2, <1>4, <1>5, <1>6 DEF ChannelInv

\* Chunks from First on, in order.
Run(from, k) == [i \in 1 .. k |-> from + i - 1]

LEMMA RunSeq ==
  ASSUME NEW from \in Nat, NEW k \in Nat
  PROVE  Run(from, k) \in Seq(Nat) /\ Len(Run(from, k)) = k /\ \A i \in 1 .. k : Run(from, k)[i] = from + i - 1
<1>1. Run(from, k) \in [1 .. k -> Nat]
  BY DEF Run
<1>2. \A i \in 1 .. k : Run(from, k)[i] = from + i - 1
  BY DEF Run
<1> HIDE DEF Run
<1> QED
  BY <1>1, <1>2

LEMMA RunOn ==
  ASSUME NEW from \in Nat, NEW j \in Nat, NEW k \in Nat
  PROVE  Run(from, j) \o Run(from + j, k) = Run(from, j + k)
<1> DEFINE p == Run(from, j)
           q == Run(from + j, k)
           s == p \o q
           t == Run(from, j + k)
<1>1. p \in Seq(Nat) /\ Len(p) = j /\ \A i \in 1 .. j : p[i] = from + i - 1
  BY RunSeq
<1>2. q \in Seq(Nat) /\ Len(q) = k /\ \A i \in 1 .. k : q[i] = (from + j) + i - 1
  BY RunSeq, from + j \in Nat
<1>3. t \in Seq(Nat) /\ Len(t) = j + k /\ \A i \in 1 .. j + k : t[i] = from + i - 1
  BY RunSeq, j + k \in Nat
<1> HIDE DEF p, q, t
<1>4. /\ s \in Seq(Nat) /\ Len(s) = j + k
      /\ \A i \in 1 .. j + k : s[i] = IF i <= j THEN p[i] ELSE q[i - j]
  BY <1>1, <1>2, ConcatProperties
<1> HIDE DEF s
<1>5. \A i \in 1 .. j + k : s[i] = t[i]
  <2> SUFFICES ASSUME NEW i \in 1 .. j + k PROVE s[i] = t[i]
    OBVIOUS
  <2>1. CASE i <= j
    BY <1>1, <1>3, <1>4, <2>1
  <2>2. CASE i > j
    <3>1. i - j \in 1 .. k
      BY <2>2
    <3>2. q[i - j] = (from + j) + (i - j) - 1
      BY <1>2, <3>1
    <3>3. s[i] = q[i - j]
      BY <1>4, <2>2
    <3>4. t[i] = from + i - 1
      BY <1>3
    <3>5. (from + j) + (i - j) - 1 = from + i - 1
      OBVIOUS
    <3> QED
      BY <3>2, <3>3, <3>4, <3>5
  <2> QED
    BY <2>1, <2>2
<1>6. s = t
  BY <1>3, <1>4, <1>5
<1> QED
  BY <1>6 DEF s, p, q, t

LEMMA NatSeq == ASSUME NEW s \in Seq(Chunks) PROVE s \in Seq(Nat)
<1>1. Len(s) \in Nat /\ s \in [1 .. Len(s) -> Chunks]
  OBVIOUS
<1>2. s \in [1 .. Len(s) -> Nat]
  BY <1>1, ChunksAreInts
<1> QED
  BY <1>1, <1>2

\* What the receiver makes of a packet: it has the chunk afterwards, and hands on a run of
\* chunks, or none.
LEMMA ReceiveIs ==
  ASSUME StreamAssumption, ChannelInv, InWindow, NEW n \in Chunks, Receive(n)
  PROVE  /\ RxIInv' /\ n < written /\ read' = read
         /\ Reached \subseteq Reached' /\ Reached' \subseteq Reached \cup {n} /\ n \in Reached'
         /\ \E k \in Nat : rxNext' = rxNext + k /\ Stream' = Stream \o Run(rxNext, k)
         /\ rxNext' <= written
<1>1. /\ TypeOK /\ RxIInv /\ n \in data /\ RxDrw(n)
  BY DEF Receive, ChannelInv, RxIInv, TypeOK
<1>2. /\ n \in Nat /\ written \in Nat /\ rxNext \in Nat /\ rxNext <= written /\ n < written
      /\ Behind(rxNext, n) /\ First <= n /\ First \in Nat
  BY <1>1, Typed, ReceiverAssumption DEF ChannelInv, SentInv, Chunks
<1>3. n - rxNext <= Ahead
  BY <1>2, ReceiverAssumption DEF InWindow
<1>4. /\ RxIInv'
      /\ \/ n < rxNext /\ UNCHANGED <<rxNext, rxqueue, buf, read>>
         \/ /\ n >= rxNext /\ read' = read
            /\ \E k \in Nat :
                 /\ rxNext' = rxNext + k
                 /\ buf' = buf \o [i \in 1 .. k |-> rxNext + i - 1]
                 /\ rxNext .. (rxNext + k - 1) \subseteq Queued \cup {n}
                 /\ Queued' = (Queued \cup {n}) \ (rxNext .. (rxNext + k - 1))
  BY <1>1, <1>2, <1>3, RxDrwIs DEF StreamAssumption
<1>5. read \in Seq(Nat) /\ buf \in Seq(Nat) /\ read \o buf \in Seq(Nat)
  <2>1. read \in Seq(Chunks) /\ buf \in Seq(Chunks)
    BY <1>1 DEF RxIInv, RxTypeOK
  <2>2. read \in Seq(Nat) /\ buf \in Seq(Nat)
    BY <2>1, NatSeq
  <2> QED
    BY <2>2, ConcatProperties
<1>6. CASE n < rxNext /\ UNCHANGED <<rxNext, rxqueue, buf, read>>
  <2>1. Reached' = Reached /\ Stream' = Stream /\ rxNext' = rxNext + 0
    BY <1>2, <1>6 DEF Reached, Queued, Stream
  <2>2. n \in Reached
    BY <1>2, <1>6 DEF Reached
  <2>3. Stream \o Run(rxNext, 0) = Stream
    <3>1. Run(rxNext, 0) = <<>>
      BY DEF Run
    <3> QED
      BY <1>5, <3>1, ConcatEmptySeq DEF Stream
  <2>4. \E k \in Nat : rxNext' = rxNext + k /\ Stream' = Stream \o Run(rxNext, k)
    BY <2>1, <2>3
  <2> QED
    BY <1>2, <1>4, <1>6, <2>1, <2>2, <2>4
<1>7. CASE ~(n < rxNext /\ UNCHANGED <<rxNext, rxqueue, buf, read>>)
  <2>1. n >= rxNext /\ read' = read
    BY <1>4, <1>7
  <2>2. PICK k \in Nat :
          /\ rxNext' = rxNext + k /\ buf' = buf \o Run(rxNext, k)
          /\ rxNext .. (rxNext + k - 1) \subseteq Queued \cup {n}
          /\ Queued' = (Queued \cup {n}) \ (rxNext .. (rxNext + k - 1))
    BY <1>4, <1>7 DEF Run
  <2>3. Stream' = Stream \o Run(rxNext, k)
    <3>1. Run(rxNext, k) \in Seq(Nat)
      BY <1>2, RunSeq
    <3>2. (read \o buf) \o Run(rxNext, k) = read \o (buf \o Run(rxNext, k))
      BY <1>5, <3>1, ConcatAssociative
    <3> QED
      BY <2>1, <2>2, <3>2 DEF Stream
  <2>4. First .. (rxNext + k - 1) = (First .. (rxNext - 1)) \cup (rxNext .. (rxNext + k - 1))
    <3>1. First <= rxNext
      BY <1>1, ReceiverAssumption DEF RxIInv, RxTypeOK, Counts
    <3> QED
      BY <1>2, <3>1
  <2>5. Reached' = (First .. (rxNext + k - 1)) \cup ((Queued \cup {n}) \ (rxNext .. (rxNext + k - 1)))
    <3>1. rxNext' - 1 = rxNext + k - 1
      BY <1>2, <2>2
    <3>2. Reached' = (First .. (rxNext' - 1)) \cup Queued'
      BY DEF Reached
    <3> QED
      BY <2>2, <3>1, <3>2
  <2>6. Reached' = Reached \cup {n}
    BY <2>2, <2>4, <2>5 DEF Reached
  <2>7. rxNext' <= written
    <3>1. CASE k = 0
      BY <1>2, <2>2, <3>1
    <3>2. CASE k > 0
      <4>1. rxNext + k - 1 \in Queued \cup {n}
        BY <1>2, <2>2, <3>2
      <4>2. rxNext + k - 1 < written
        BY <1>2, <4>1 DEF ChannelInv, SentInv
      <4> QED
        BY <1>2, <2>2, <4>2
    <3> QED
      BY <3>1, <3>2
  <2> QED
    BY <1>2, <1>4, <2>1, <2>2, <2>3, <2>6, <2>7
<1> QED
  BY <1>6, <1>7

LEMMA ReceiveInvariant ==
  ASSUME StreamAssumption, ChannelInv, InWindow, NEW n \in Chunks, Receive(n)
  PROVE  ChannelInv'
<1>1. /\ UNCHANGED txVars /\ n \in data /\ ackn' = ackn \cup {n}
      /\ data' = {m \in data : rxNext' - m <= Lag}
  BY DEF Receive, Drain
<1>2. /\ RxIInv' /\ n < written
      /\ Reached \subseteq Reached' /\ Reached' \subseteq Reached \cup {n} /\ n \in Reached'
      /\ \E k \in Nat : rxNext' = rxNext + k /\ Stream' = Stream \o Run(rxNext, k)
      /\ rxNext' <= written
  BY ReceiveIs
<1>3. TypeOK /\ SentInv /\ AckInv /\ WriteInv
  BY DEF ChannelInv
<1>4. /\ written \in Nat /\ txAck \in Nat /\ rxNext \in Nat /\ n \in Nat /\ Reached \subseteq Nat
      /\ rxNext \in Counts
  BY <1>3, Typed, ChunksAreInts DEF TypeOK, RxTypeOK
<1>5. TypeOK'
  BY <1>1, <1>2, <1>3 DEF TypeOK, RxIInv, txVars
<1>6. StreamInv'
  <2>1. PICK k \in Nat : rxNext' = rxNext + k /\ Stream' = Stream \o Run(rxNext, k)
    BY <1>2
  <2>2. rxNext - First \in Nat /\ First + (rxNext - First) = rxNext
    BY <1>4, ReceiverAssumption DEF Counts
  <2>3. Stream = Run(First, rxNext - First)
    BY DEF ChannelInv, StreamInv, Run
  <2>4. Stream' = Run(First, (rxNext - First) + k)
    <3> DEFINE d == rxNext - First
    <3>0. d \in Nat /\ First \in Nat
      BY <2>2, ReceiverAssumption
    <3> HIDE DEF d
    <3>1. Run(First, d) \o Run(First + d, k) = Run(First, d + k)
      BY <3>0, RunOn
    <3> USE DEF d
    <3> QED
      BY <2>1, <2>2, <2>3, <3>1
  <2>5. (rxNext - First) + k = rxNext' - First
    BY <1>4, <2>1, ReceiverAssumption
  <2> QED
    BY <2>4, <2>5 DEF StreamInv, Run
<1>7. SentInv'
  <2>1. \A m \in Reached' : m < written
    BY <1>2, <1>3, ReachedWritten DEF TypeOK
  <2>2. Queued' \subseteq Reached'
    BY DEF Reached
  <2> QED
    BY <1>1, <1>2, <1>3, <2>1, <2>2 DEF SentInv, txVars, Behind
<1>8. WriteInv'
  BY <1>1, <1>2, <1>3 DEF WriteInv, txVars
<1>9. AckInv'
  <2>1. resets = 0 => Behind(txAck, n)
    <3> SUFFICES ASSUME resets = 0 PROVE Behind(txAck, n)
      OBVIOUS
    <3>1. First .. (txAck - 1) \subseteq Reached /\ rxNext \notin Reached
      BY <1>3, NextIsMissing DEF AckInv, ChannelInv, TypeOK
    <3>2. txAck <= rxNext
      BY <1>4, <3>1, ReceiverAssumption DEF Counts
    <3>3. Behind(rxNext, n)
      BY <1>1, <1>3 DEF SentInv
    <3> QED
      BY <1>4, <3>2, <3>3, ReceiverAssumption DEF Behind
  <2> QED
    BY <1>1, <1>2, <1>3, <2>1 DEF AckInv, txVars, Behind
<1> QED
  BY <1>2, <1>5, <1>6, <1>7, <1>8, <1>9 DEF ChannelInv, RxIInv

LEMMA ReadInvariant ==
  ASSUME StreamAssumption, ChannelInv, Receiver
  PROVE  ChannelInv' /\ Stream' = Stream
<1>1. /\ read' = read \o buf /\ buf' = <<>> /\ UNCHANGED <<rxNext, rxqueue>>
      /\ UNCHANGED txVars /\ ackn' = ackn /\ data' \subseteq data
  BY DEF Receiver, RxStep, SkipRxGap, Read, Drain, StreamAssumption
<1>2. TypeOK /\ read \in Seq(Chunks) /\ buf \in Seq(Chunks)
  BY DEF ChannelInv, TypeOK, RxTypeOK
<1>3. read \o buf \in Seq(Chunks) /\ (read \o buf) \o <<>> = read \o buf
  BY <1>2, ConcatProperties, ConcatEmptySeq
<1>4. Stream' = Stream /\ Reached' = Reached /\ Queued' = Queued /\ StreamInv'
  BY <1>1, <1>3 DEF Stream, Reached, Queued, StreamInv, ChannelInv
<1>5. <<>> \in Seq(Chunks)
  OBVIOUS
<1>6. TypeOK'
  BY <1>1, <1>2, <1>3, <1>4, <1>5 DEF TypeOK, RxTypeOK, txVars
<1>7. QueueInWindow' /\ SentInv' /\ AckInv' /\ WriteInv'
  BY <1>1, <1>4 DEF ChannelInv, QueueInWindow, SentInv, AckInv, WriteInv, txVars, Behind
<1> QED
  BY <1>4, <1>6, <1>7 DEF ChannelInv

LEMMA ChannelInit == Init => ChannelInv
<1> SUFFICES ASSUME Init PROVE ChannelInv
  OBVIOUS
<1> USE ReceiverAssumption, ChannelAssumption
<1>1. First \in Counts /\ First \in Nat /\ <<>> \in Seq(Chunks) /\ Len(<<>>) = 0
  BY DEF Counts
<1>2. Queued = {}
  BY DEF Init, RxInit, Queued
<1>3. RxTypeOK /\ QueueInWindow
  BY <1>1, <1>2 DEF Init, RxInit, RxTypeOK, QueueInWindow
<1>4. TypeOK
  BY <1>1, <1>3 DEF Init, TypeOK
<1>5. First .. (First - 1) = {}
  BY <1>1
<1>6. SentInv /\ AckInv /\ WriteInv
  BY <1>1, <1>2, <1>5 DEF Init, RxInit, SentInv, AckInv, WriteInv, Reached
<1>7. StreamInv
  <2>1. Stream = <<>>
    BY <1>1, ConcatEmptySeq DEF Init, RxInit, Stream
  <2>2. rxNext - First = 0
    BY <1>1 DEF Init, RxInit
  <2> QED
    BY <2>1, <2>2 DEF StreamInv
<1> QED
  BY <1>3, <1>4, <1>6, <1>7 DEF ChannelInv

LEMMA ChannelStep ==
  ASSUME StreamAssumption, ChannelInv, InWindow, [Next]_vars
  PROVE  ChannelInv'
<1>1. CASE Write \/ WriteReturns \/ WriteTimesOut \/ ResetTx
  BY <1>1, WriteInvariant, ReturnsInvariant, TimesOutInvariant, ResetInvariant
<1>2. CASE Refill \/ AckTest \/ AckRemove \/ AckStore
  BY <1>2, RefillInvariant, AckRemoveInvariant, AckStoreInvariant
<1>3. ASSUME NEW n \in Chunks, Transmit(n) \/ RxAck(n) \/ Receive(n) PROVE ChannelInv'
  BY <1>3, NetworkInvariant, RxAckInvariant, ReceiveInvariant
<1>4. CASE Receiver \/ Lose
  BY <1>4, ReadInvariant, NetworkInvariant
<1>5. CASE UNCHANGED vars
  <2>1. UNCHANGED txVars /\ UNCHANGED netVars /\ UNCHANGED rxVars
    BY <1>5 DEF vars
  <2>2. /\ RxTypeOK' /\ QueueInWindow' /\ StreamInv'
        /\ Reached' = Reached /\ Queued' = Queued /\ rxNext' = rxNext
    BY <2>1, RxSame
  <2> QED
    BY <2>1, <2>2 DEF ChannelInv, TypeOK, SentInv, AckInv, WriteInv, txVars, netVars, Behind
<1> QED
  BY <1>1, <1>2, <1>3, <1>4, <1>5 DEF Next

-----------------------------------------------------------------------------
\* The abstract stream.

\* What a write that is cut, acknowledged, returned or given up means to the upper layer.
LEMMA WriterRefines ==
  ASSUME StreamAssumption, ChannelInv, InWindow, Write \/ WriteReturns \/ WriteTimesOut \/ ResetTx
  PROVE  [Reliable!Next]_<<written, Stream, returned, resets > 0>>
<1>1. Stream' = Stream
  BY DEF Write, WriteReturns, WriteTimesOut, ResetTx, rxVars, Stream
<1>2. written \in Nat /\ returned \in Nat /\ resets \in Nat /\ rxNext \in Nat /\ done \in Nat
  BY Typed DEF ChannelInv
<1>3. CASE Write
  <2>1. written' > written /\ UNCHANGED <<returned, resets>>
    <3>1. PICK size \in Sizes : written' = written + size
      BY <1>3 DEF Write
    <3>2. size \in Nat /\ size > 0
      BY ChannelAssumption
    <3> QED
      BY <1>2, <1>3, <3>1, <3>2 DEF Write
  <2> QED
    BY <1>1, <2>1 DEF Reliable!Next, Reliable!Send
<1>4. CASE WriteReturns
  <2>1. returned' = done /\ UNCHANGED <<written, resets>>
    BY <1>4 DEF WriteReturns
  <2>2. txAck = done /\ returned < done /\ done = written
    BY <1>4, ReturnsReached
  <2>3. resets = 0 => done <= First + Len(Stream)
    <3> SUFFICES ASSUME resets = 0 PROVE done <= First + Len(Stream)
      OBVIOUS
    <3>1. First .. (done - 1) \subseteq Reached /\ rxNext \notin Reached
      BY <2>2, NextIsMissing DEF ChannelInv, AckInv, TypeOK
    <3>2. rxNext \in Counts /\ First \in Nat /\ First <= rxNext
      BY <1>2, ReceiverAssumption DEF ChannelInv, TypeOK, RxTypeOK, Counts
    <3>3. done <= rxNext
      BY <1>2, <3>1, <3>2
    <3>4. Len(Stream) = rxNext - First
      <4>1. Stream = Run(First, rxNext - First) /\ rxNext - First \in Nat
        BY <1>2, <3>2 DEF ChannelInv, StreamInv, Run
      <4> QED
        BY <3>2, <4>1, RunSeq
    <3> QED
      BY <1>2, <3>2, <3>3, <3>4
  <2>4. done \in (returned + 1) .. (IF resets > 0 THEN written ELSE First + Len(Stream))
    <3>1. CASE resets > 0
      BY <1>2, <2>2, <3>1
    <3>2. CASE resets = 0
      <4>1. First + Len(Stream) \in Int
        <5>1. Stream \in Seq(Nat)
          <6>1. rxNext - First \in Nat /\ First \in Nat
            BY ReceiverAssumption, <1>2 DEF ChannelInv, TypeOK, RxTypeOK, Counts
          <6> QED
            BY <6>1, RunSeq DEF ChannelInv, StreamInv, Run
        <5> QED
          BY <5>1, ReceiverAssumption
      <4> QED
        BY <1>2, <2>2, <2>3, <3>2, <4>1
    <3> QED
      BY <1>2, <3>1, <3>2
  <2> QED
    BY <1>1, <2>1, <2>4 DEF Reliable!Next, Reliable!Confirm
<1>5. CASE WriteTimesOut
  <2>1. UNCHANGED <<written, returned>> /\ resets' = resets + 1
    BY <1>5 DEF WriteTimesOut
  <2>2. resets' > 0
    BY <1>2, <2>1
  <2> QED
    BY <1>1, <2>1, <2>2 DEF Reliable!Next, Reliable!GiveUp
<1>6. CASE ResetTx
  BY <1>1, <1>6 DEF ResetTx
<1> QED
  BY <1>3, <1>4, <1>5, <1>6

\* A run of chunks that is handed on is the delivery of what was written next.
LEMMA ReceiveRefines ==
  ASSUME StreamAssumption, ChannelInv, InWindow, NEW n \in Chunks, Receive(n)
  PROVE  [Reliable!Next]_<<written, Stream, returned, resets > 0>>
<1>1. UNCHANGED <<written, returned, resets>>
  BY DEF Receive, txVars
<1>2. PICK k \in Nat : rxNext' = rxNext + k /\ Stream' = Stream \o Run(rxNext, k)
  BY ReceiveIs
<1>3. rxNext' <= written /\ rxNext \in Nat /\ written \in Nat
  BY ReceiveIs, Typed DEF ChannelInv
<1>4. /\ rxNext - First \in Nat /\ First \in Nat /\ Stream = Run(First, rxNext - First)
  BY <1>3, ReceiverAssumption DEF ChannelInv, TypeOK, RxTypeOK, Counts, StreamInv, Run
<1>5. Stream \in Seq(Nat) /\ Len(Stream) = rxNext - First
  BY <1>4, RunSeq
<1>6. Run(rxNext, k) \in Seq(Nat) /\ Len(Run(rxNext, k)) = k
  BY <1>3, RunSeq
<1>7. Len(Stream') = (rxNext - First) + k
  BY <1>2, <1>5, <1>6, ConcatProperties
<1>8. CASE k = 0
  <2>1. Stream' = Stream
    <3>1. Run(rxNext, k) = <<>>
      BY <1>8 DEF Run
    <3> QED
      BY <1>2, <1>5, <3>1, ConcatEmptySeq
  <2> QED
    BY <1>1, <2>1
<1>9. CASE k > 0
  <2>1. First + Len(Stream') \in (First + Len(Stream) + 1) .. written
    BY <1>2, <1>3, <1>4, <1>5, <1>7, <1>9
  <2>2. Len(Stream') - Len(Stream) = k /\ First + Len(Stream) = rxNext
    BY <1>3, <1>4, <1>5, <1>7
  <2>3. Stream' = Stream \o [i \in 1 .. (Len(Stream') - Len(Stream)) |-> First + Len(Stream) + i - 1]
    BY <1>2, <2>2 DEF Run
  <2> QED
    BY <1>1, <2>1, <2>3 DEF Reliable!Next, Reliable!Deliver
<1> QED
  BY <1>2, <1>8, <1>9

\* Every step of the channel is a step of the reliable stream, or none of it.
LEMMA StepRefines ==
  ASSUME StreamAssumption, ChannelInv, InWindow, [Next]_vars
  PROVE  [Reliable!Next]_<<written, Stream, returned, resets > 0>>
<1>1. CASE Write \/ WriteReturns \/ WriteTimesOut \/ ResetTx
  BY <1>1, WriterRefines
<1>2. CASE Refill \/ AckTest \/ AckRemove \/ AckStore
  BY <1>2 DEF Refill, AckTest, AckRemove, AckStore, rxVars, Stream
<1>3. ASSUME NEW n \in Chunks, Transmit(n) \/ RxAck(n) \/ Receive(n)
      PROVE  [Reliable!Next]_<<written, Stream, returned, resets > 0>>
  <2>1. CASE Transmit(n) \/ RxAck(n)
    BY <2>1 DEF Transmit, RxAck, txVars, rxVars, Stream
  <2>2. CASE Receive(n)
    BY <2>2, ReceiveRefines
  <2> QED
    BY <1>3, <2>1, <2>2
<1>4. CASE Receiver
  <2>1. UNCHANGED txVars
    BY <1>4 DEF Receiver
  <2> QED
    BY <1>4, <2>1, ReadInvariant DEF txVars
<1>5. CASE Lose \/ UNCHANGED vars
  BY <1>5 DEF Lose, vars, txVars, rxVars, Stream
<1> QED
  BY <1>1, <1>2, <1>3, <1>4, <1>5 DEF Next

LEMMA InitRefines == Init => Reliable!Init
<1> SUFFICES ASSUME Init PROVE Reliable!Init
  OBVIOUS
<1>1. Stream = <<>>
  BY ConcatEmptySeq DEF Init, RxInit, Stream
<1>2. ~(resets > 0)
  BY DEF Init
<1> QED
  BY <1>1, <1>2 DEF Init, Reliable!Init

\* As long as what is under way stays within the comparison of the counters, the reader gets what
\* is written, in order, and a write() that returns has reached it: whatever the network loses,
\* repeats, reorders or delays, and wherever a timeout interrupts rx_ack().
THEOREM ReliableInWindow ==
  ASSUME StreamAssumption
  PROVE  Spec /\ []InWindow => ImplementsStream
<1>1. Init => ChannelInv
  BY ChannelInit
<1>2. ChannelInv /\ InWindow /\ [Next]_vars => ChannelInv'
  BY ChannelStep
<1>3. ChannelInv /\ InWindow /\ [Next]_vars => [Reliable!Next]_<<written, Stream, returned, resets > 0>>
  BY StepRefines
<1> QED
  BY <1>1, <1>2, <1>3, InitRefines, PTL DEF Spec, ImplementsStream, Reliable!Spec

THEOREM ReturnsInWindow ==
  ASSUME StreamAssumption
  PROVE  Spec /\ []InWindow => ReturnedReached
<1>1. Init => ChannelInv
  BY ChannelInit
<1>2. ChannelInv /\ InWindow /\ [Next]_vars => ChannelInv'
  BY ChannelStep
<1>3. ChannelInv /\ InWindow /\ [Next]_vars
        => [WriteReturns => start .. (done - 1) \subseteq Reached]_vars
  BY ReturnsReached
<1> QED
  BY <1>1, <1>2, <1>3, PTL DEF Spec, ReturnedReached

-----------------------------------------------------------------------------
(* Where the window is not an assumption.                                   *)

\* A channel that has carried no more than Ahead chunks.
LEMMA FewInWindow == ASSUME MaxChunks <= Ahead, ChannelInv PROVE InWindow
<1>1. /\ written \in Counts /\ rxNext \in Counts /\ txAck \in Counts /\ txqueue \subseteq Chunks
  BY DEF ChannelInv, TypeOK, RxTypeOK
<1> QED
  BY <1>1, ReceiverAssumption DEF InWindow, Counts, Chunks

\* So the first Ahead chunks are a reliable stream whatever times out and is given up.
THEOREM ReliableWhenShort ==
  ASSUME StreamAssumption, MaxChunks <= Ahead
  PROVE  Spec => ImplementsStream /\ ReturnedReached
<1>1. Init => ChannelInv
  BY ChannelInit
<1>2. ChannelInv => InWindow
  BY FewInWindow
<1>3. ChannelInv /\ InWindow /\ [Next]_vars => ChannelInv'
  BY ChannelStep
<1>4. Spec => []InWindow
  BY <1>1, <1>2, <1>3, PTL DEF Spec
<1> QED
  BY <1>4, ReliableInWindow, ReturnsInWindow, PTL

\* A file transfer writes one message at a time and waits for it (Blocking); none of them is
\* longer than the comparison of the counters reaches, and none has been given up yet.
FileTransfer == Blocking = {TRUE} /\ MaxResets = 0 /\ \A size \in Sizes : size <= Ahead

\* Then everything before the current write has arrived, and its chunks are, in order: received
\* or in flight, or still in the backlog.
OneWrite ==
  /\ wpc = "idle" => txAck = written
  /\ wpc = "waiting" => start <= txAck /\ written - start <= Ahead
  /\ \A i \in 1 .. Len(backlog) : backlog[i] = written - Len(backlog) + i - 1
  /\ rxNext <= written - Len(backlog)
  /\ \A n \in txqueue \cup data \cup Queued : n < written - Len(backlog)
  /\ \A n \in txqueue : n >= txAck /\ Idx(n) \notin acks /\ (apc = "ackStore" => n > txAck)

LEMMA OneWriteIs ==
  ASSUME FileTransfer, ChannelInv, OneWrite
  PROVE  /\ InWindow /\ resets = 0 /\ wpc \in {"idle", "waiting"} /\ Len(backlog) \in Nat
         /\ txAck <= rxNext /\ \A n \in Reached : n < written - Len(backlog)
<1>1. TypeOK /\ resets = 0
  BY DEF ChannelInv, TypeOK, FileTransfer
<1>2. /\ written \in Nat /\ rxNext \in Nat /\ txAck \in Nat /\ start \in Nat /\ First \in Nat
      /\ Ahead \in Nat /\ First <= rxNext /\ backlog \in Seq(Chunks)
  BY <1>1, Typed, ReceiverAssumption DEF TypeOK, RxTypeOK, Counts
<1>3. Len(backlog) \in Nat
  BY <1>2
<1>4. wpc \in {"idle", "waiting"} /\ First .. (txAck - 1) \subseteq Reached
  BY <1>1 DEF ChannelInv, AckInv
<1>5. txAck <= rxNext
  BY <1>1, <1>2, <1>4, NextIsMissing DEF ChannelInv, TypeOK
<1>6. written - txAck <= Ahead
  BY <1>2, <1>4 DEF OneWrite
<1>7. \A n \in txqueue : n \in Nat /\ n >= txAck
  BY <1>1, ChunksAreInts DEF OneWrite, TypeOK
<1>8. rxNext <= written
  BY <1>2, <1>3 DEF OneWrite
<1>9. InWindow
  BY <1>2, <1>5, <1>6, <1>7, <1>8 DEF InWindow
<1>10. \A n \in Reached : n < written - Len(backlog)
  BY <1>2, <1>3 DEF OneWrite, Reached
<1> QED
  BY <1>1, <1>3, <1>4, <1>5, <1>9, <1>10

LEMMA OneWriteInit == Init => OneWrite
<1> SUFFICES ASSUME Init PROVE OneWrite
  OBVIOUS
<1>1. First \in Nat /\ Len(backlog) = 0 /\ Queued = {}
  BY ReceiverAssumption DEF Init, RxInit, Queued
<1> QED
  BY <1>1 DEF Init, RxInit, OneWrite

\* The writer cuts nothing new before all of the last write is acknowledged.
LEMMA OneWriteWriter ==
  ASSUME StreamAssumption, FileTransfer, ChannelInv, OneWrite,
         Write \/ WriteReturns \/ WriteTimesOut \/ ResetTx
  PROVE  OneWrite'
<1>1. /\ InWindow /\ resets = 0 /\ wpc \in {"idle", "waiting"} /\ Len(backlog) \in Nat
      /\ txAck <= rxNext /\ \A n \in Reached : n < written - Len(backlog)
  BY OneWriteIs
<1>2. /\ written \in Nat /\ rxNext \in Nat /\ txAck \in Nat /\ start \in Nat /\ Ahead \in Nat
      /\ txqueue \subseteq Nat /\ data \subseteq Nat /\ Queued \subseteq Nat
  BY Typed, ChunksAreInts, ReceiverAssumption DEF ChannelInv, TypeOK, RxTypeOK
<1>3. CASE Write
  <2>1. PICK size \in Sizes :
          /\ written' = written + size
          /\ backlog' = backlog \o [i \in 1 .. size |-> written + i - 1]
          /\ start' = written
    BY <1>3 DEF Write
  <2>2. /\ wpc = "idle" /\ wpc' = "waiting"
        /\ UNCHANGED <<txqueue, acks, txAck, apc, data, rxVars>>
    <3>1. Blocking = {TRUE}
      BY DEF FileTransfer
    <3> QED
      BY <1>3, <3>1 DEF Write, netVars
  <2>3. size \in Nat /\ size > 0 /\ size <= Ahead
    BY ChannelAssumption DEF FileTransfer
  <2>4. txAck = written /\ Len(backlog) = 0 /\ rxNext = written
    BY <1>1, <1>2, <2>2 DEF OneWrite
  <2>5. backlog = <<>>
    BY <2>4 DEF ChannelInv, TypeOK
  <2>6. Run(written, size) \in Seq(Nat) /\ backlog' = Run(written, size)
    <3>1. Run(written, size) \in Seq(Nat)
      BY <1>2, <2>3, RunSeq
    <3>2. <<>> \o Run(written, size) = Run(written, size)
      BY <3>1, ConcatEmptySeq
    <3> QED
      BY <2>1, <2>5, <3>1, <3>2 DEF Run
  <2>7. Len(backlog') = size /\ \A i \in 1 .. size : backlog'[i] = written + i - 1
    BY <1>2, <2>3, <2>6, RunSeq
  <2>8. Queued' = Queued /\ rxNext' = rxNext
    BY <2>2 DEF rxVars, Queued
  <2>9. written' - size = written
    BY <1>2, <2>1, <2>3
  <2>10. \A i \in 1 .. Len(backlog') : backlog'[i] = written' - Len(backlog') + i - 1
    BY <2>7, <2>9
  <2>11. txqueue = {}
    BY <1>2, <2>4 DEF OneWrite
  <2>12. \A n \in txqueue' \cup data' \cup Queued' : n < written' - Len(backlog')
    BY <1>2, <2>2, <2>4, <2>7, <2>8, <2>9 DEF OneWrite
  <2> QED
    BY <1>2, <2>1, <2>2, <2>3, <2>4, <2>7, <2>8, <2>9, <2>10, <2>11, <2>12 DEF OneWrite
<1>4. CASE WriteReturns
  <2>1. txAck = done /\ done = written
    BY <1>1, <1>4, ReturnsReached
  <2>2. /\ UNCHANGED <<written, backlog, txqueue, acks, txAck, start, apc, data, rxVars>>
        /\ wpc' = "idle"
    BY <1>4 DEF WriteReturns, netVars
  <2>3. Queued' = Queued /\ rxNext' = rxNext
    BY <2>2 DEF rxVars, Queued
  <2> QED
    BY <2>1, <2>2, <2>3 DEF OneWrite
<1>5. CASE WriteTimesOut
  <2>1. FALSE
    BY <1>1, <1>5 DEF WriteTimesOut, FileTransfer
  <2> QED
    BY <2>1
<1>6. CASE ResetTx
  <2>1. FALSE
    BY <1>1, <1>6 DEF ResetTx, ClearTxqueue
  <2> QED
    BY <2>1
<1> QED
  BY <1>3, <1>4, <1>5, <1>6

\* What poll() moves into flight is newer than all that has been acknowledged.
LEMMA OneWriteRefill ==
  ASSUME StreamAssumption, FileTransfer, ChannelInv, OneWrite, Refill
  PROVE  OneWrite'
<1> USE CyclicAssumption, ReceiverAssumption
<1>1. /\ InWindow /\ resets = 0 /\ wpc \in {"idle", "waiting"} /\ Len(backlog) \in Nat
      /\ txAck <= rxNext /\ \A n \in Reached : n < written - Len(backlog)
  BY OneWriteIs
<1>2. /\ written \in Nat /\ rxNext \in Nat /\ txAck \in Nat /\ Ahead \in Nat
      /\ txqueue \subseteq Nat /\ data \subseteq Nat /\ Queued \subseteq Nat /\ Reached \subseteq Nat
  BY Typed, ChunksAreInts DEF ChannelInv, TypeOK, RxTypeOK
<1>3. PICK k \in 1 .. Len(backlog) :
        /\ txqueue' = txqueue \cup {backlog[i] : i \in 1 .. k}
        /\ backlog' \in Seq(Chunks) /\ Len(backlog') = Len(backlog) - k
        /\ \A i \in 1 .. (Len(backlog) - k) : backlog'[i] = backlog[k + i]
  BY RefillIs DEF ChannelInv
<1>4. /\ apc = "idle" /\ UNCHANGED <<written, acks, txAck, wpc, start, apc, data, rxVars>>
  BY DEF Refill, netVars
<1>5. Queued' = Queued /\ rxNext' = rxNext
  BY <1>4 DEF rxVars, Queued
<1>6. \A i \in 1 .. Len(backlog) : backlog[i] = written - Len(backlog) + i - 1
  BY DEF OneWrite
<1>7. \A i \in 1 .. Len(backlog') : backlog'[i] = written' - Len(backlog') + i - 1
  <2> SUFFICES ASSUME NEW i \in 1 .. (Len(backlog) - k)
               PROVE  backlog'[i] = written - (Len(backlog) - k) + i - 1
    BY <1>3, <1>4
  <2>1. k + i \in 1 .. Len(backlog)
    BY <1>1
  <2>2. backlog'[i] = written - Len(backlog) + (k + i) - 1
    BY <1>3, <1>6, <2>1
  <2> QED
    BY <1>1, <1>2, <2>2
<1>8. \A n \in txqueue' \cup data' \cup Queued' : n < written' - Len(backlog')
  <2>1. \A i \in 1 .. k : backlog[i] < written - (Len(backlog) - k)
    BY <1>1, <1>2, <1>6
  <2>2. \A n \in txqueue \cup data \cup Queued : n < written - (Len(backlog) - k)
    BY <1>1, <1>2 DEF OneWrite
  <2> QED
    BY <1>3, <1>4, <1>5, <2>1, <2>2
<1>9. \A i \in 1 .. k : backlog[i] >= txAck /\ Idx(backlog[i]) \notin acks
  <2> SUFFICES ASSUME NEW i \in 1 .. k PROVE backlog[i] >= txAck /\ Idx(backlog[i]) \notin acks
    OBVIOUS
  <2>1. /\ backlog[i] = written - Len(backlog) + i - 1 /\ backlog[i] \in Int
        /\ backlog[i] >= written - Len(backlog) /\ backlog[i] < written
    BY <1>1, <1>2, <1>6
  <2>2. backlog[i] >= rxNext /\ backlog[i] >= txAck
    BY <1>1, <1>2, <2>1 DEF OneWrite
  <2>3. ASSUME Idx(backlog[i]) \in acks PROVE FALSE
    <3>1. PICK n \in Reached : Idx(backlog[i]) = Idx(n) /\ n >= txAck
      BY <1>1, <2>3 DEF ChannelInv, AckInv
    <3>2. n \in Nat /\ n < backlog[i] /\ backlog[i] \in Nat
      BY <1>1, <1>2, <2>1, <2>2, <3>1
    <3>3. backlog[i] - n < M
      BY <1>1, <1>2, <2>1, <3>1, <3>2 DEF InWindow, StreamAssumption, WindowAssumption
    <3> QED
      BY <3>1, <3>2, <3>3, IdxNear
  <2> QED
    BY <2>2, <2>3
<1>10. \A n \in txqueue' : n >= txAck' /\ Idx(n) \notin acks' /\ (apc' = "ackStore" => n > txAck')
  BY <1>3, <1>4, <1>9 DEF OneWrite
<1>11. rxNext' <= written' - Len(backlog')
  BY <1>1, <1>2, <1>3, <1>4, <1>5 DEF OneWrite
<1> QED
  BY <1>4, <1>5, <1>7, <1>8, <1>10, <1>11 DEF OneWrite

\* rx_ack() takes what it acknowledges out of flight before tx_ack passes it.
LEMMA OneWriteAck ==
  ASSUME StreamAssumption, FileTransfer, ChannelInv, OneWrite,
         AckTest \/ AckRemove \/ AckStore \/ \E n \in Chunks : RxAck(n)
  PROVE  OneWrite'
<1>1. InWindow /\ resets = 0 /\ txAck <= rxNext
  BY OneWriteIs
<1>2. txAck \in Nat /\ txqueue \subseteq Nat /\ written \in Nat /\ rxNext \in Nat /\ start \in Nat
  BY Typed, ChunksAreInts DEF ChannelInv, TypeOK
<1>3. UNCHANGED <<written, backlog, wpc, start, data, rxVars>>
  BY DEF AckTest, AckRemove, AckStore, RxAck, netVars
<1>4. Queued' = Queued /\ rxNext' = rxNext
  BY <1>3 DEF rxVars, Queued
<1>5. CASE AckTest
  <2>1. UNCHANGED <<txqueue, acks, txAck>> /\ apc' # "ackStore"
    BY <1>5 DEF AckTest
  <2> QED
    BY <1>3, <1>4, <2>1 DEF OneWrite
<1>6. CASE AckRemove
  <2>1. /\ UNCHANGED <<txqueue, txAck>> /\ acks' \subseteq acks
        /\ apc' = "ackStore" => Idx(txAck) \in acks
    BY <1>6 DEF AckRemove
  <2>2. \A n \in txqueue : n >= txAck /\ Idx(n) \notin acks
    BY DEF OneWrite
  <2>3. \A n \in txqueue : apc' = "ackStore" => n > txAck
    BY <1>2, <2>1, <2>2
  <2> QED
    BY <1>3, <1>4, <2>1, <2>2, <2>3 DEF OneWrite
<1>7. CASE AckStore
  <2>1. UNCHANGED <<txqueue, acks>> /\ apc = "ackStore" /\ apc' # "ackStore" /\ txAck' = tmp + 1
    BY <1>7 DEF AckStore
  <2>2. tmp = txAck /\ tmp \in Reached
    BY <1>1, <2>1 DEF ChannelInv, AckInv
  <2>3. \A n \in txqueue : n >= txAck + 1 /\ Idx(n) \notin acks
    BY <1>2, <2>1 DEF OneWrite
  <2>4. txAck < written
    BY <2>2, ReachedWritten DEF ChannelInv, TypeOK
  <2>5. /\ wpc = "idle" => txAck' = written
        /\ wpc = "waiting" => start <= txAck'
    BY <1>2, <2>1, <2>2, <2>4 DEF OneWrite
  <2> QED
    BY <1>3, <1>4, <2>1, <2>2, <2>3, <2>5 DEF OneWrite
<1>8. ASSUME NEW m \in Chunks, RxAck(m) PROVE OneWrite'
  <2>1. /\ txAck' = txAck /\ apc' # "ackStore" /\ acks' \subseteq acks \cup {Idx(m)}
        /\ txqueue' = {n \in txqueue : Idx(n) # Idx(m)}
    BY <1>8 DEF RxAck
  <2> QED
    BY <1>3, <1>4, <2>1 DEF OneWrite
<1> QED
  BY <1>5, <1>6, <1>7, <1>8

\* The network and the receiving end.
LEMMA OneWriteNetwork ==
  ASSUME StreamAssumption, FileTransfer, ChannelInv, OneWrite,
         Receiver \/ Lose \/ (\E n \in Chunks : Transmit(n) \/ Receive(n)) \/ UNCHANGED vars
  PROVE  OneWrite'
<1>1. /\ InWindow /\ Len(backlog) \in Nat /\ \A n \in Reached : n < written - Len(backlog)
      /\ written \in Nat /\ rxNext \in Nat
  BY OneWriteIs, Typed DEF ChannelInv
<1>2. UNCHANGED txVars
  BY DEF Receiver, Lose, Transmit, Receive, vars
<1>3. ASSUME Receiver \/ Lose \/ (\E n \in Chunks : Transmit(n)) \/ UNCHANGED vars PROVE OneWrite'
  <2>1. UNCHANGED <<rxNext, rxqueue>>
    BY <1>3 DEF Receiver, RxStep, SkipRxGap, Read, StreamAssumption, Lose, Transmit, vars, rxVars
  <2>2. Queued' = Queued
    BY <2>1 DEF Queued
  <2>3. \A n \in data' : n \in data \/ n \in txqueue
    BY <1>3 DEF Receiver, Drain, Lose, Transmit, vars, netVars
  <2> QED
    BY <1>2, <2>1, <2>2, <2>3 DEF OneWrite, txVars
<1>4. ASSUME NEW n \in Chunks, Receive(n) PROVE OneWrite'
  <2>1. n \in data /\ data' \subseteq data
    BY <1>4 DEF Receive, Drain
  <2>2. Reached' \subseteq Reached \cup {n} /\ \E k \in Nat : rxNext' = rxNext + k
    BY <1>1, <1>4, ReceiveIs
  <2>3. \A m \in Reached' : m < written - Len(backlog)
    BY <1>1, <2>1, <2>2 DEF OneWrite
  <2>4. Queued' \subseteq Reached'
    BY DEF Reached
  <2>5. rxNext' <= written - Len(backlog)
    <3>1. PICK k \in Nat : rxNext' = rxNext + k
      BY <2>2
    <3>2. CASE k = 0
      BY <1>1, <3>1, <3>2 DEF OneWrite
    <3>3. CASE k > 0
      <4>1. rxNext' - 1 \in First .. (rxNext' - 1)
        <5>1. First \in Nat /\ First <= rxNext
          BY <1>1, ReceiverAssumption DEF ChannelInv, TypeOK, RxTypeOK, Counts
        <5> QED
          BY <1>1, <3>1, <3>3, <5>1
      <4>2. rxNext' - 1 < written - Len(backlog)
        BY <2>3, <4>1 DEF Reached
      <4> QED
        BY <1>1, <3>1, <4>2
    <3> QED
      BY <3>1, <3>2, <3>3
  <2> QED
    BY <1>2, <2>1, <2>3, <2>4, <2>5 DEF OneWrite, txVars
<1> QED
  BY <1>3, <1>4

\* File transfers stay in the window however much they send ...
THEOREM FilesInWindow ==
  ASSUME StreamAssumption, FileTransfer
  PROVE  Spec => []InWindow
<1>1. Init => ChannelInv /\ OneWrite
  BY ChannelInit, OneWriteInit
<1>2. ChannelInv /\ OneWrite => InWindow
  BY OneWriteIs
<1>3. ChannelInv /\ OneWrite /\ [Next]_vars => ChannelInv' /\ OneWrite'
  <2> SUFFICES ASSUME ChannelInv, OneWrite, [Next]_vars PROVE ChannelInv' /\ OneWrite'
    OBVIOUS
  <2>1. ChannelInv'
    BY <1>2, ChannelStep
  <2>2. OneWrite'
    BY OneWriteWriter, OneWriteRefill, OneWriteAck, OneWriteNetwork DEF Next
  <2> QED
    BY <2>1, <2>2
<1> QED
  BY <1>1, <1>2, <1>3, PTL DEF Spec

\* ... and so the file reaches the printer whole and in order, and no write() returns early, from
\* any First and through any number of turns of the 16-bit counters.
THEOREM FilesAreReliable ==
  ASSUME StreamAssumption, FileTransfer
  PROVE  Spec => ImplementsStream /\ ReturnedReached
BY FilesInWindow, ReliableInWindow, ReturnsInWindow, PTL
=============================================================================
