----------------------------- MODULE QueuesProofs -----------------------------
(***************************************************************************)
(* That the queues of LinearContainers.tla hand out what was put in, in    *)
(* order, or the largest first, for any values, sizes, threads and width   *)
(* of the counters: the arithmetic of rings, for each queue an inductive   *)
(* invariant that says where in its memory each value is, the loops of the *)
(* heap, then the theorems.                                                *)
(***************************************************************************)
EXTENDS LinearContainers, Sequences, WellFoundedInduction, FiniteSetTheorems, TLAPS

-----------------------------------------------------------------------------
(* Remainders: a place in a ring is one. *)

(* What the provers know of division. *)
LEMMA ModFacts ==
  ASSUME NEW a \in Int, NEW m \in Nat \ {0}
  PROVE  a % m \in 0 .. m - 1 /\ a \div m \in Int /\ a = m * (a \div m) + (a % m)
BY Z3

(* The multiples of smaller numbers are at least one multiple apart. *)
LEMMA Below ==
  ASSUME NEW a \in Int, NEW b \in Int, NEW m \in Nat \ {0}, a < b
  PROVE  m * a + m <= m * b
<1>1. m * b = m * a + m * (b - a) /\ m * (b - a) >= m
  OBVIOUS
<1>2. QED
  BY <1>1

(* There is one remainder. *)
LEMMA ModUnique ==
  ASSUME NEW a \in Int, NEW m \in Nat \ {0}, NEW q \in Int, NEW r \in 0 .. m - 1, a = m * q + r
  PROVE  a % m = r
<1> DEFINE d == a \div m
           x == m * d
           y == m * q
           s == a % m
<1>1. d \in Int /\ a = x + s /\ s \in 0 .. m - 1
  BY ModFacts
<1>2. x \in Int /\ y \in Int /\ a = y + r
  BY <1>1
<1>3. d < q => x + m <= y
  BY <1>1, Below
<1>4. q < d => y + m <= x
  BY <1>1, Below
<1>5. d = q => x = y
  OBVIOUS
<1> HIDE DEF d, x, y, s
<1>6. d = q
  BY <1>1, <1>2, <1>3, <1>4
<1>7. s = r
  BY <1>1, <1>2, <1>5, <1>6
<1>8. QED
  BY <1>7 DEF s

(* Numbers a multiple of m apart. *)
Same(a, b, m) == \E k \in Int : a = b + m * k

(* What is a multiple apart has the same remainder. *)
LEMMA SameMod ==
  ASSUME NEW a \in Int, NEW b \in Int, NEW m \in Nat \ {0}, Same(a, b, m)
  PROVE  a % m = b % m
<1>1. PICK k \in Int : a = b + m * k
  BY DEF Same
<1> DEFINE d == b \div m
           s == b % m
<1>2. d \in Int /\ b = m * d + s /\ s \in 0 .. m - 1
  BY ModFacts
<1>3. m * (d + k) = m * d + m * k /\ m * d \in Int /\ m * k \in Int
  BY <1>2
<1>4. a = m * (d + k) + s
  BY <1>1, <1>2, <1>3
<1>5. d + k \in Int
  BY <1>2
<1> HIDE DEF d, s
<1>6. a % m = s
  BY <1>2, <1>4, <1>5, ModUnique
<1>7. QED
  BY <1>6 DEF s

(* And the other way round. *)
LEMMA ModSame ==
  ASSUME NEW a \in Int, NEW b \in Int, NEW m \in Nat \ {0}, a % m = b % m
  PROVE  Same(a, b, m)
<1> DEFINE d == a \div m
           e == b \div m
<1>1. d \in Int /\ e \in Int /\ a = m * d + (a % m) /\ b = m * e + (b % m)
      /\ a % m \in Int /\ b % m \in Int
  BY ModFacts
<1>2. m * (d - e) = m * d - m * e /\ m * d \in Int /\ m * e \in Int /\ d - e \in Int
  BY <1>1
<1> HIDE DEF d, e
<1>3. a = b + m * (d - e)
  BY <1>1, <1>2
<1>4. QED
  BY <1>2, <1>3 DEF Same

(* A number in the range is its own remainder. *)
LEMMA ModSmall ==
  ASSUME NEW m \in Nat \ {0}, NEW a \in 0 .. m - 1
  PROVE  a % m = a
<1>1. a = m * 0 + a
  OBVIOUS
<1>2. QED
  BY <1>1, ModUnique

(* A remainder in a difference. *)
LEMMA ModDifference ==
  ASSUME NEW a \in Int, NEW b \in Int, NEW m \in Nat \ {0}
  PROVE  /\ ((a % m) - b) % m = (a - b) % m
         /\ (a - (b % m)) % m = (a - b) % m
<1>1. ASSUME NEW c \in Int
      PROVE  \E k \in Int : c % m = c + m * k /\ c % m \in Int
  <2> DEFINE d == c \div m
  <2>1. d \in Int /\ c = m * d + (c % m) /\ c % m \in Int
    BY ModFacts
  <2>2. m * (0 - d) = 0 - m * d /\ m * d \in Int /\ 0 - d \in Int
    BY <2>1
  <2> HIDE DEF d
  <2>3. c % m = c + m * (0 - d)
    BY <2>1, <2>2
  <2>4. QED
    BY <2>1, <2>2, <2>3
<1>2. PICK k \in Int : a % m = a + m * k /\ a % m \in Int
  BY <1>1
<1>3. PICK l \in Int : b % m = b + m * l /\ b % m \in Int
  BY <1>1
<1>4. m * k \in Int /\ m * l \in Int /\ m * (0 - l) = 0 - m * l /\ 0 - l \in Int
  OBVIOUS
<1>5. (a % m) - b = (a - b) + m * k
  BY <1>2, <1>4
<1>6. a - (b % m) = (a - b) + m * (0 - l)
  BY <1>3, <1>4
<1>7. Same((a % m) - b, a - b, m) /\ Same(a - (b % m), a - b, m)
  BY <1>4, <1>5, <1>6 DEF Same
<1>8. QED
  BY <1>2, <1>3, <1>7, SameMod

(* A remainder of a remainder. *)
LEMMA ModMod ==
  ASSUME NEW a \in Int, NEW m \in Nat \ {0}, NEW n \in Nat \ {0},
         NEW e \in Nat \ {0}, n = m * e
  PROVE  (a % n) % m = a % m
<1> DEFINE d == a \div n
<1>2. d \in Int /\ a = n * d + (a % n) /\ a % n \in Int
  <2>1. a % n \in 0 .. n - 1 /\ a \div n \in Int /\ a = n * (a \div n) + (a % n)
    BY ModFacts, Zenon
  <2>2. QED
    BY <2>1
<1> HIDE DEF d
<1>3. n * d = m * (e * d) /\ e * d \in Int
  BY <1>2
<1>4. Same(a, a % n, m)
  <2>1. n * d \in Int
    BY <1>2
  <2>2. a = (a % n) + m * (e * d)
    BY <1>2, <1>3, <2>1
  <2>3. QED
    BY <1>3, <2>2 DEF Same
<1>5. a % m = (a % n) % m
  BY <1>2, <1>4, SameMod
<1>6. QED
  BY <1>5

-----------------------------------------------------------------------------
(* The spin-lock queue: its capacity is a power of two and divides what its *)
(* counters count to.                                                       *)

(* A set of numbers that is not empty has a least one. *)
LEMMA LeastNatural ==
  ASSUME NEW S \in SUBSET Nat, S # {}
  PROVE  \E m \in S : \A k \in S : m <= k
<1>1. PICK m \in S : \A k \in S : ~(<<k, m>> \in OpToRel(<, Nat))
  BY NatLessThanWellFounded, WFMin
<1>2. \A k \in S : ~(k < m)
  BY <1>1 DEF OpToRel
<1>3. QED
  BY <1>2

TwoTo == SharedRing!TwoTo

(* The assumption on the spin-lock queue, where TwoTo is used. *)
LEMMA WidthType == Width \in Nat \ {0} /\ Asked \in Nat \ {0} /\ 2 * Asked <= TwoTo[Width]
BY QueuesAssumption DEF TwoTo

(* TwoTo is what its recursion says. *)
LEMMA TwoToExists == TwoTo = [i \in 0 .. Width |-> IF i = 0 THEN 1 ELSE 2 * TwoTo[i - 1]]
<1> DEFINE G(f, m) == f = [i \in 0 .. m |-> IF i = 0 THEN 1 ELSE 2 * f[i - 1]]
           Bad == {m \in Nat : ~\E f : G(f, m)}
<1>1. Bad = {}
  <2> SUFFICES ASSUME Bad # {} PROVE FALSE
    OBVIOUS
  <2>1. \E m \in Bad : \A k \in Bad : m <= k
    <3>1. Bad \in SUBSET Nat
      OBVIOUS
    <3> HIDE DEF Bad
    <3>2. QED
      BY <3>1, LeastNatural
  <2>2. PICK m \in Bad : \A k \in Bad : m <= k
    BY <2>1
  <2>3. m # 0
    <3>1. G([i \in 0 .. 0 |-> 1], 0)
      OBVIOUS
    <3>2. QED
      BY <2>2, <3>1
  <2>4. PICK f : G(f, m - 1)
    BY <2>2, <2>3
  <2> DEFINE g == [i \in 0 .. m |-> IF i = m THEN 2 * f[m - 1] ELSE f[i]]
  <2>5. G(g, m)
    <3>1. m \in Nat \ {0}
      BY <2>2, <2>3
    <3>2. ASSUME NEW i \in 0 .. m
          PROVE  g[i] = IF i = 0 THEN 1 ELSE 2 * g[i - 1]
      <4>1. CASE i = m
        BY <3>1, <4>1
      <4>2. CASE i # m
        BY <2>4, <3>1, <4>2
      <4>3. QED
        BY <4>1, <4>2
    <3>3. QED
      BY <3>2
  <2>6. QED
    BY <2>2, <2>5
<1>2. \E f : G(f, Width)
  BY <1>1, WidthType
<1>3. TwoTo = CHOOSE f : G(f, Width)
  BY DEF TwoTo, SharedRing!TwoTo
<1>4. QED
  BY <1>2, <1>3

(* 2^(i + 1) is twice 2^i. *)
LEMMA Doubling ==
  /\ TwoTo[0] = 1
  /\ \A i \in 0 .. Width - 1 : TwoTo[i + 1] = 2 * TwoTo[i]
<1> DEFINE G(f) == f = [i \in 0 .. Width |-> IF i = 0 THEN 1 ELSE 2 * f[i - 1]]
<1>1. ASSUME NEW f, G(f)
      PROVE  f[0] = 1 /\ \A i \in 0 .. Width - 1 : f[i + 1] = 2 * f[i]
  BY <1>1, WidthType
<1>2. QED
  BY <1>1, TwoToExists

(* A smaller power of two divides a larger one. *)
LEMMA Divides ==
  ASSUME NEW i \in 0 .. Width, TwoTo[i] \in Nat \ {0}
  PROVE  \A j \in i .. Width : \E e \in Nat \ {0} : TwoTo[j] = TwoTo[i] * e
<1> DEFINE Bad == {j \in i .. Width : ~\E e \in Nat \ {0} : TwoTo[j] = TwoTo[i] * e}
<1> SUFFICES ASSUME Bad # {} PROVE FALSE
  OBVIOUS
<1>1. Bad \in SUBSET Nat
  OBVIOUS
<1>2. \E j \in Bad : \A k \in Bad : j <= k
  <2> HIDE DEF Bad
  <2>1. QED
    BY <1>1, LeastNatural
<1>3. PICK j \in Bad : \A k \in Bad : j <= k
  BY <1>2
<1>4. j # i
  <2>1. TwoTo[i] = TwoTo[i] * 1
    OBVIOUS
  <2>2. QED
    BY <1>3, <2>1
<1>5. j - 1 \in i .. Width /\ j - 1 \in 0 .. Width - 1 /\ j \in Nat
  BY <1>3, <1>4, WidthType
<1>6. PICK e \in Nat \ {0} : TwoTo[j - 1] = TwoTo[i] * e
  BY <1>3, <1>5
<1>7. TwoTo[j] = 2 * TwoTo[j - 1]
  <2>1. (j - 1) + 1 = j
    BY <1>5
  <2>2. QED
    BY <1>5, <2>1, Doubling
<1>8. TwoTo[j] = TwoTo[i] * (2 * e)
  BY <1>6, <1>7
<1>9. QED
  BY <1>3, <1>8

(* No power of two is 0. *)
LEMMA PowersArePositive == \A i \in 0 .. Width : TwoTo[i] \in Nat \ {0}
<1>1. \A i \in 0 .. Width : \E e \in Nat \ {0} : TwoTo[i] = TwoTo[0] * e
  BY WidthType, Doubling, Divides
<1>2. QED
  BY <1>1, Doubling

C == SharedRing!capacity
M == SharedRing!Modulus

(* The rounded capacity is what was asked for or more, below what the       *)
(* counters count to, and divides it.                                       *)
LEMMA CapacityDivides ==
  /\ C \in Nat \ {0} /\ M \in Nat \ {0} /\ Asked <= C /\ C < M
  /\ \E e \in Nat \ {0} : M = C * e
<1> DEFINE Large == {p \in SharedRing!PowersOfTwo : p >= Asked}
           top == TwoTo[Width - 1]
<1>1. M = TwoTo[Width] /\ SharedRing!PowersOfTwo = {TwoTo[i] : i \in 0 .. Width}
  BY DEF M, SharedRing!Modulus, SharedRing!PowersOfTwo, TwoTo
<1>2. M = 2 * top /\ top \in Nat \ {0} /\ top \in SharedRing!PowersOfTwo
  <2>1. Width - 1 \in 0 .. Width - 1 /\ Width - 1 \in 0 .. Width /\ (Width - 1) + 1 = Width
    BY WidthType
  <2>2. QED
    BY <1>1, <2>1, Doubling, PowersArePositive
<1>3. top \in Large
  BY <1>1, <1>2, WidthType
<1>4. SharedRing!PowersOfTwo \subseteq Nat \ {0}
  BY <1>1, PowersArePositive
<1>5. \E p \in Large : \A q \in Large : p <= q
  <2>1. Large \in SUBSET Nat /\ Large # {}
    BY <1>3, <1>4
  <2> HIDE DEF Large
  <2>2. QED
    BY <2>1, LeastNatural
<1>6. C = CHOOSE p \in SharedRing!PowersOfTwo :
            p >= Asked /\ \A q \in SharedRing!PowersOfTwo : q >= Asked => p <= q
  BY DEF C, SharedRing!capacity, SharedRing!RoundUp
<1>7. C \in Large /\ \A q \in Large : C <= q
  BY <1>5, <1>6
<1>8. PICK i \in 0 .. Width : C = TwoTo[i]
  BY <1>1, <1>7
<1>9. \E e \in Nat \ {0} : M = C * e
  <2>1. TwoTo[i] \in Nat \ {0} /\ Width \in i .. Width
    BY <1>8, PowersArePositive, WidthType
  <2>2. \E e \in Nat \ {0} : TwoTo[Width] = TwoTo[i] * e
    BY <1>8, <2>1, Divides
  <2>3. QED
    BY <1>1, <1>8, <2>2
<1>10. C <= top
  BY <1>3, <1>7
<1>11. C \in Nat \ {0} /\ Asked <= C
  BY <1>4, <1>7
<1>12. QED
  BY <1>2, <1>9, <1>10, <1>11

Counter == 0 .. M - 1
Places == 0 .. C - 1
Cells == Values \cup {Raw}

(* How far a place is behind the head. *)
Behind(i, head) == (i - head) % C

(* A ring of slots holds q. *)
Stores(slot, head, tail, q) ==
  /\ (tail - head) % M = Len(q) /\ Len(q) <= C
  /\ \A i \in Places : slot[i] = IF Behind(i, head) < Len(q) THEN q[Behind(i, head) + 1] ELSE Raw

(* A counter stands for a place. *)
LEMMA IndexIsAPlace ==
  ASSUME NEW k \in Int
  PROVE  k % C \in Places /\ k % M \in Counter
BY CapacityDivides, ModFacts DEF Places, Counter

(* The place a counter stands for is as far behind the head as the counter. *)
LEMMA BehindOf ==
  ASSUME NEW head \in Int, NEW k \in Int, NEW n \in Places, (k - head) % M = n
  PROVE  Behind(k % C, head) = n /\ \A i \in Places : Behind(i, head) = n => i = k % C
<1>1. PICK e \in Nat \ {0} : M = C * e
  BY CapacityDivides
<1>2. k - head \in Int /\ C \in Nat \ {0} /\ M \in Nat \ {0}
  BY CapacityDivides
<1>3. ((k - head) % M) % C = (k - head) % C
  BY <1>1, <1>2, ModMod
<1>4. n % C = n
  BY <1>2, ModSmall DEF Places
<1>5. (k - head) % C = n
  BY <1>3, <1>4
<1>6. Behind(k % C, head) = n
  BY <1>2, <1>5, ModDifference DEF Behind
<1>7. ASSUME NEW i \in Places, Behind(i, head) = n PROVE i = k % C
  <2>1. i \in Int /\ i - head \in Int
    BY <1>2 DEF Places
  <2>2. Same(i - head, k - head, C)
    BY <1>2, <1>5, <1>7, <2>1, ModSame DEF Behind
  <2>3. PICK z \in Int : i - head = (k - head) + C * z
    BY <2>2 DEF Same
  <2>4. C * z \in Int
    BY <1>2
  <2>5. i = k + C * z
    BY <2>1, <2>3, <2>4
  <2>6. i % C = k % C
    BY <1>2, <2>1, <2>5, SameMod DEF Same
  <2>7. QED
    BY <1>2, <2>6, ModSmall DEF Places
<1>8. QED
  BY <1>6, <1>7

(* No place is a whole ring behind. *)
LEMMA BehindIsAPlace ==
  ASSUME NEW i \in Int, NEW head \in Int
  PROVE  Behind(i, head) \in Places
<1>1. i - head \in Int
  OBVIOUS
<1>2. QED
  BY <1>1, IndexIsAPlace DEF Behind

(* One further, unless it goes round. *)
LEMMA NextMod ==
  ASSUME NEW m \in Nat \ {0}, NEW a \in Int
  PROVE  (a - 1) % m = IF a % m = 0 THEN m - 1 ELSE (a % m) - 1
<1>1. PICK d \in Int, r \in 0 .. m - 1 : a = m * d + r /\ a % m = r
  BY ModFacts
<1>2. m * (d - 1) = m * d - m /\ d - 1 \in Int /\ m * d \in Int /\ a - 1 \in Int
  OBVIOUS
<1>3. CASE r = 0
  <2>1. a - 1 = m * (d - 1) + (m - 1) /\ m - 1 \in 0 .. m - 1
    BY <1>1, <1>2, <1>3
  <2>2. (a - 1) % m = m - 1
    BY <1>2, <2>1, ModUnique
  <2>3. QED
    BY <1>1, <1>3, <2>2
<1>4. CASE r # 0
  <2>1. a - 1 = m * d + (r - 1) /\ r - 1 \in 0 .. m - 1
    BY <1>1, <1>2, <1>4
  <2>2. (a - 1) % m = r - 1
    BY <1>2, <2>1, ModUnique
  <2>3. QED
    BY <1>1, <1>4, <2>2
<1>5. QED
  BY <1>3, <1>4

(* When the head moves, every other place is one nearer. *)
LEMMA BehindNext ==
  ASSUME NEW i \in Places, NEW head \in Counter
  PROVE  Behind(i, (head + 1) % M) = IF Behind(i, head) = 0 THEN C - 1 ELSE Behind(i, head) - 1
<1>1. PICK e \in Nat \ {0} : M = C * e
  BY CapacityDivides
<1>2. C \in Nat \ {0} /\ M \in Nat \ {0} /\ i \in Int /\ head \in Int /\ head + 1 \in Int
  BY CapacityDivides DEF Places, Counter
<1>7. (head + 1) % M \in Int /\ (head + 1) % C \in Int
  BY <1>2, ModFacts
<1>3. ((head + 1) % M) % C = (head + 1) % C
  BY <1>1, <1>2, ModMod
<1>4. (i - ((head + 1) % M)) % C = (i - (head + 1)) % C
  <2>1. (i - (((head + 1) % M) % C)) % C = (i - ((head + 1) % M)) % C
    BY <1>2, <1>7, ModDifference
  <2>2. (i - ((head + 1) % C)) % C = (i - (head + 1)) % C
    BY <1>2, ModDifference
  <2>3. QED
    BY <1>3, <2>1, <2>2
<1>5. i - (head + 1) = (i - head) - 1 /\ i - head \in Int
  BY <1>2
<1>6. QED
  BY <1>2, <1>4, <1>5, NextMod DEF Behind

(* push() finds a slot without an object, and stores one more. *)
LEMMA PutStores ==
  ASSUME NEW slot \in [Places -> Cells], NEW head \in Counter, NEW tail \in Counter,
         NEW q \in Seq(Values), NEW v \in Values, Stores(slot, head, tail, q), Len(q) # C
  PROVE  /\ tail % C \in Places /\ slot[tail % C] = Raw
         /\ Stores([slot EXCEPT ![tail % C] = v], head, (tail + 1) % M, Append(q, v))
<1> DEFINE n == Len(q)
           s == tail % C
           w == [slot EXCEPT ![s] = v]
<1>1. /\ C \in Nat \ {0} /\ M \in Nat \ {0} /\ C < M
      /\ head \in Int /\ tail \in Int /\ n \in Places /\ s \in Places /\ (tail - head) % M = n
  <2>1. n \in Nat /\ n <= C /\ C \in Nat \ {0} /\ M \in Nat \ {0} /\ C < M /\ (tail - head) % M = n
    BY CapacityDivides DEF Stores
  <2>2. head \in Int /\ tail \in Int
    BY <2>1 DEF Counter
  <2>3. s \in Places
    BY <2>2, IndexIsAPlace
  <2>4. n \in Places
    BY <2>1 DEF Places
  <2>5. QED
    BY <2>1, <2>2, <2>3, <2>4
<1>2. Behind(s, head) = n /\ \A i \in Places : Behind(i, head) = n => i = s
  BY <1>1, BehindOf
<1>3. slot[s] = Raw
  BY <1>1, <1>2 DEF Stores, Places
<1>4. (((tail + 1) % M) - head) % M = n + 1
  <2>0. tail + 1 \in Int
    BY <1>1
  <2>1. (((tail + 1) % M) - head) % M = ((tail + 1) - head) % M
    BY <1>1, <2>0, ModDifference
  <2>2. ((tail - head) + 1) - 1 = tail - head /\ (tail - head) + 1 = (tail + 1) - head /\ (tail + 1) - head \in Int
    BY <1>1
  <2>3. n = IF ((tail + 1) - head) % M = 0 THEN M - 1 ELSE (((tail + 1) - head) % M) - 1
    BY <1>1, <2>2, NextMod
  <2>4. ((tail + 1) - head) % M \in Int
    BY <1>1, <2>2, ModFacts
  <2>5. n < M - 1
    BY <1>1 DEF Places
  <2>6. QED
    BY <1>1, <2>1, <2>3, <2>4, <2>5 DEF Places
<1>5. Append(q, v) \in Seq(Values) /\ Len(Append(q, v)) = n + 1
  OBVIOUS
<1>6. ASSUME NEW i \in Places
      PROVE  w[i] = IF Behind(i, head) < n + 1 THEN Append(q, v)[Behind(i, head) + 1] ELSE Raw
  <2>0. i \in Int
    BY <1>1 DEF Places
  <2>1. Behind(i, head) \in Places
    BY <1>1, <2>0, BehindIsAPlace
  <2>2. CASE i = s
    BY <1>1, <1>2, <2>2 DEF Places
  <2>3. CASE i # s
    <3>1. Behind(i, head) # n
      BY <1>2, <2>3
    <3>2. w[i] = slot[i]
      BY <2>3
    <3>3. slot[i] = IF Behind(i, head) < n THEN q[Behind(i, head) + 1] ELSE Raw
      BY DEF Stores
    <3>4. Behind(i, head) < n => Append(q, v)[Behind(i, head) + 1] = q[Behind(i, head) + 1]
      BY <2>1 DEF Places
    <3>5. QED
      BY <1>1, <2>1, <3>1, <3>2, <3>3, <3>4 DEF Places
  <2>4. QED
    BY <2>2, <2>3
<1>7. n + 1 <= C
  BY <1>1 DEF Places
<1>8. Stores(w, head, (tail + 1) % M, Append(q, v))
  BY <1>4, <1>5, <1>6, <1>7 DEF Stores
<1>9. QED
  BY <1>1, <1>3, <1>8

(* pop() finds the oldest in the slot it frees, and one less is stored. *)
LEMMA TakeStores ==
  ASSUME NEW slot \in [Places -> Cells], NEW head \in Counter, NEW tail \in Counter,
         NEW q \in Seq(Values), Stores(slot, head, tail, q), head # tail
  PROVE  /\ head % C \in Places /\ q # <<>> /\ slot[head % C] = Head(q)
         /\ Stores([slot EXCEPT ![head % C] = Raw], (head + 1) % M, tail, Tail(q))
<1> DEFINE n == Len(q)
           s == head % C
           w == [slot EXCEPT ![s] = Raw]
           r == Tail(q)
<1>1. /\ C \in Nat \ {0} /\ M \in Nat \ {0} /\ C < M
      /\ head \in Int /\ tail \in Int /\ n \in Nat /\ n <= C /\ s \in Places
      /\ (tail - head) % M = n
  BY CapacityDivides, IndexIsAPlace DEF Counter, Stores, Places
<1>2. n # 0
  <2> SUFFICES ASSUME n = 0 PROVE FALSE
    OBVIOUS
  <2>1. tail - head \in Int /\ 0 % M = 0
    BY <1>1, ModSmall
  <2>2. Same(tail - head, 0, M)
    BY <1>1, <2>1, ModSame
  <2>3. PICK z \in Int : tail - head = 0 + M * z
    BY <2>2 DEF Same
  <2>4. z # 0
    BY <1>1, <2>3
  <2>5. M * 0 = 0 /\ M * z \in Int
    BY <1>1
  <2>6. z < 0 => M * z + M <= M * 0
    BY <1>1, Below
  <2>7. 0 < z => M * 0 + M <= M * z
    BY <1>1, Below
  <2>8. QED
    BY <1>1, <2>3, <2>4, <2>5, <2>6, <2>7 DEF Counter
<1>3. q # <<>> /\ Head(q) = q[1] /\ r \in Seq(Values) /\ Len(r) = n - 1
      /\ \A k \in 1 .. n - 1 : r[k] = q[k + 1]
  BY <1>2
<1>4. Behind(s, head) = 0 /\ \A i \in Places : Behind(i, head) = 0 => i = s
  <2>1. (head - head) % M = 0 /\ 0 \in Places
    BY <1>1, ModSmall DEF Places
  <2>2. QED
    BY <1>1, <2>1, BehindOf
<1>5. slot[s] = Head(q)
  <2>1. slot[s] = IF Behind(s, head) < n THEN q[Behind(s, head) + 1] ELSE Raw
    BY <1>1 DEF Stores
  <2> HIDE DEF n, s
  <2>2. QED
    BY <1>1, <1>2, <1>3, <1>4, <2>1
<1>6. (tail - ((head + 1) % M)) % M = n - 1
  <2>0. head + 1 \in Int
    BY <1>1
  <2>1. (tail - ((head + 1) % M)) % M = (tail - (head + 1)) % M
    BY <1>1, <2>0, ModDifference
  <2>2. tail - (head + 1) = (tail - head) - 1 /\ tail - head \in Int
    BY <1>1
  <2>3. QED
    BY <1>1, <1>2, <2>1, <2>2, NextMod
<1>7. ASSUME NEW i \in Places
      PROVE  LET b == Behind(i, (head + 1) % M)
             IN  w[i] = IF b < n - 1 THEN r[b + 1] ELSE Raw
  <2> DEFINE b == Behind(i, (head + 1) % M)
             d == Behind(i, head)
  <2>0. i \in Int
    BY <1>1 DEF Places
  <2>1. d \in Places /\ b = IF d = 0 THEN C - 1 ELSE d - 1
    BY <1>1, <2>0, BehindIsAPlace, BehindNext
  <2>2. CASE i = s
    BY <1>1, <1>4, <2>1, <2>2
  <2>3. CASE i # s
    <3>1. d # 0
      BY <1>4, <2>3
    <3>2. w[i] = slot[i]
      BY <2>3
    <3>3. slot[i] = IF d < n THEN q[d + 1] ELSE Raw
      BY DEF Stores
    <3> HIDE DEF b, d
    <3>4. d < n => r[b + 1] = q[d + 1]
      <4>1. b + 1 = d /\ d \in Nat
        BY <1>1, <2>1, <3>1 DEF Places
      <4>2. d < n => d \in 1 .. n - 1
        BY <1>1, <3>1, <4>1
      <4> HIDE DEF n, r
      <4>3. QED
        BY <1>3, <4>1, <4>2
    <3>5. QED
      BY <1>1, <2>1, <3>1, <3>2, <3>3, <3>4 DEF Places, b
  <2>4. QED
    BY <2>2, <2>3
<1>8. Stores(w, (head + 1) % M, tail, r)
  <2> HIDE DEF n, w, r
  <2>1. Len(r) <= C
    BY <1>1, <1>3
  <2>2. QED
    BY <1>3, <1>6, <1>7, <2>1 DEF Stores, n
<1>9. QED
  BY <1>1, <1>3, <1>5, <1>8

-----------------------------------------------------------------------------
(* The spin-lock queue's inductive invariant. *)

Within == {"push locked", "pop locked", "size locked", "construct", "done", "copy", "destroy", "popped", "refused"}

(* What the queue and its callers' locals hold. *)
SharedType ==
  /\ rep \in [lock : BOOLEAN, head : Counter, tail : Counter, slot : [Places -> Cells],
              pc : [Threads -> {"out", "push", "pop", "size"} \cup Within],
              node : [Threads -> Places], val : [Threads -> Cells]]
  /\ items \in Seq(Values) /\ Len(items) <= C

(* Who is past the test of the flag has the lock, alone. *)
SharedMutex ==
  \A t \in Threads : rep.pc[t] \in Within =>
    rep.lock /\ \A u \in Threads : rep.pc[u] \in Within => u = t

(* A push() has a value of the caller's. *)
SharedValues == \A t \in Threads : rep.pc[t] \in {"push", "push locked", "construct"} => rep.val[t] \in Values

(* The ring holds the queue. *)
StoresItems == Stores(rep.slot, rep.head, rep.tail, items)

(* What is in the ring while t has the lock: push() counts its value before *)
(* it is there, pop() discounts one that is still there.                    *)
SharedContents(t) ==
  /\ rep.pc[t] \in {"push locked", "pop locked", "size locked", "done", "refused"} => StoresItems
  /\ rep.pc[t] = "construct" =>
       /\ rep.slot[rep.node[t]] = Raw
       /\ Stores([rep.slot EXCEPT ![rep.node[t]] = rep.val[t]], rep.head, rep.tail, items)
  /\ rep.pc[t] \in {"copy", "destroy"} =>
       /\ items # <<>> /\ rep.slot[rep.node[t]] = Head(items)
       /\ Stores([rep.slot EXCEPT ![rep.node[t]] = Raw], rep.head, rep.tail, Tail(items))
  /\ rep.pc[t] = "popped" => items # <<>> /\ Stores(rep.slot, rep.head, rep.tail, Tail(items))
  /\ rep.pc[t] \in {"destroy", "popped"} => rep.val[t] = Head(items)

(* The inductive invariant: with the lock free the ring holds the queue,   *)
(* and otherwise what the one who has it left there.                        *)
SharedInv ==
  /\ SharedType /\ SharedMutex /\ SharedValues
  /\ ~rep.lock => StoresItems
  /\ \A t \in Threads : SharedContents(t)

(* The conjuncts of the type invariant. *)
LEMMA SharedFields ==
  ASSUME SharedType
  PROVE  /\ rep.lock \in BOOLEAN /\ rep.head \in Counter /\ rep.tail \in Counter
         /\ rep.slot \in [Places -> Cells]
         /\ rep.pc \in [Threads -> {"out", "push", "pop", "size"} \cup Within]
         /\ rep.node \in [Threads -> Places] /\ rep.val \in [Threads -> Cells]
         /\ items \in Seq(Values) /\ Len(items) <= C
BY DEF SharedType

(* The model's names for the numbers above. *)
LEMMA SharedNames ==
  /\ SharedRing!Slot = Places
  /\ SharedRing!Count = (rep.tail - rep.head) % M
  /\ \A k : SharedRing!Index(k) = k % C
BY DEF SharedRing!Slot, SharedRing!Count, SharedRing!Index, Places, C, M

(* The invariant holds at first, and each operation keeps it. *)
LEMMA SharedStart == SharedRing!Init => SharedInv
<1> SUFFICES ASSUME SharedRing!Init PROVE SharedInv
  OBVIOUS
<1>1. rep = [lock |-> FALSE, head |-> 0, tail |-> 0, slot |-> [i \in Places |-> Raw],
             pc |-> [t \in Threads |-> "out"], node |-> [t \in Threads |-> 0],
             val |-> [t \in Threads |-> Raw]] /\ items = <<>>
  BY SharedNames DEF SharedRing!Init
<1>2. C \in Nat \ {0} /\ M \in Nat \ {0} /\ 0 \in Counter /\ 0 \in Places /\ (0 - 0) % M = 0
  BY CapacityDivides, ModSmall DEF Counter, Places
<1>3. SharedType
  BY <1>1, <1>2 DEF SharedType, Cells
<1>4. StoresItems
  <2>1. ASSUME NEW i \in Places PROVE Behind(i, 0) \in Places
    <3>1. i \in Int /\ 0 \in Int
      BY <1>2 DEF Places
    <3>2. QED
      BY <3>1, BehindIsAPlace
  <2>2. QED
    BY <1>1, <1>2, <2>1 DEF StoresItems, Stores, Places
<1>5. QED
  BY <1>1, <1>3, <1>4 DEF SharedInv, SharedMutex, SharedValues, SharedContents, Within

(* The thread that has the lock moves: the others are not past the flag. *)
LEMMA HolderMoves ==
  ASSUME SharedInv, NEW t \in Threads, rep.pc[t] \in Within, SharedType',
         \A u \in Threads : u # t => rep.pc'[u] = rep.pc[u] /\ rep.val'[u] = rep.val[u],
         rep.pc'[t] \in Within => rep.lock' = rep.lock,
         rep.pc'[t] \in {"push", "push locked", "construct"} => rep.val'[t] \in Values,
         SharedContents(t)', ~rep.lock' => StoresItems'
  PROVE  SharedInv'
<1>1. \A u \in Threads : u # t => rep.pc[u] \notin Within
  BY DEF SharedInv, SharedMutex
<1>2. \A u \in Threads : u # t => rep.pc'[u] \notin Within
  BY <1>1
<1>3. rep.lock
  BY DEF SharedInv, SharedMutex
<1>4. SharedMutex'
  BY <1>2, <1>3 DEF SharedMutex
<1>5. SharedValues'
  BY DEF SharedInv, SharedValues
<1>6. \A u \in Threads : SharedContents(u)'
  BY <1>2 DEF SharedContents, Within
<1>7. QED
  BY <1>4, <1>5, <1>6 DEF SharedInv

LEMMA CallShared ==
  ASSUME SharedInv, NEW t \in Threads, SharedRing!Call(t)
  PROVE  SharedInv'
<1>1. PICK o \in {"push", "pop", "size"} :
        /\ \/ \E v \in Values : o = "push" /\ rep' = [rep EXCEPT !.pc[t] = o, !.val[t] = v]
           \/ rep' = [rep EXCEPT !.pc[t] = o] /\ o # "push"
        /\ rep.pc[t] = "out" /\ items' = items
  BY DEF SharedRing!Call
<1>2. SharedType
  BY DEF SharedInv
<1>3. /\ rep'.lock = rep.lock /\ rep'.head = rep.head /\ rep'.tail = rep.tail
      /\ rep'.slot = rep.slot /\ rep'.node = rep.node
      /\ rep'.pc = [rep.pc EXCEPT ![t] = o]
      /\ \A u \in Threads : u # t => rep'.val[u] = rep.val[u]
      /\ o = "push" => rep'.val[t] \in Values
      /\ SharedType'
  <2>1. CASE rep' = [rep EXCEPT !.pc[t] = o] /\ o # "push"
    BY <1>1, <1>2, <2>1 DEF SharedType
  <2>2. ASSUME NEW v \in Values, o = "push", rep' = [rep EXCEPT !.pc[t] = o, !.val[t] = v]
        PROVE  /\ rep'.lock = rep.lock /\ rep'.head = rep.head /\ rep'.tail = rep.tail
               /\ rep'.slot = rep.slot /\ rep'.node = rep.node
               /\ rep'.pc = [rep.pc EXCEPT ![t] = o]
               /\ \A u \in Threads : u # t => rep'.val[u] = rep.val[u]
               /\ rep'.val[t] \in Values
               /\ SharedType'
    BY <1>1, <1>2, <2>2 DEF SharedType, Cells
  <2>3. QED
    BY <1>1, <2>1, <2>2
<1>4. rep'.pc[t] = o /\ \A u \in Threads : u # t => rep'.pc[u] = rep.pc[u]
  BY <1>2, <1>3, SharedFields
<1>5. o \notin Within /\ o \notin {"construct", "push locked"}
  BY DEF Within
<1>6. SharedMutex'
  BY <1>3, <1>4, <1>5 DEF SharedInv, SharedMutex
<1>7. SharedValues'
  BY <1>3, <1>4, <1>5 DEF SharedInv, SharedValues
<1>8. StoresItems' = StoresItems
  BY <1>1, <1>3 DEF StoresItems
<1>9. ASSUME NEW u \in Threads PROVE SharedContents(u)'
  <2>1. CASE u = t
    BY <1>4, <1>5, <2>1 DEF SharedContents, Within
  <2>2. CASE u # t
    BY <1>1, <1>3, <1>4, <1>8, <2>2 DEF SharedInv, SharedContents
  <2>3. QED
    BY <2>1, <2>2
<1>10. QED
  BY <1>3, <1>6, <1>7, <1>8, <1>9 DEF SharedInv

LEMMA AcquireShared ==
  ASSUME SharedInv, NEW t \in Threads, NEW o \in {"push", "pop", "size"}, SharedRing!Acquire(t, o)
  PROVE  SharedInv'
<1>1. SharedType
  BY DEF SharedInv
<1>2. PICK l \in {"push locked", "pop locked", "size locked"} :
        /\ rep' = [rep EXCEPT !.lock = TRUE, !.pc[t] = l] /\ items' = items
        /\ rep.pc[t] = o /\ ~rep.lock /\ (l = "push locked" => o = "push")
  BY DEF SharedRing!Acquire, SharedRing!Inside
<1>3. /\ rep'.lock = TRUE /\ rep'.head = rep.head /\ rep'.tail = rep.tail
      /\ rep'.slot = rep.slot /\ rep'.node = rep.node /\ rep'.val = rep.val
      /\ rep'.pc = [rep.pc EXCEPT ![t] = l] /\ SharedType'
  <2>1. rep' = [lock |-> TRUE, head |-> rep.head, tail |-> rep.tail, slot |-> rep.slot,
                pc |-> [rep.pc EXCEPT ![t] = l], node |-> rep.node, val |-> rep.val]
    BY <1>1, <1>2 DEF SharedType
  <2>2. [rep.pc EXCEPT ![t] = l] \in [Threads -> {"out", "push", "pop", "size"} \cup Within]
    <3>1. l \in {"out", "push", "pop", "size"} \cup Within
      BY DEF Within
    <3>2. QED
      BY <1>1, <3>1, SharedFields
  <2>3. SharedType'
    BY <1>1, <1>2, <2>1, <2>2, SharedFields DEF SharedType
  <2>4. QED
    BY <2>1, <2>3
<1>4. rep'.pc[t] = l /\ \A u \in Threads : u # t => rep'.pc[u] = rep.pc[u]
  BY <1>1, <1>3, SharedFields
<1>5. \A u \in Threads : rep.pc[u] \notin Within
  BY <1>2 DEF SharedInv, SharedMutex
<1>6. SharedMutex'
  <2>1. ASSUME NEW u \in Threads, rep'.pc[u] \in Within PROVE u = t
    BY <1>4, <1>5, <2>1
  <2>2. QED
    BY <1>3, <2>1 DEF SharedMutex
<1>7. SharedValues'
  BY <1>2, <1>3, <1>4 DEF SharedInv, SharedValues
<1>8. StoresItems'
  BY <1>2, <1>3 DEF SharedInv, StoresItems
<1>9. \A u \in Threads : SharedContents(u)'
  BY <1>4, <1>5, <1>8 DEF SharedContents, Within
<1>10. QED
  BY <1>3, <1>6, <1>7, <1>8, <1>9 DEF SharedInv

LEMMA RefuseShared ==
  ASSUME SharedInv, NEW t \in Threads, SharedRing!Refuse(t)
  PROVE  SharedInv'
<1>1. SharedType
  BY DEF SharedInv
<1>2. /\ rep' = [rep EXCEPT !.pc[t] = "refused"] /\ items' = items
      /\ rep.pc[t] \in {"push locked", "pop locked"}
  BY DEF SharedRing!Refuse
<1>3. /\ rep'.lock = rep.lock /\ rep'.head = rep.head /\ rep'.tail = rep.tail
      /\ rep'.slot = rep.slot /\ rep'.node = rep.node /\ rep'.val = rep.val
      /\ rep'.pc = [rep.pc EXCEPT ![t] = "refused"] /\ SharedType'
  BY <1>1, <1>2 DEF SharedType, Within
<1>4. rep'.pc[t] = "refused" /\ \A u \in Threads : u # t => rep'.pc[u] = rep.pc[u]
  BY <1>1, <1>3, SharedFields
<1>5. StoresItems'
  BY <1>2, <1>3 DEF SharedInv, SharedContents, StoresItems
<1>6. SharedContents(t)'
  BY <1>4, <1>5 DEF SharedContents
<1>7. QED
  BY <1>2, <1>3, <1>4, <1>5, <1>6, HolderMoves DEF Within

LEMMA ReserveShared ==
  ASSUME SharedInv, NEW t \in Threads, SharedRing!Reserve(t)
  PROVE  SharedInv'
<1> DEFINE s == rep.tail % C
           v == rep.val[t]
<1>1. SharedType
  BY DEF SharedInv
<1>2. /\ rep.pc[t] = "push locked" /\ StoresItems /\ v \in Values /\ Len(items) # C
      /\ rep' = [rep EXCEPT !.pc[t] = "construct", !.node[t] = s, !.tail = (@ + 1) % M]
      /\ items' = Append(items, v)
  BY SharedNames DEF SharedRing!Reserve, SharedInv, SharedContents, SharedValues, StoresItems, Stores, C, M
<1>3. /\ s \in Places /\ rep.slot[s] = Raw
      /\ Stores([rep.slot EXCEPT ![s] = v], rep.head, (rep.tail + 1) % M, Append(items, v))
  BY <1>1, <1>2, SharedFields, PutStores DEF StoresItems
<1>4. (rep.tail + 1) % M \in Counter
  <2>1. rep.tail + 1 \in Int
    BY <1>1, SharedFields, CapacityDivides DEF Counter
  <2>2. QED
    BY <2>1, IndexIsAPlace
<1>5. /\ rep'.lock = rep.lock /\ rep'.head = rep.head /\ rep'.tail = (rep.tail + 1) % M
      /\ rep'.slot = rep.slot /\ rep'.val = rep.val
      /\ rep'.node = [rep.node EXCEPT ![t] = s] /\ rep'.pc = [rep.pc EXCEPT ![t] = "construct"]
  BY <1>1, <1>2 DEF SharedType
<1>6. SharedType'
  <2>1. items' \in Seq(Values) /\ Len(items') <= C
    <3>1. items' = Append(items, v) /\ v \in Values /\ items \in Seq(Values)
      BY <1>1, <1>2 DEF SharedType
    <3>2. Len(Append(items, v)) <= C
      BY <1>3 DEF Stores
    <3> HIDE DEF v
    <3>3. QED
      BY <3>1, <3>2
  <2>2. rep'.pc \in [Threads -> {"out", "push", "pop", "size"} \cup Within]
    BY <1>1, <1>5 DEF SharedType, Within
  <2>3. rep'.node \in [Threads -> Places]
    BY <1>1, <1>3, <1>5 DEF SharedType
  <2> HIDE DEF s, v
  <2>4. QED
    BY <1>1, <1>2, <1>4, <1>5, <2>1, <2>2, <2>3 DEF SharedType
<1>7. /\ rep'.pc[t] = "construct" /\ rep'.node[t] = s
      /\ \A u \in Threads : u # t => rep'.pc[u] = rep.pc[u]
  BY <1>1, <1>5, SharedFields
<1>8. SharedContents(t)'
  <2> HIDE DEF s
  <2>1. QED
    BY <1>2, <1>3, <1>5, <1>7 DEF SharedContents
<1>9. QED
  BY <1>2, <1>5, <1>6, <1>7, <1>8, HolderMoves DEF Within, SharedInv, SharedMutex

LEMMA ConstructShared ==
  ASSUME SharedInv, NEW t \in Threads, SharedRing!Construct(t)
  PROVE  SharedInv'
<1> DEFINE w == [rep.slot EXCEPT ![rep.node[t]] = rep.val[t]]
<1>1. SharedType
  BY DEF SharedInv
<1>2. /\ rep.pc[t] = "construct" /\ Stores(w, rep.head, rep.tail, items)
      /\ rep' = [rep EXCEPT !.pc[t] = "done", !.slot[rep.node[t]] = rep.val[t]] /\ items' = items
  BY DEF SharedRing!Construct, SharedInv, SharedContents
<1>3. /\ rep'.lock = rep.lock /\ rep'.head = rep.head /\ rep'.tail = rep.tail
      /\ rep'.slot = w /\ rep'.node = rep.node /\ rep'.val = rep.val
      /\ rep'.pc = [rep.pc EXCEPT ![t] = "done"] /\ SharedType'
  BY <1>1, <1>2 DEF SharedType, Within
<1>4. rep'.pc[t] = "done" /\ \A u \in Threads : u # t => rep'.pc[u] = rep.pc[u]
  BY <1>1, <1>3, SharedFields
<1>5. StoresItems'
  BY <1>2, <1>3 DEF StoresItems
<1>6. SharedContents(t)'
  BY <1>4, <1>5 DEF SharedContents
<1>7. QED
  BY <1>2, <1>3, <1>4, <1>5, <1>6, HolderMoves DEF Within

LEMMA TakeShared ==
  ASSUME SharedInv, NEW t \in Threads, SharedRing!Take(t)
  PROVE  SharedInv'
<1> DEFINE s == rep.head % C
<1>1. SharedType
  BY DEF SharedInv
<1>2. /\ rep.pc[t] = "pop locked" /\ StoresItems /\ rep.head # rep.tail
      /\ rep' = [rep EXCEPT !.pc[t] = "copy", !.node[t] = s, !.head = (@ + 1) % M]
      /\ items' = items
  BY SharedNames DEF SharedRing!Take, SharedInv, SharedContents, M
<1>3. /\ s \in Places /\ items # <<>> /\ rep.slot[s] = Head(items)
      /\ Stores([rep.slot EXCEPT ![s] = Raw], (rep.head + 1) % M, rep.tail, Tail(items))
  BY <1>1, <1>2, SharedFields, TakeStores DEF StoresItems
<1>4. (rep.head + 1) % M \in Counter
  <2>1. rep.head + 1 \in Int
    BY <1>1, SharedFields, CapacityDivides DEF Counter
  <2>2. QED
    BY <2>1, IndexIsAPlace
<1>5. /\ rep'.lock = rep.lock /\ rep'.head = (rep.head + 1) % M /\ rep'.tail = rep.tail
      /\ rep'.slot = rep.slot /\ rep'.val = rep.val
      /\ rep'.node = [rep.node EXCEPT ![t] = s] /\ rep'.pc = [rep.pc EXCEPT ![t] = "copy"]
  BY <1>1, <1>2 DEF SharedType
<1>6. SharedType'
  <2>1. rep'.pc \in [Threads -> {"out", "push", "pop", "size"} \cup Within]
    BY <1>1, <1>5 DEF SharedType, Within
  <2>2. rep'.node \in [Threads -> Places]
    BY <1>1, <1>3, <1>5 DEF SharedType
  <2> HIDE DEF s
  <2>3. QED
    BY <1>1, <1>2, <1>4, <1>5, <2>1, <2>2 DEF SharedType
<1>7. /\ rep'.pc[t] = "copy" /\ rep'.node[t] = s
      /\ \A u \in Threads : u # t => rep'.pc[u] = rep.pc[u]
  BY <1>1, <1>5, SharedFields
<1>8. SharedContents(t)'
  <2> HIDE DEF s
  <2>1. QED
    BY <1>2, <1>3, <1>5, <1>7 DEF SharedContents
<1>9. QED
  BY <1>2, <1>5, <1>6, <1>7, <1>8, HolderMoves DEF Within, SharedInv, SharedMutex

LEMMA CopyShared ==
  ASSUME SharedInv, NEW t \in Threads, SharedRing!Copy(t)
  PROVE  SharedInv'
<1>1. SharedType
  BY DEF SharedInv
<1>2. /\ rep.pc[t] = "copy" /\ rep.slot[rep.node[t]] = Head(items) /\ items # <<>>
      /\ Stores([rep.slot EXCEPT ![rep.node[t]] = Raw], rep.head, rep.tail, Tail(items))
      /\ rep' = [rep EXCEPT !.pc[t] = "destroy", !.val[t] = rep.slot[rep.node[t]]] /\ items' = items
  BY DEF SharedRing!Copy, SharedInv, SharedContents
<1>3. /\ rep'.lock = rep.lock /\ rep'.head = rep.head /\ rep'.tail = rep.tail
      /\ rep'.slot = rep.slot /\ rep'.node = rep.node
      /\ rep'.val = [rep.val EXCEPT ![t] = rep.slot[rep.node[t]]]
      /\ rep'.pc = [rep.pc EXCEPT ![t] = "destroy"] /\ SharedType'
  BY <1>1, <1>2 DEF SharedType, Within
<1>4. /\ rep'.pc[t] = "destroy" /\ rep'.val[t] = Head(items)
      /\ \A u \in Threads : u # t => rep'.pc[u] = rep.pc[u] /\ rep'.val[u] = rep.val[u]
  BY <1>1, <1>2, <1>3, SharedFields
<1>5. SharedContents(t)'
  BY <1>2, <1>3, <1>4 DEF SharedContents
<1>6. QED
  BY <1>2, <1>3, <1>4, <1>5, HolderMoves DEF Within, SharedInv, SharedMutex

LEMMA DestroyShared ==
  ASSUME SharedInv, NEW t \in Threads, SharedRing!Destroy(t)
  PROVE  SharedInv'
<1> DEFINE w == [rep.slot EXCEPT ![rep.node[t]] = Raw]
<1>1. SharedType
  BY DEF SharedInv
<1>2. /\ rep.pc[t] = "destroy" /\ rep.val[t] = Head(items) /\ items # <<>>
      /\ Stores(w, rep.head, rep.tail, Tail(items))
      /\ rep' = [rep EXCEPT !.pc[t] = "popped", !.slot[rep.node[t]] = Raw] /\ items' = items
  BY DEF SharedRing!Destroy, SharedInv, SharedContents
<1>3. /\ rep'.lock = rep.lock /\ rep'.head = rep.head /\ rep'.tail = rep.tail
      /\ rep'.slot = w /\ rep'.node = rep.node /\ rep'.val = rep.val
      /\ rep'.pc = [rep.pc EXCEPT ![t] = "popped"] /\ SharedType'
  BY <1>1, <1>2 DEF SharedType, Within, Cells
<1>4. rep'.pc[t] = "popped" /\ \A u \in Threads : u # t => rep'.pc[u] = rep.pc[u]
  BY <1>1, <1>3, SharedFields
<1>5. SharedContents(t)'
  BY <1>2, <1>3, <1>4 DEF SharedContents
<1>6. QED
  BY <1>2, <1>3, <1>4, <1>5, HolderMoves DEF Within, SharedInv, SharedMutex

LEMMA ReleaseShared ==
  ASSUME SharedInv, NEW t \in Threads, SharedRing!Release(t)
  PROVE  SharedInv'
<1>1. SharedType
  BY DEF SharedInv
<1>2. /\ rep.pc[t] \in {"done", "popped", "refused", "size locked"}
      /\ rep' = [rep EXCEPT !.lock = FALSE, !.pc[t] = "out", !.node[t] = 0, !.val[t] = Raw]
      /\ items' = IF rep.pc[t] = "popped" THEN Tail(items) ELSE items
  BY DEF SharedRing!Release
<1>3. /\ Stores(rep.slot, rep.head, rep.tail, items')
      /\ items' \in Seq(Values) /\ Len(items') <= C
  <2>1. CASE rep.pc[t] = "popped"
    <3>1. items # <<>> /\ Stores(rep.slot, rep.head, rep.tail, items')
      BY <1>2, <2>1 DEF SharedInv, SharedContents
    <3>2. items' \in Seq(Values)
      BY <1>1, <1>2, <2>1, <3>1 DEF SharedType
    <3>3. QED
      BY <3>1, <3>2 DEF Stores
  <2>2. CASE rep.pc[t] # "popped"
    BY <1>1, <1>2, <2>2 DEF SharedInv, SharedContents, SharedType, StoresItems
  <2>3. QED
    BY <2>1, <2>2
<1>4. 0 \in Places
  BY CapacityDivides DEF Places
<1>5. /\ rep'.lock = FALSE /\ rep'.head = rep.head /\ rep'.tail = rep.tail /\ rep'.slot = rep.slot
      /\ rep'.pc = [rep.pc EXCEPT ![t] = "out"] /\ rep'.node = [rep.node EXCEPT ![t] = 0]
      /\ rep'.val = [rep.val EXCEPT ![t] = Raw] /\ SharedType'
  BY <1>1, <1>2, <1>3, <1>4 DEF SharedType, Cells
<1>6. rep'.pc[t] = "out" /\ \A u \in Threads : u # t => rep'.pc[u] = rep.pc[u] /\ rep'.val[u] = rep.val[u]
  BY <1>1, <1>5, SharedFields
<1>7. StoresItems'
  BY <1>3, <1>5 DEF StoresItems
<1>8. SharedContents(t)'
  BY <1>6 DEF SharedContents
<1>9. QED
  BY <1>2, <1>5, <1>6, <1>7, <1>8, HolderMoves DEF Within

(* So does every step, and the invariant is as strong as the property. *)
LEMMA SharedStep == SharedInv /\ SharedRing!Next => SharedInv'
BY CallShared, AcquireShared, RefuseShared, ReserveShared, ConstructShared, TakeShared, CopyShared,
   DestroyShared, ReleaseShared
   DEF SharedRing!Next

LEMMA SharedIsQueue == SharedInv => SharedRing!IsQueue
<1> SUFFICES ASSUME SharedInv PROVE SharedRing!IsQueue
  OBVIOUS
<1>1. ~rep.lock =>
        /\ SharedRing!Count = Len(items)
        /\ \A i \in SharedRing!Slot :
             LET k == (i - rep.head) % SharedRing!capacity
             IN  rep.slot[i] = IF k < Len(items) THEN items[k + 1] ELSE Raw
  BY SharedNames DEF SharedInv, StoresItems, Stores, Behind, C
<1>2. Len(items) <= SharedRing!capacity /\ SharedRing!capacity >= Asked
  BY CapacityDivides, WidthType DEF SharedInv, SharedType, C
<1>3. \A t \in Threads :
        /\ rep.pc[t] \in {"destroy", "popped"} => rep.val[t] = Head(items)
        /\ rep.pc[t] = "construct" => rep.slot[rep.node[t]] = Raw
  BY DEF SharedInv, SharedContents
<1>4. QED
  BY <1>1, <1>2, <1>3 DEF SharedRing!IsQueue

-----------------------------------------------------------------------------
(* The plain ring buffer. *)

(* The assumption on the ring buffer. *)
LEMMA RingConstants == N \in Nat \ {0} /\ Base \subseteq Nat
BY QueuesAssumption

(* The slots, from any of the addresses where they can start. *)
Memories == UNION {[base .. base + N - 1 -> Cells] : base \in Base}

(* The slot k places behind the one to be read. *)
Place(b, k) == b.start + ((b.read_pos - b.start + k) % N)

(* A ring buffer. *)
RingType(b) ==
  /\ b \in [start : Base, slot : Memories, write_pos : Nat, read_pos : Nat]
  /\ b.slot \in [b.start .. b.start + N - 1 -> Cells]
  /\ b.read_pos \in b.start .. b.start + N - 1

(* It holds q, behind the slot to be read. *)
RingHolds(b, q) ==
  /\ RingType(b) /\ q \in Seq(Values) /\ Len(q) <= N - 1
  /\ b.write_pos = Place(b, Len(q))
  /\ \A k \in 1 .. Len(q) : b.slot[Place(b, k - 1)] = q[k]

(* A reference is one to the slot before the one to be read. *)
RingInv ==
  /\ rep \in [b : [start : Base, slot : Memories, write_pos : Nat, read_pos : Nat],
              ret : Int, want : Cells]
  /\ RingHolds(rep.b, items)
  /\ rep.ret # Ring!NoRef => rep.ret = Place(rep.b, N - 1) /\ rep.b.slot[rep.ret] = rep.want

LEMMA RingFields ==
  ASSUME NEW b, RingType(b)
  PROVE  /\ b.start \in Nat /\ b.start \in Base /\ b.slot \in [b.start .. b.start + N - 1 -> Cells]
         /\ b.write_pos \in Nat /\ b.read_pos \in Nat
         /\ b.read_pos - b.start \in 0 .. N - 1
<1>1. b.start \in Nat /\ N \in Nat \ {0}
  BY RingConstants DEF RingType
<1>2. b.read_pos - b.start \in 0 .. N - 1
  BY <1>1 DEF RingType
<1>3. QED
  BY <1>1, <1>2 DEF RingType

LEMMA PlaceIsASlot ==
  ASSUME NEW b, RingType(b), NEW k \in Int
  PROVE  /\ Place(b, k) \in b.start .. b.start + N - 1 /\ Place(b, k) \in Nat
         /\ Place(b, k) - b.start = (b.read_pos - b.start + k) % N
<1> DEFINE j == b.read_pos - b.start + k
<1>1. b.start \in Nat /\ j \in Int /\ N \in Nat \ {0}
  BY RingFields, RingConstants
<1>2. j % N \in 0 .. N - 1
  BY <1>1, ModFacts
<1> HIDE DEF j
<1>3. b.start + (j % N) \in b.start .. b.start + N - 1 /\ b.start + (j % N) \in Nat
      /\ (b.start + (j % N)) - b.start = j % N
  BY <1>1, <1>2
<1>4. QED
  BY <1>3 DEF Place, j

(* The next number, unless it goes round. *)
LEMMA ModNext ==
  ASSUME NEW m \in Nat \ {0}, NEW a \in Int
  PROVE  (a + 1) % m = IF (a % m) + 1 = m THEN 0 ELSE (a % m) + 1
<1>1. (a + 1) - 1 = a /\ a + 1 \in Int
  OBVIOUS
<1>2. a % m = IF (a + 1) % m = 0 THEN m - 1 ELSE ((a + 1) % m) - 1
  BY <1>1, NextMod
<1>3. (a + 1) % m \in 0 .. m - 1
  BY <1>1, ModFacts
<1>4. QED
  BY <1>2, <1>3

LEMMA PlaceNext ==
  ASSUME NEW b, RingType(b), NEW k \in Int
  PROVE  Ring!advance(b, Place(b, k)) = Place(b, k + 1)
<1> DEFINE j == b.read_pos - b.start + k
<1>1. b.start \in Nat /\ j \in Int /\ N \in Nat \ {0} /\ b.read_pos - b.start + (k + 1) = j + 1
  BY RingFields, RingConstants
<1>2. j % N \in 0 .. N - 1
  BY <1>1, ModFacts
<1>3. (j + 1) % N = IF (j % N) + 1 = N THEN 0 ELSE (j % N) + 1
  BY <1>1, ModNext
<1>4. Place(b, k) = b.start + (j % N) /\ Place(b, k + 1) = b.start + ((j + 1) % N)
  BY <1>1 DEF Place
<1> HIDE DEF j
<1>5. QED
  BY <1>1, <1>2, <1>3, <1>4 DEF Ring!advance, Ring!last

LEMMA PlacesDiffer ==
  ASSUME NEW b, RingType(b), NEW k \in Int, NEW l \in Int, k < l, l < k + N
  PROVE  Place(b, k) # Place(b, l)
<1> DEFINE i == b.read_pos - b.start + k
           j == b.read_pos - b.start + l
<1>1. i \in Int /\ j \in Int /\ i < j /\ j < i + N /\ N \in Nat \ {0}
  BY RingFields, RingConstants
<1> SUFFICES ASSUME Place(b, k) = Place(b, l) PROVE FALSE
  OBVIOUS
<1>2. j % N = i % N
  BY PlaceIsASlot
<1> HIDE DEF i, j
<1>3. PICK z \in Int : j = i + N * z
  BY <1>1, <1>2, ModSame DEF Same
<1>4. N * 0 = 0 /\ N * 1 = N /\ N * z \in Int
  BY <1>1
<1>5. z <= 0 => N * z <= N * 0
  <2>1. z < 0 => N * z + N <= N * 0
    BY <1>1, Below
  <2>2. QED
    BY <1>1, <1>4, <2>1
<1>6. z >= 1 => N * 1 <= N * z
  <2>1. 1 < z => N * 1 + N <= N * z
    BY <1>1, Below
  <2>2. QED
    BY <1>1, <1>4, <2>1
<1>7. QED
  BY <1>1, <1>3, <1>4, <1>5, <1>6

LEMMA PlaceZero ==
  ASSUME NEW b, RingType(b)
  PROVE  Place(b, 0) = b.read_pos /\ Place(b, N) = b.read_pos
<1> DEFINE r == b.read_pos - b.start
<1>1. r \in 0 .. N - 1 /\ r + 0 = r /\ b.start + r = b.read_pos /\ N \in Nat \ {0} /\ r + N \in Int
  BY RingFields, RingConstants
<1>2. r % N = r
  BY <1>1, ModSmall
<1>3. r + N = N * 1 + r
  BY <1>1
<1>4. (r + N) % N = r
  BY <1>1, <1>3, ModUnique
<1>5. QED
  BY <1>1, <1>2, <1>4 DEF Place

LEMMA RingNames ==
  /\ \A b : b.start \in Nat => Ring!Slot(b) = b.start .. b.start + N - 1
  /\ Ring!NoRef = -1
<1>1. ASSUME NEW b, b.start \in Nat PROVE Ring!Slot(b) = b.start .. b.start + N - 1
  BY <1>1, RingConstants DEF Ring!Slot, Ring!last
<1>2. Ring!NoRef = -1
  BY DEF Ring!NoRef
<1>3. QED
  BY <1>1, <1>2

LEMMA RingStart == Ring!Init => RingInv
<1> SUFFICES ASSUME Ring!Init PROVE RingInv
  OBVIOUS
<1>1. PICK base \in Base : rep = [b |-> Ring!NewBuffer(base), ret |-> Ring!NoRef, want |-> Raw]
  BY DEF Ring!Init
<1> DEFINE b == rep.b
<1>2. /\ b = [start |-> base, slot |-> [p \in base .. base + N - 1 |-> Raw],
              write_pos |-> base, read_pos |-> base]
      /\ rep.ret = -1 /\ rep.want = Raw /\ base \in Nat /\ N \in Nat \ {0} /\ items = <<>>
  BY <1>1, RingNames, RingConstants DEF Ring!NewBuffer, Ring!Init
<1>3. RingType(b)
  BY <1>2 DEF RingType, Memories, Cells
<1>4. RingHolds(b, items)
  BY <1>2, <1>3, PlaceZero DEF RingHolds
<1>5. rep \in [b : [start : Base, slot : Memories, write_pos : Nat, read_pos : Nat], ret : Int, want : Cells]
  BY <1>1, <1>2, <1>3 DEF RingType, Cells
<1>6. QED
  BY <1>2, <1>4, <1>5, RingNames DEF RingInv

(* Both write() functions leave the same buffer behind. *)
LEMMA WriteHolds ==
  ASSUME NEW b, NEW q, RingHolds(b, q), NEW v \in Values, Len(q) < N - 1, NEW c,
         c = Ring!WriteCopy(b, v)
  PROVE  /\ RingHolds(c, Append(q, v))
         /\ \A k \in Int : Place(c, k) = Place(b, k)
         /\ c.slot[Place(b, N - 1)] = b.slot[Place(b, N - 1)]
<1> DEFINE n == Len(q)
<1>1. RingType(b) /\ q \in Seq(Values) /\ n \in Nat /\ N \in Nat \ {0} /\ b.write_pos = Place(b, n)
  BY RingConstants DEF RingHolds
<1>2. /\ b.start \in Nat /\ b.start \in Base /\ b.slot \in [b.start .. b.start + N - 1 -> Cells]
      /\ Place(b, n) \in b.start .. b.start + N - 1
      /\ Place(b, n + 1) \in Nat /\ Ring!advance(b, b.write_pos) = Place(b, n + 1)
  <2>1. n \in Int /\ n + 1 \in Int
    BY <1>1
  <2> HIDE DEF n
  <2>2. QED
    BY <1>1, <2>1, RingFields, PlaceIsASlot, PlaceNext
<1>3. /\ c.start = b.start /\ c.read_pos = b.read_pos /\ c.write_pos = Place(b, n + 1)
      /\ c.slot = [b.slot EXCEPT ![Place(b, n)] = v]
      /\ c = [start |-> c.start, slot |-> c.slot, write_pos |-> c.write_pos, read_pos |-> c.read_pos]
  <2> HIDE DEF n
  <2>1. QED
    BY <1>1, <1>2 DEF RingType, Ring!WriteCopy
<1>4. c.slot \in [c.start .. c.start + N - 1 -> Cells]
  BY <1>2, <1>3 DEF Cells
<1>5. RingType(c)
  <2>1. c.slot \in Memories
    BY <1>2, <1>3, <1>4 DEF Memories
  <2>2. b.read_pos \in Nat /\ b.read_pos \in b.start .. b.start + N - 1
    BY <1>1 DEF RingType
  <2> HIDE DEF n
  <2>3. QED
    BY <1>2, <1>3, <1>4, <2>1, <2>2 DEF RingType
<1>6. \A k \in Int : Place(c, k) = Place(b, k)
  BY <1>3 DEF Place
<1>7. ASSUME NEW k \in Int, k # n, n < k + N, k < n + N
      PROVE  c.slot[Place(b, k)] = b.slot[Place(b, k)]
  <2>1. Place(b, k) # Place(b, n)
    BY <1>1, <1>7, PlacesDiffer
  <2>2. QED
    BY <1>1, <1>2, <1>3, <2>1, PlaceIsASlot
<1>8. Append(q, v) \in Seq(Values) /\ Len(Append(q, v)) = n + 1
  BY <1>1
<1>9. ASSUME NEW k \in 1 .. n + 1 PROVE c.slot[Place(c, k - 1)] = Append(q, v)[k]
  <2>1. k - 1 \in Int /\ Place(c, k - 1) = Place(b, k - 1)
    BY <1>1, <1>6
  <2>2. CASE k = n + 1
    BY <1>1, <1>2, <1>3, <2>1, <2>2
  <2>3. CASE k # n + 1
    <3>1. k \in 1 .. n /\ k - 1 # n /\ n < k - 1 + N /\ k - 1 < n + N
      BY <1>1, <2>3
    <3>2. c.slot[Place(b, k - 1)] = b.slot[Place(b, k - 1)]
      BY <1>7, <2>1, <3>1
    <3>3. b.slot[Place(b, k - 1)] = q[k] /\ Append(q, v)[k] = q[k]
      BY <1>1, <3>1 DEF RingHolds
    <3>4. QED
      BY <2>1, <3>2, <3>3
  <2>4. QED
    BY <2>2, <2>3
<1>10. RingHolds(c, Append(q, v))
  <2>1. c.write_pos = Place(c, n + 1) /\ n + 1 <= N - 1
    BY <1>1, <1>3, <1>6
  <2> HIDE DEF n
  <2>2. QED
    BY <1>5, <1>8, <1>9, <2>1 DEF RingHolds
<1>11. c.slot[Place(b, N - 1)] = b.slot[Place(b, N - 1)]
  BY <1>1, <1>7
<1>12. QED
  BY <1>6, <1>10, <1>11

LEMMA WriteKeeps ==
  ASSUME RingInv, NEW v \in Values, Ring!Room,
         rep' = [b |-> Ring!WriteCopy(rep.b, v), ret |-> rep.ret, want |-> rep.want],
         items' = Append(items, v)
  PROVE  RingInv'
<1> DEFINE b == rep.b
           c == rep'.b
<1>1. RingHolds(b, items) /\ Len(items) < N - 1
  BY DEF RingInv, Ring!Room
<1>2. /\ c = Ring!WriteCopy(b, v)
      /\ rep'.ret = rep.ret /\ rep'.want = rep.want
      /\ rep' = [b |-> c, ret |-> rep.ret, want |-> rep.want]
      /\ rep.ret \in Int /\ rep.want \in Cells
  BY DEF RingInv
<1>3. /\ RingHolds(c, items') /\ Place(c, N - 1) = Place(b, N - 1)
      /\ c.slot[Place(b, N - 1)] = b.slot[Place(b, N - 1)]
  <2> HIDE DEF b, c
  <2>1. N - 1 \in Int
    BY RingConstants
  <2>2. /\ RingHolds(c, Append(items, v)) /\ \A k \in Int : Place(c, k) = Place(b, k)
        /\ c.slot[Place(b, N - 1)] = b.slot[Place(b, N - 1)]
    BY <1>1, <1>2, WriteHolds
  <2>3. QED
    BY <2>1, <2>2
<1>4. rep' \in [b : [start : Base, slot : Memories, write_pos : Nat, read_pos : Nat], ret : Int, want : Cells]
  <2>1. c \in [start : Base, slot : Memories, write_pos : Nat, read_pos : Nat]
    BY <1>3 DEF RingHolds, RingType
  <2> HIDE DEF b, c
  <2>2. QED
    BY <1>2, <2>1
<1>5. rep'.ret # Ring!NoRef => rep'.ret = Place(c, N - 1) /\ c.slot[rep'.ret] = rep'.want
  BY <1>2, <1>3 DEF RingInv
<1>6. QED
  BY <1>3, <1>4, <1>5, RingNames DEF RingInv

LEMMA MoveIsCopy ==
  ASSUME RingInv, NEW v
  PROVE  Ring!WriteMove(rep.b, v) = Ring!WriteCopy(rep.b, v)
<1> DEFINE b == rep.b
<1>1. b \in [start : Base, slot : Memories, write_pos : Nat, read_pos : Nat]
  BY DEF RingInv
<1> HIDE DEF b
<1>2. Ring!WriteMove(b, v) = Ring!WriteCopy(b, v)
  BY <1>1 DEF Ring!WriteMove, Ring!WriteCopy
<1>3. QED
  BY <1>2 DEF b

(* read() moves the whole queue one place nearer, and the slot read behind. *)
LEMMA ReadHolds ==
  ASSUME NEW b, NEW q, RingHolds(b, q), q # <<>>, NEW c,
         c = [b EXCEPT !.read_pos = Ring!advance(b, @)]
  PROVE  /\ RingHolds(c, Tail(q)) /\ c.slot = b.slot
         /\ b.read_pos = Place(c, N - 1) /\ b.slot[b.read_pos] = Head(q)
<1> DEFINE n == Len(q)
           r == b.read_pos - b.start
<1>1. RingType(b) /\ q \in Seq(Values) /\ n \in Nat /\ n > 0 /\ n <= N - 1 /\ N \in Nat \ {0}
      /\ b.write_pos = Place(b, n)
  BY RingConstants DEF RingHolds
<1>2. b.start \in Nat /\ b.start \in Base /\ r \in 0 .. N - 1 /\ b.read_pos = b.start + r
  BY <1>1, RingFields
<1>3. Ring!advance(b, b.read_pos) = Place(b, 1)
  BY <1>1, PlaceZero, PlaceNext
<1>4. Place(b, 1) \in b.start .. b.start + N - 1 /\ Place(b, 1) \in Nat
      /\ Place(b, 1) - b.start = (r + 1) % N
  BY <1>1, PlaceIsASlot
<1>5. /\ c.start = b.start /\ c.read_pos = Place(b, 1) /\ c.slot = b.slot /\ c.write_pos = b.write_pos
      /\ c = [start |-> c.start, slot |-> c.slot, write_pos |-> c.write_pos, read_pos |-> c.read_pos]
  <2> HIDE DEF n, r
  <2>1. QED
    BY <1>1, <1>3 DEF RingType
<1>6. RingType(c)
  <2> HIDE DEF n, r
  <2>1. QED
    BY <1>1, <1>4, <1>5 DEF RingType
<1>7. ASSUME NEW k \in Int PROVE Place(c, k) = Place(b, k + 1)
  <2>1. (((r + 1) % N) + k) % N = ((r + 1) + k) % N
    <3>1. r + 1 \in Int /\ -k \in Int
      BY <1>2
    <3>2. (((r + 1) % N) - (-k)) % N = ((r + 1) - (-k)) % N
      BY <1>1, <3>1, ModDifference
    <3>3. (r + 1) % N \in Int
      BY <1>1, <3>1, ModFacts
    <3>4. ((r + 1) % N) - (-k) = ((r + 1) % N) + k /\ (r + 1) - (-k) = (r + 1) + k
      BY <3>1, <3>3
    <3>5. QED
      BY <3>2, <3>4
  <2>2. (r + 1) + k = r + (k + 1)
    BY <1>2
  <2>3. Place(c, k) = b.start + ((((r + 1) % N) + k) % N)
    BY <1>4, <1>5 DEF Place
  <2>4. Place(b, k + 1) = b.start + ((r + (k + 1)) % N)
    BY DEF Place
  <2>5. QED
    BY <2>1, <2>2, <2>3, <2>4
<1>8. b.read_pos = Place(c, N - 1)
  <2>1. N - 1 \in Int /\ (N - 1) + 1 = N
    BY <1>1
  <2>2. QED
    BY <1>1, <1>7, <2>1, PlaceZero
<1>9. b.slot[b.read_pos] = Head(q)
  <2>1. b.slot[Place(b, 1 - 1)] = q[1]
    BY <1>1 DEF RingHolds
  <2>2. QED
    BY <1>1, <2>1, PlaceZero
<1>10. Tail(q) \in Seq(Values) /\ Len(Tail(q)) = n - 1 /\ \A k \in 1 .. n - 1 : Tail(q)[k] = q[k + 1]
  BY <1>1
<1>11. c.write_pos = Place(c, n - 1)
  <2>1. n - 1 \in Int /\ (n - 1) + 1 = n
    BY <1>1
  <2>2. QED
    BY <1>1, <1>5, <1>7, <2>1
<1>12. ASSUME NEW k \in 1 .. n - 1 PROVE c.slot[Place(c, k - 1)] = Tail(q)[k]
  <2>1. k - 1 \in Int /\ (k - 1) + 1 = k /\ k + 1 \in 1 .. n /\ (k + 1) - 1 = k
    BY <1>1
  <2>2. Place(c, k - 1) = Place(b, k)
    BY <1>7, <2>1
  <2>3. b.slot[Place(b, k)] = q[k + 1]
    BY <2>1 DEF RingHolds
  <2>4. QED
    BY <1>5, <1>10, <2>2, <2>3
<1>13. RingHolds(c, Tail(q))
  <2>1. n - 1 <= N - 1
    BY <1>1
  <2> HIDE DEF n
  <2>2. QED
    BY <1>6, <1>10, <1>11, <1>12, <2>1 DEF RingHolds
<1>14. QED
  BY <1>5, <1>8, <1>9, <1>13

LEMMA ReadKeeps == RingInv /\ Ring!read => RingInv'
<1> SUFFICES ASSUME RingInv, Ring!read PROVE RingInv'
  OBVIOUS
<1> DEFINE b == rep.b
           c == rep'.b
<1>1. RingHolds(b, items) /\ items # <<>>
  BY DEF RingInv, Ring!read
<1>2. /\ c = [b EXCEPT !.read_pos = Ring!advance(b, @)] /\ items' = Tail(items)
      /\ rep'.ret = b.read_pos /\ rep'.want = Head(items)
      /\ rep' = [b |-> c, ret |-> b.read_pos, want |-> Head(items)]
  BY DEF Ring!read
<1>3. /\ RingHolds(c, items') /\ c.slot = b.slot
      /\ b.read_pos = Place(c, N - 1) /\ b.slot[b.read_pos] = Head(items)
  <2> HIDE DEF b, c
  <2>1. QED
    BY <1>1, <1>2, ReadHolds
<1>4. rep' \in [b : [start : Base, slot : Memories, write_pos : Nat, read_pos : Nat], ret : Int, want : Cells]
  <2>1. c \in [start : Base, slot : Memories, write_pos : Nat, read_pos : Nat]
    BY <1>3 DEF RingHolds, RingType
  <2>2. b.read_pos \in Int
    BY <1>1 DEF RingHolds, RingType
  <2>3. Head(items) \in Cells
    BY <1>1 DEF RingHolds, Cells
  <2> HIDE DEF b, c
  <2>4. QED
    BY <1>2, <2>1, <2>2, <2>3
<1>5. QED
  BY <1>2, <1>3, <1>4 DEF RingInv

(* A copy holds the same, wherever its memory is. *)
LEMMA CopyHolds ==
  ASSUME NEW b, NEW q, RingHolds(b, q), NEW base \in Base, NEW c, c = Ring!Copied(b, base)
  PROVE  RingHolds(c, q)
<1> DEFINE n == Len(q)
           r == b.read_pos - b.start
<1>1. RingType(b) /\ q \in Seq(Values) /\ n \in Nat /\ n <= N - 1 /\ N \in Nat \ {0} /\ base \in Nat
      /\ b.write_pos = Place(b, n)
  BY RingConstants DEF RingHolds
<1>2. b.start \in Nat /\ r \in 0 .. N - 1 /\ b.slot \in [b.start .. b.start + N - 1 -> Cells]
  BY <1>1, RingFields
<1>3. /\ c.start = base
      /\ c.slot = [p \in base .. base + N - 1 |-> b.slot[p - base + b.start]]
      /\ c.write_pos = base + (b.write_pos - b.start) /\ c.read_pos = base + r
      /\ c = [start |-> c.start, slot |-> c.slot, write_pos |-> c.write_pos, read_pos |-> c.read_pos]
  BY DEF Ring!Copied, Ring!get_write_pos_idx, Ring!get_read_pos_idx
<1>4. c.slot \in [base .. base + N - 1 -> Cells]
  <2>1. \A p \in base .. base + N - 1 : p - base + b.start \in b.start .. b.start + N - 1
    BY <1>1, <1>2
  <2>2. QED
    BY <1>2, <1>3, <2>1
<1>5. c.write_pos \in Nat /\ c.read_pos \in Nat /\ c.read_pos \in base .. base + N - 1
      /\ c.read_pos - c.start = r
  <2>1. b.write_pos \in b.start .. b.start + N - 1
    BY <1>1, PlaceIsASlot
  <2> HIDE DEF r
  <2>2. QED
    BY <1>1, <1>2, <1>3, <2>1
<1>6. RingType(c)
  <2>1. c.slot \in Memories
    BY <1>4 DEF Memories
  <2> HIDE DEF n, r
  <2>2. QED
    BY <1>1, <1>3, <1>4, <1>5, <2>1 DEF RingType
<1>7. ASSUME NEW k \in Int
      PROVE  /\ Place(c, k) = base + (Place(b, k) - b.start)
             /\ c.slot[Place(c, k)] = b.slot[Place(b, k)]
  <2> DEFINE p == Place(b, k)
             s == Place(c, k)
  <2>1. p - b.start = (r + k) % N /\ p \in b.start .. b.start + N - 1
    BY <1>1, PlaceIsASlot
  <2>2. s - base = (r + k) % N /\ s \in base .. base + N - 1
    BY <1>3, <1>5, <1>6, PlaceIsASlot
  <2> HIDE DEF p, s, r
  <2>3. s = base + (p - b.start) /\ s - base + b.start = p
    BY <1>1, <1>2, <2>1, <2>2
  <2>4. QED
    BY <1>3, <2>2, <2>3 DEF p, s
<1>8. QED
  <2>1. c.write_pos = Place(c, n)
    <3>1. n \in Int
      BY <1>1
    <3> HIDE DEF n
    <3>2. Place(c, n) = base + (Place(b, n) - b.start)
      BY <1>7, <3>1
    <3>3. QED
      BY <1>1, <1>3, <3>2
  <2>2. ASSUME NEW k \in 1 .. n PROVE c.slot[Place(c, k - 1)] = q[k]
    <3>1. k - 1 \in Int /\ b.slot[Place(b, k - 1)] = q[k]
      BY <1>1 DEF RingHolds
    <3>2. QED
      BY <1>7, <3>1
  <2> HIDE DEF n
  <2>3. QED
    BY <1>1, <1>6, <2>1, <2>2 DEF RingHolds, n

LEMMA CopyKeeps == RingInv /\ Ring!copy => RingInv'
<1> SUFFICES ASSUME RingInv, Ring!copy PROVE RingInv'
  OBVIOUS
<1>1. PICK base \in Base :
        rep' = [b |-> Ring!Copied(rep.b, base), ret |-> Ring!NoRef, want |-> Raw] /\ items' = items
  BY DEF Ring!copy
<1> DEFINE c == rep'.b
<1>2. c = Ring!Copied(rep.b, base) /\ rep'.ret = Ring!NoRef /\ rep' = [b |-> c, ret |-> -1, want |-> Raw]
  BY <1>1, RingNames
<1>3. RingHolds(c, items')
  BY <1>1, <1>2, CopyHolds DEF RingInv
<1>4. c \in [start : Base, slot : Memories, write_pos : Nat, read_pos : Nat]
  BY <1>3 DEF RingHolds, RingType
<1> HIDE DEF c
<1>5. rep' \in [b : [start : Base, slot : Memories, write_pos : Nat, read_pos : Nat], ret : Int, want : Cells]
  BY <1>2, <1>4 DEF Cells
<1>6. QED
  BY <1>2, <1>3, <1>5, RingNames DEF RingInv, c

LEMMA RingStep == RingInv /\ Ring!Next => RingInv'
<1> SUFFICES ASSUME RingInv, Ring!Next PROVE RingInv'
  OBVIOUS
<1>1. ASSUME NEW v, rep' = [rep EXCEPT !.b = Ring!WriteCopy(@, v)]
      PROVE  rep' = [b |-> Ring!WriteCopy(rep.b, v), ret |-> rep.ret, want |-> rep.want]
  <2> DEFINE c == Ring!WriteCopy(rep.b, v)
  <2>1. rep' = [rep EXCEPT !.b = c]
    BY <1>1
  <2> HIDE DEF c
  <2>2. rep' = [b |-> c, ret |-> rep.ret, want |-> rep.want]
    BY <2>1 DEF RingInv
  <2>3. QED
    BY <2>2 DEF c
<1>2. ASSUME NEW v \in Values, Ring!write(v) PROVE RingInv'
  BY <1>1, <1>2, WriteKeeps DEF Ring!write
<1>4. ASSUME NEW v \in Values, Ring!write_move(v) PROVE RingInv'
  <2>1. rep' = [rep EXCEPT !.b = Ring!WriteMove(@, v)] /\ Ring!Room /\ items' = Append(items, v)
    BY <1>4 DEF Ring!write_move
  <2>2. rep' = [rep EXCEPT !.b = Ring!WriteCopy(@, v)]
    BY <2>1, MoveIsCopy
  <2>3. QED
    BY <1>1, <2>1, <2>2, WriteKeeps
<1>3. QED
  BY <1>2, <1>4, ReadKeeps, CopyKeeps DEF Ring!Next

LEMMA RingIsQueue == RingInv => Ring!IsQueue
<1> SUFFICES ASSUME RingInv PROVE Ring!IsQueue
  OBVIOUS
<1> DEFINE b == rep.b
           n == Len(items)
           r == b.read_pos - b.start
           w == b.write_pos - b.start
<1>1. RingType(b) /\ items \in Seq(Values) /\ n \in Nat /\ n <= N - 1 /\ N \in Nat \ {0}
      /\ b.write_pos = Place(b, n) /\ \A k \in 1 .. n : b.slot[Place(b, k - 1)] = items[k]
  BY RingConstants DEF RingInv, RingHolds
<1>2. b.start \in Nat /\ r \in 0 .. N - 1 /\ b.read_pos \in Nat /\ b.read_pos \in b.start .. b.start + N - 1
  BY <1>1, RingFields DEF RingType
<1>3. b.write_pos \in b.start .. b.start + N - 1 /\ w = (r + n) % N
  <2> HIDE DEF b, n
  <2>1. /\ Place(b, n) \in b.start .. b.start + N - 1
        /\ Place(b, n) - b.start = (b.read_pos - b.start + n) % N
    BY <1>1, PlaceIsASlot
  <2>2. QED
    BY <1>1, <2>1
<1>4. (b.write_pos - b.read_pos) % N = n
  <2>1. r + n \in Int /\ r \in Int /\ (r + n) - r = n
    <3>1. r \in Int /\ n \in Int
      BY <1>1, <1>2
    <3> HIDE DEF r, n
    <3>2. QED
      BY <3>1
  <2>2. (((r + n) % N) - r) % N = n % N
    BY <1>1, <2>1, ModDifference
  <2>3. n % N = n
    BY <1>1, ModSmall
  <2>4. b.write_pos - b.read_pos = w - r
    BY <1>2, <1>3
  <2> HIDE DEF n, r, w
  <2>5. QED
    BY <1>3, <2>2, <2>3, <2>4
<1>5. \A k \in 1 .. n : b.slot[b.start + ((Ring!get_read_pos_idx(b) + k - 1) % N)] = items[k]
  <2> SUFFICES ASSUME NEW k \in 1 .. n
               PROVE  b.slot[b.start + ((Ring!get_read_pos_idx(b) + k - 1) % N)] = items[k]
    OBVIOUS
  <2>1. r + k - 1 = r + (k - 1)
    BY <1>1, <1>2
  <2>2. Place(b, k - 1) = b.start + ((r + k - 1) % N)
    BY <2>1 DEF Place
  <2>3. QED
    BY <1>1, <2>2 DEF Ring!get_read_pos_idx
<1>6. b.read_pos <= b.write_pos => Ring!Iterate(b) = items
  <2> SUFFICES ASSUME b.read_pos <= b.write_pos PROVE Ring!Iterate(b) = items
    OBVIOUS
  <2>1. b.write_pos - b.read_pos \in 0 .. N - 1
    <3>1. PICK s \in Nat, x \in Nat, y \in Nat : s = b.start /\ x = b.read_pos /\ y = b.write_pos
      BY <1>2, <1>3
    <3>2. x \in s .. s + N - 1 /\ y \in s .. s + N - 1 /\ x <= y /\ N \in Nat
      BY <1>1, <1>2, <1>3, <3>1
    <3>3. y - x \in 0 .. N - 1
      BY <3>2
    <3>4. QED
      BY <3>1, <3>3
  <2>2. b.write_pos - b.read_pos = n
    BY <1>1, <1>4, <2>1, ModSmall
  <2>3. ASSUME NEW k \in 1 .. n PROVE b.slot[b.read_pos + k - 1] = items[k]
    <3>1. r + (k - 1) \in 0 .. N - 1 /\ b.read_pos + k - 1 = b.start + (r + (k - 1))
      <4>1. b.write_pos \in Nat /\ b.write_pos <= b.start + N - 1 /\ k \in Nat /\ 1 <= k /\ k <= n
            /\ b.read_pos >= b.start
        BY <1>1, <1>2, <1>3
      <4>2. b.read_pos \in Nat /\ b.start \in Nat /\ N \in Nat /\ b.write_pos - b.read_pos = n
        BY <1>1, <1>2, <2>2
      <4> HIDE DEF b, n
      <4>3. QED
        BY <4>1, <4>2
    <3>2. (r + (k - 1)) % N = r + (k - 1)
      BY <1>1, <3>1, ModSmall
    <3>3. Place(b, k - 1) = b.read_pos + k - 1
      BY <3>1, <3>2 DEF Place
    <3>4. QED
      BY <1>1, <3>3
  <2>4. Ring!Iterate(b) = [k \in 1 .. n |-> items[k]]
    <3> HIDE DEF n
    <3>1. QED
      BY <2>2, <2>3 DEF Ring!Iterate
  <2>5. items = [k \in 1 .. n |-> items[k]]
    BY <1>1
  <2>6. QED
    BY <2>4, <2>5
<1>7. rep.ret # Ring!NoRef => b.slot[rep.ret] = rep.want
  BY DEF RingInv
<1>8. {b.write_pos, b.read_pos} \subseteq Ring!Slot(b)
  BY <1>2, <1>3, RingNames
<1> HIDE DEF b
<1>9. QED
  BY <1>4, <1>5, <1>6, <1>7, <1>8 DEF Ring!IsQueue, b

-----------------------------------------------------------------------------
(* The byte buffer: sequences first, then that every operation leaves what  *)
(* is to be read where it says it is.                                       *)

(* The assumption on the buffer. *)
LEMMA StreamConstants ==
  InitSize \in Nat /\ Spill \in Nat /\ MaxSize \in Nat /\ MaxAppend \in Nat
BY QueuesAssumption

Buffers == [buffer : Seq(Cells), readPos : Nat, writePos : Nat]

(* What is to be read from b is q. *)
Streams(b, q) ==
  /\ b \in Buffers /\ q \in Seq(Values)
  /\ b.readPos <= b.writePos /\ b.writePos <= Len(b.buffer)
  /\ Len(q) = b.writePos - b.readPos
  /\ \A k \in 1 .. Len(q) : b.buffer[b.readPos + k] = q[k]

LEMMA BufferFields ==
  ASSUME NEW b, NEW q, Streams(b, q)
  PROVE  /\ b.buffer \in Seq(Cells) /\ b.readPos \in Nat /\ b.writePos \in Nat
         /\ Len(b.buffer) \in Nat /\ Len(q) \in Nat
         /\ b.readPos <= b.writePos /\ b.writePos <= Len(b.buffer)
         /\ Len(q) = b.writePos - b.readPos
         /\ b = [buffer |-> b.buffer, readPos |-> b.readPos, writePos |-> b.writePos]
BY DEF Streams, Buffers

(* What the parts and the concatenation of sequences hold. *)
LEMMA SubSequence ==
  ASSUME NEW S, NEW m \in Seq(S), NEW i \in Nat \ {0}, NEW j \in Nat, i <= j + 1, j <= Len(m)
  PROVE  /\ SubSeq(m, i, j) \in Seq(S) /\ Len(SubSeq(m, i, j)) = j - i + 1
         /\ \A k \in 1 .. j - i + 1 : SubSeq(m, i, j)[k] = m[i + k - 1]
<1>1. i \in 1 .. Len(m) + 1 /\ j \in i - 1 .. Len(m) /\ Len(m) \in Nat
  OBVIOUS
<1>2. QED
  BY <1>1

LEMMA Joined ==
  ASSUME NEW S, NEW s \in Seq(S), NEW t \in Seq(S)
  PROVE  /\ s \o t \in Seq(S) /\ Len(s \o t) = Len(s) + Len(t)
         /\ \A k \in 1 .. Len(s) + Len(t) : (s \o t)[k] = IF k <= Len(s) THEN s[k] ELSE t[k - Len(s)]
OBVIOUS

(* Sequences that hold the same are the same. *)
LEMMA EqualSequences ==
  ASSUME NEW S, NEW s \in Seq(S), NEW t \in Seq(S), Len(s) = Len(t),
         \A k \in 1 .. Len(s) : s[k] = t[k]
  PROVE  s = t
OBVIOUS

(* What Overwritten changes, and what it leaves. *)
LEMMA OverwrittenIs ==
  ASSUME NEW m \in Seq(Cells), NEW p \in Nat, NEW s \in Seq(Cells), p + Len(s) <= Len(m)
  PROVE  LET o == Stream!Overwritten(m, p, s)
         IN  /\ o \in Seq(Cells) /\ Len(o) = Len(m)
             /\ \A i \in 1 .. Len(m) :
                  o[i] = IF p < i /\ i <= p + Len(s) THEN s[i - p] ELSE m[i]
<1> DEFINE a == SubSeq(m, 1, p)
           c == SubSeq(m, p + Len(s) + 1, Len(m))
           o == Stream!Overwritten(m, p, s)
           n == Len(s)
           l == Len(m)
<1>1. n \in Nat /\ l \in Nat /\ p <= l
  OBVIOUS
<1>2. a \in Seq(Cells) /\ Len(a) = p /\ \A k \in 1 .. p : a[k] = m[k]
  <2>1. Len(a) = p - 1 + 1 /\ a \in Seq(Cells) /\ \A k \in 1 .. p - 1 + 1 : a[k] = m[1 + k - 1]
    BY <1>1, SubSequence
  <2> HIDE DEF a
  <2>2. QED
    BY <2>1
<1>3. c \in Seq(Cells) /\ Len(c) = l - p - n /\ \A k \in 1 .. l - p - n : c[k] = m[p + n + k]
  <2> DEFINE f == p + n + 1
  <2>1. f \in Nat \ {0} /\ f <= l + 1 /\ l - f + 1 = l - p - n
        /\ \A k \in Int : f + k - 1 = p + n + k
    BY <1>1
  <2> HIDE DEF f
  <2>2. c = SubSeq(m, f, l)
    BY DEF f
  <2>3. c \in Seq(Cells) /\ Len(c) = l - f + 1 /\ \A k \in 1 .. l - f + 1 : c[k] = m[f + k - 1]
    BY <1>1, <2>1, <2>2, SubSequence
  <2> HIDE DEF c, n, l
  <2>4. ASSUME NEW k \in 1 .. l - p - n PROVE c[k] = m[p + n + k]
    <3>1. k \in 1 .. l - f + 1 /\ f + k - 1 = p + n + k
      BY <1>1, <2>1
    <3>2. QED
      BY <2>3, <3>1
  <2>5. QED
    BY <2>1, <2>3, <2>4
<1>4. o = (a \o s) \o c
  BY DEF Stream!Overwritten
<1> HIDE DEF a, c, o, n, l
<1>5. /\ a \o s \in Seq(Cells) /\ Len(a \o s) = p + n
      /\ \A k \in 1 .. p + n : (a \o s)[k] = IF k <= p THEN a[k] ELSE s[k - p]
  BY <1>2, Joined DEF n
<1> DEFINE t == a \o s
<1> HIDE DEF t
<1>6. o = t \o c /\ t \in Seq(Cells) /\ Len(t) = p + n
      /\ \A k \in 1 .. p + n : t[k] = IF k <= p THEN a[k] ELSE s[k - p]
  BY <1>4, <1>5 DEF t
<1>7. /\ o \in Seq(Cells) /\ Len(o) = (p + n) + (l - p - n)
      /\ \A k \in 1 .. (p + n) + (l - p - n) :
           o[k] = IF k <= p + n THEN t[k] ELSE c[k - (p + n)]
  <2>1. /\ t \o c \in Seq(Cells) /\ Len(t \o c) = Len(t) + Len(c)
        /\ \A k \in 1 .. Len(t) + Len(c) : (t \o c)[k] = IF k <= Len(t) THEN t[k] ELSE c[k - Len(t)]
    BY <1>3, <1>6, Joined
  <2>2. o = t \o c /\ Len(t) = p + n /\ Len(c) = l - p - n
    BY <1>3, <1>6
  <2>3. QED
    BY <2>1, <2>2
<1>8. Len(o) = l
  BY <1>1, <1>7
<1>9. ASSUME NEW i \in 1 .. l
      PROVE  o[i] = IF p < i /\ i <= p + n THEN s[i - p] ELSE m[i]
  <2>1. o[i] = IF i <= p + n THEN t[i] ELSE c[i - (p + n)]
    BY <1>1, <1>7
  <2>2. CASE i <= p
    BY <1>1, <1>2, <1>6, <2>1, <2>2
  <2>3. CASE p < i /\ i <= p + n
    BY <1>1, <1>6, <2>1, <2>3
  <2>4. CASE p + n < i
    <3>1. i - (p + n) \in 1 .. l - p - n /\ p + n + (i - (p + n)) = i
      BY <1>1, <2>4
    <3>2. c[i - (p + n)] = m[i]
      BY <1>3, <3>1
    <3>3. QED
      BY <1>1, <2>1, <2>4, <3>2
  <2>5. QED
    BY <1>1, <2>2, <2>3, <2>4
<1>10. QED
  BY <1>7, <1>8, <1>9 DEF o, n, l

LEMMA ZerosAre ==
  ASSUME NEW n \in Nat
  PROVE  Stream!Zeros(n) \in Seq(Cells) /\ Len(Stream!Zeros(n)) = n
BY DEF Stream!Zeros, Cells

(* Readable is what is to be read. *)
LEMMA ReadableIs ==
  ASSUME NEW b, NEW q, Streams(b, q)
  PROVE  Stream!Readable(b) = q
<1> DEFINE r == Stream!Readable(b)
           i == b.readPos
           j == b.writePos
<1>1. b.buffer \in Seq(Cells) /\ i \in Nat /\ j \in Nat /\ i <= j /\ j <= Len(b.buffer)
      /\ Len(q) = j - i /\ q \in Seq(Values)
  BY BufferFields DEF Streams
<1>2. i + 1 \in Nat \ {0} /\ i + 1 <= j + 1 /\ j - (i + 1) + 1 = j - i
      /\ \A k \in Int : (i + 1) + k - 1 = i + k
  BY <1>1
<1>3. r = SubSeq(b.buffer, i + 1, j)
  BY DEF Stream!Readable
<1> HIDE DEF i, j
<1>4. /\ SubSeq(b.buffer, i + 1, j) \in Seq(Cells) /\ Len(SubSeq(b.buffer, i + 1, j)) = j - (i + 1) + 1
      /\ \A k \in 1 .. j - (i + 1) + 1 : SubSeq(b.buffer, i + 1, j)[k] = b.buffer[(i + 1) + k - 1]
  BY <1>1, <1>2, SubSequence
<1>5. q \in Seq(Cells)
  BY <1>1 DEF Cells
<1> HIDE DEF r
<1>6. r \in Seq(Cells) /\ Len(r) = Len(q)
  BY <1>1, <1>2, <1>3, <1>4
<1>7. ASSUME NEW k \in 1 .. Len(q) PROVE r[k] = q[k]
  <2>1. k \in 1 .. j - (i + 1) + 1 /\ (i + 1) + k - 1 = i + k
    BY <1>1, <1>2
  <2>2. r[k] = b.buffer[i + k]
    BY <1>3, <1>4, <2>1
  <2>3. QED
    BY <2>2 DEF Streams, i
<1>8. r = q
  BY <1>5, <1>6, <1>7, EqualSequences
<1>9. QED
  BY <1>8 DEF r

(* Streams in terms of the buffer's fields, to and fro. *)
StreamParts(b, q, m, r, w, l, n) ==
  /\ m \in Seq(Cells) /\ r \in Nat /\ w \in Nat /\ l \in Nat /\ n \in Nat
  /\ b = [buffer |-> m, readPos |-> r, writePos |-> w]
  /\ l = Len(m) /\ n = Len(q) /\ q \in Seq(Values)
  /\ r <= w /\ w <= l /\ n = w - r
  /\ \A k \in 1 .. n : m[r + k] = q[k]

LEMMA StreamsAre ==
  ASSUME NEW b, NEW q, Streams(b, q)
  PROVE  \E m \in Seq(Cells), r, w, l, n \in Nat : StreamParts(b, q, m, r, w, l, n)
<1>1. b.buffer \in Seq(Cells) /\ b.readPos \in Nat /\ b.writePos \in Nat
      /\ Len(b.buffer) \in Nat /\ Len(q) \in Nat
  BY BufferFields
<1>2. /\ b = [buffer |-> b.buffer, readPos |-> b.readPos, writePos |-> b.writePos]
      /\ q \in Seq(Values) /\ b.readPos <= b.writePos /\ b.writePos <= Len(b.buffer)
      /\ Len(q) = b.writePos - b.readPos
      /\ \A k \in 1 .. Len(q) : b.buffer[b.readPos + k] = q[k]
  BY BufferFields DEF Streams
<1>3. StreamParts(b, q, b.buffer, b.readPos, b.writePos, Len(b.buffer), Len(q))
  BY <1>1, <1>2 DEF StreamParts
<1>4. QED
  BY <1>1, <1>3

LEMMA AreStreams ==
  ASSUME NEW m \in Seq(Cells), NEW r \in Nat, NEW w \in Nat, NEW t \in Seq(Values),
         r <= w, w <= Len(m), Len(t) = w - r, \A k \in 1 .. Len(t) : m[r + k] = t[k],
         NEW b, b = [buffer |-> m, readPos |-> r, writePos |-> w]
  PROVE  Streams(b, t)
<1>1. b.buffer = m /\ b.readPos = r /\ b.writePos = w /\ b \in Buffers
  BY DEF Buffers
<1>2. QED
  BY <1>1 DEF Streams

(* Bytes written behind what is to be read come after it. *)
LEMMA FilledStreams ==
  ASSUME NEW b, NEW q, Streams(b, q), NEW s \in Seq(Values), b.writePos + Len(s) <= Len(b.buffer), NEW c,
         c = Stream!HasWritten([b EXCEPT !.buffer = Stream!Overwritten(@, b.writePos, s)], Len(s))
  PROVE  Streams(c, q \o s)
<1>0. PICK m \in Seq(Cells), r \in Nat, w \in Nat, l \in Nat, n \in Nat : StreamParts(b, q, m, r, w, l, n)
  BY StreamsAre
<1>1. /\ m \in Seq(Cells) /\ r \in Nat /\ w \in Nat /\ l \in Nat /\ n \in Nat
      /\ b = [buffer |-> m, readPos |-> r, writePos |-> w]
      /\ l = Len(m) /\ n = Len(q) /\ q \in Seq(Values)
      /\ r <= w /\ w <= l /\ n = w - r
      /\ \A k \in 1 .. n : m[r + k] = q[k]
  BY <1>0 DEF StreamParts
<1> DEFINE o == Stream!Overwritten(m, w, s)
           t == q \o s
           f == Len(s)
<1>2. f \in Nat /\ f = Len(s) /\ w + f <= l /\ s \in Seq(Cells)
  BY <1>1 DEF Cells
<1>3. o = Stream!Overwritten(m, w, s) /\ t = q \o s
  OBVIOUS
<1>4. c = [buffer |-> o, readPos |-> r, writePos |-> w + f]
  BY <1>1 DEF Stream!HasWritten
<1> HIDE DEF o, t, f
<1>5. o \in Seq(Cells) /\ Len(o) = l
      /\ \A i \in 1 .. l : o[i] = IF w < i /\ i <= w + f THEN s[i - w] ELSE m[i]
  BY <1>1, <1>2, <1>3, OverwrittenIs
<1>6. t \in Seq(Values) /\ Len(t) = n + f
      /\ \A k \in 1 .. n + f : t[k] = IF k <= n THEN q[k] ELSE s[k - n]
  <2>1. /\ q \o s \in Seq(Values) /\ Len(q \o s) = Len(q) + Len(s)
        /\ \A k \in 1 .. Len(q) + Len(s) : (q \o s)[k] = IF k <= Len(q) THEN q[k] ELSE s[k - Len(q)]
    <3>1. q \in Seq(Values)
      BY <1>1
    <3>2. QED
      BY <3>1, Joined
  <2>2. QED
    BY <1>1, <1>2, <1>3, <2>1
<1>7. ASSUME NEW k \in 1 .. n + f PROVE o[r + k] = t[k]
  <2>1. PICK i \in 1 .. l : i = r + k /\ i - w = k - n /\ (w < i <=> n < k) /\ i <= w + f
    BY <1>1, <1>2
  <2>2. o[i] = IF n < k THEN s[k - n] ELSE m[r + k]
    BY <1>5, <2>1
  <2>3. CASE k <= n
    <3>1. t[k] = q[k]
      BY <1>6, <2>3
    <3>2. m[r + k] = q[k] /\ ~(n < k)
      BY <1>1, <2>3
    <3>3. QED
      BY <2>1, <2>2, <3>1, <3>2
  <2>4. CASE n < k
    BY <1>1, <1>6, <2>1, <2>2, <2>4
  <2>5. QED
    BY <1>1, <2>3, <2>4
<1>8. w + f \in Nat /\ r <= w + f /\ w + f <= Len(o) /\ Len(t) = (w + f) - r
  BY <1>1, <1>2, <1>5, <1>6
<1>9. Streams(c, t)
  <2>1. \A k \in 1 .. Len(t) : o[r + k] = t[k]
    BY <1>6, <1>7
  <2>2. r \in Nat /\ o \in Seq(Cells) /\ t \in Seq(Values)
    BY <1>1, <1>5, <1>6
  <2>3. QED
    BY <1>4, <1>8, <2>1, <2>2, AreStreams
<1>10. QED
  BY <1>3, <1>9

(* Growing or moving what is to be read makes room for len bytes. *)
LEMMA MakeSpaceStreams ==
  ASSUME NEW b, NEW q, Streams(b, q), NEW len \in Nat, Stream!WritableBytes(b) < len,
         NEW c, c = Stream!MakeSpace_(b, len)
  PROVE  Streams(c, q) /\ c.writePos + len <= Len(c.buffer)
<1>0. PICK m \in Seq(Cells), r \in Nat, w \in Nat, l \in Nat, n \in Nat : StreamParts(b, q, m, r, w, l, n)
  BY StreamsAre
<1>1. /\ m \in Seq(Cells) /\ r \in Nat /\ w \in Nat /\ l \in Nat /\ n \in Nat
      /\ b = [buffer |-> m, readPos |-> r, writePos |-> w]
      /\ l = Len(m) /\ n = Len(q) /\ q \in Seq(Values)
      /\ r <= w /\ w <= l /\ n = w - r
      /\ \A k \in 1 .. n : m[r + k] = q[k]
  BY <1>0 DEF StreamParts
<1>2. b.buffer = m /\ b.readPos = r /\ b.writePos = w /\ l - w < len
  BY <1>1 DEF Stream!WritableBytes
<1>3. CASE l - w + r < len
  <2> DEFINE f == w + len + 1 - l
             z == Stream!Zeros(f)
             o == m \o z
  <2>1. f \in Nat /\ l + f = w + len + 1
    <3>1. w \in Nat /\ l \in Nat /\ w <= l
      BY <1>1
    <3>2. QED
      BY <1>2, <3>1
  <2>2. z \in Seq(Cells) /\ Len(z) = f
    BY <2>1, ZerosAre
  <2>3. c = [b EXCEPT !.buffer = @ \o Stream!Zeros(w + len + 1 - Len(@))]
    BY <1>1, <1>2, <1>3 DEF Stream!MakeSpace_, Stream!WritableBytes, Stream!PrependableBytes
  <2>4. c = [buffer |-> o, readPos |-> r, writePos |-> w]
    BY <1>1, <2>3
  <2>5. o = m \o z
    OBVIOUS
  <2> HIDE DEF f, z, o
  <2>6. o \in Seq(Cells) /\ Len(o) = l + f
        /\ \A k \in 1 .. l + f : o[k] = IF k <= l THEN m[k] ELSE z[k - l]
    <3>1. /\ m \o z \in Seq(Cells) /\ Len(m \o z) = Len(m) + Len(z)
          /\ \A k \in 1 .. Len(m) + Len(z) : (m \o z)[k] = IF k <= Len(m) THEN m[k] ELSE z[k - Len(m)]
      BY <2>2, Joined
    <3>2. QED
      BY <1>1, <2>2, <2>5, <3>1
  <2>7. ASSUME NEW k \in 1 .. n PROVE o[r + k] = q[k]
    <3>1. r + k \in 1 .. l + f /\ r + k <= l
      BY <1>1, <2>1
    <3>2. QED
      BY <1>1, <2>6, <3>1
  <2>8. w <= Len(o) /\ w + len <= Len(o)
    BY <1>1, <2>1, <2>6
  <2>9. c.writePos = w /\ c.buffer = o
    BY <2>4
  <2>10. QED
    <3>1. \A k \in 1 .. Len(q) : o[r + k] = q[k]
      BY <1>1, <2>7
    <3>2. r <= w /\ w <= Len(o) /\ Len(q) = w - r /\ q \in Seq(Values)
      BY <1>1, <2>8
    <3>3. Streams(c, q)
      BY <2>4, <2>6, <3>1, <3>2, AreStreams
    <3>4. QED
      BY <2>8, <2>9, <3>3
<1>4. CASE ~(l - w + r < len)
  <2> DEFINE o == Stream!Overwritten(m, 0, q)
  <2>1. Stream!Readable(b) = q /\ Stream!ReadableBytes(b) = n
    BY <1>1, <1>2, ReadableIs DEF Stream!ReadableBytes
  <2>2. c = [buffer |-> o, readPos |-> 0, writePos |-> n]
    BY <1>1, <1>2, <1>4, <2>1 DEF Stream!MakeSpace_, Stream!WritableBytes, Stream!PrependableBytes
  <2>3. q \in Seq(Cells) /\ 0 + n <= l /\ n + len <= l
    BY <1>1, <1>4 DEF Cells
  <2>4. o = Stream!Overwritten(m, 0, q)
    OBVIOUS
  <2> HIDE DEF o
  <2>5. o \in Seq(Cells) /\ Len(o) = l
        /\ \A i \in 1 .. l : o[i] = IF 0 < i /\ i <= 0 + n THEN q[i - 0] ELSE m[i]
    <3>1. 0 \in Nat /\ 0 + Len(q) <= Len(m)
      BY <1>1, <2>3
    <3>2. /\ Stream!Overwritten(m, 0, q) \in Seq(Cells)
          /\ Len(Stream!Overwritten(m, 0, q)) = Len(m)
          /\ \A i \in 1 .. Len(m) : Stream!Overwritten(m, 0, q)[i] =
               IF 0 < i /\ i <= 0 + Len(q) THEN q[i - 0] ELSE m[i]
      BY <2>3, <3>1, OverwrittenIs
    <3>3. QED
      BY <1>1, <2>4, <3>2
  <2>6. ASSUME NEW k \in 1 .. n PROVE o[0 + k] = q[k]
    <3>1. k \in 1 .. l /\ 0 < k /\ k <= 0 + n /\ k - 0 = k /\ 0 + k = k
      BY <1>1, <2>3
    <3>2. QED
      BY <2>5, <3>1
  <2>7. c.writePos = n /\ c.buffer = o /\ 0 <= n /\ n <= Len(o) /\ n = n - 0
    BY <1>1, <2>2, <2>3, <2>5
  <2>8. Streams(c, q)
    <3>1. q \in Seq(Values) /\ Len(q) = n - 0 /\ \A k \in 1 .. Len(q) : o[0 + k] = q[k]
      BY <1>1, <2>6
    <3>2. o \in Seq(Cells) /\ 0 \in Nat /\ n \in Nat /\ 0 <= n /\ n <= Len(o)
      BY <1>1, <2>5, <2>7
    <3>3. QED
      BY <2>2, <3>1, <3>2, AreStreams
  <2>9. QED
    BY <2>3, <2>5, <2>7, <2>8
<1>5. QED
  BY <1>3, <1>4

(* There is the room that was asked for, and nothing was lost. *)
LEMMA EnsureStreams ==
  ASSUME NEW b, NEW q, Streams(b, q), NEW len \in Nat, NEW c, c = Stream!EnsureWritable(b, len)
  PROVE  Streams(c, q) /\ c.writePos + len <= Len(c.buffer) /\ Stream!WritableBytes(c) >= len
<1>1. b.writePos \in Nat /\ Len(b.buffer) \in Nat
  BY BufferFields
<1>2. Streams(c, q) /\ c.writePos + len <= Len(c.buffer)
  BY <1>1, MakeSpaceStreams DEF Stream!EnsureWritable, Stream!WritableBytes
<1>3. c.writePos \in Nat /\ Len(c.buffer) \in Nat
  BY <1>2, BufferFields
<1>4. QED
  BY <1>2, <1>3 DEF Stream!WritableBytes

LEMMA AppendedStreams ==
  ASSUME NEW b, NEW q, Streams(b, q), NEW s \in Seq(Values), NEW c, c = Stream!Appended(b, s)
  PROVE  Streams(c, q \o s)
<1> DEFINE d == Stream!EnsureWritable(b, Len(s))
<1>1. Len(s) \in Nat
  OBVIOUS
<1>2. Streams(d, q) /\ d.writePos + Len(s) <= Len(d.buffer)
  BY <1>1, EnsureStreams
<1>3. c = Stream!HasWritten([d EXCEPT !.buffer = Stream!Overwritten(@, d.writePos, s)], Len(s))
  BY DEF Stream!Appended
<1> HIDE DEF d
<1>4. QED
  BY <1>2, <1>3, FilledStreams

(* Retrieving drops the oldest. *)
LEMMA RetrievedStreams ==
  ASSUME NEW b, NEW q, Streams(b, q), NEW len \in Nat, len <= Stream!ReadableBytes(b),
         NEW c, c = Stream!Retrieved(b, len)
  PROVE  Streams(c, SubSeq(q, len + 1, Len(q)))
<1>0. PICK m \in Seq(Cells), r \in Nat, w \in Nat, l \in Nat, n \in Nat : StreamParts(b, q, m, r, w, l, n)
  BY StreamsAre
<1>1. /\ m \in Seq(Cells) /\ r \in Nat /\ w \in Nat /\ l \in Nat /\ n \in Nat
      /\ b = [buffer |-> m, readPos |-> r, writePos |-> w]
      /\ l = Len(m) /\ n = Len(q) /\ q \in Seq(Values)
      /\ r <= w /\ w <= l /\ n = w - r
      /\ \A k \in 1 .. n : m[r + k] = q[k]
  BY <1>0 DEF StreamParts
<1>2. len <= n /\ c = [buffer |-> m, readPos |-> r + len, writePos |-> w]
  BY <1>1 DEF Stream!ReadableBytes, Stream!Retrieved
<1>3. len + 1 \in Nat \ {0} /\ len + 1 <= n + 1 /\ n - (len + 1) + 1 = n - len /\ n <= Len(q)
  BY <1>1, <1>2
<1>4. PICK t : t = SubSeq(q, len + 1, n)
  OBVIOUS
<1>5. t \in Seq(Values) /\ Len(t) = n - (len + 1) + 1
      /\ \A k \in 1 .. n - (len + 1) + 1 : t[k] = q[(len + 1) + k - 1]
  <2>1. /\ SubSeq(q, len + 1, n) \in Seq(Values) /\ Len(SubSeq(q, len + 1, n)) = n - (len + 1) + 1
        /\ \A k \in 1 .. n - (len + 1) + 1 : SubSeq(q, len + 1, n)[k] = q[(len + 1) + k - 1]
    <3>1. q \in Seq(Values) /\ n \in Nat
      BY <1>1
    <3>2. QED
      BY <1>3, <3>1, SubSequence
  <2>2. QED
    BY <1>4, <2>1
<1>6. ASSUME NEW k \in 1 .. Len(t) PROVE m[(r + len) + k] = t[k]
  <2>1. k \in 1 .. n - (len + 1) + 1 /\ (len + 1) + k - 1 = len + k /\ len + k \in 1 .. n
        /\ r + (len + k) = (r + len) + k
    <3>1. k \in 1 .. n - (len + 1) + 1
      BY <1>5
    <3>2. r \in Nat /\ n \in Nat /\ len \in Nat /\ len <= n
      BY <1>1, <1>2
    <3>3. QED
      BY <3>1, <3>2
  <2>2. m[r + (len + k)] = q[len + k]
    BY <1>1, <2>1
  <2>3. t[k] = q[len + k]
    BY <1>5, <2>1
  <2>4. QED
    BY <2>1, <2>2, <2>3
<1>7. r + len \in Nat /\ r + len <= w /\ w <= Len(m) /\ Len(t) = w - (r + len)
  BY <1>1, <1>2, <1>3, <1>5
<1>8. Streams(c, t)
  BY <1>1, <1>2, <1>5, <1>6, <1>7, AreStreams
<1>9. QED
  BY <1>1, <1>4, <1>8

(* Concatenation is associative, and undoes a cut. *)
LEMMA JoinedAgain ==
  ASSUME NEW S, NEW s \in Seq(S), NEW t \in Seq(S), NEW u \in Seq(S)
  PROVE  (s \o t) \o u = s \o (t \o u)
<1>1. PICK a \in Nat, b \in Nat, c \in Nat : a = Len(s) /\ b = Len(t) /\ c = Len(u)
  OBVIOUS
<1>2. PICK x : x = s \o t
  OBVIOUS
<1>3. PICK y : y = t \o u
  OBVIOUS
<1>4. x \in Seq(S) /\ Len(x) = a + b /\ \A k \in 1 .. a + b : x[k] = IF k <= a THEN s[k] ELSE t[k - a]
  BY <1>1, <1>2, Joined
<1>5. y \in Seq(S) /\ Len(y) = b + c /\ \A k \in 1 .. b + c : y[k] = IF k <= b THEN t[k] ELSE u[k - b]
  BY <1>1, <1>3, Joined
<1>6. PICK v : v = x \o u
  OBVIOUS
<1>7. PICK z : z = s \o y
  OBVIOUS
<1>8. v \in Seq(S) /\ Len(v) = (a + b) + c
      /\ \A k \in 1 .. (a + b) + c : v[k] = IF k <= a + b THEN x[k] ELSE u[k - (a + b)]
  <2>1. /\ x \o u \in Seq(S) /\ Len(x \o u) = Len(x) + Len(u)
        /\ \A k \in 1 .. Len(x) + Len(u) : (x \o u)[k] = IF k <= Len(x) THEN x[k] ELSE u[k - Len(x)]
    BY <1>4, Joined
  <2>2. QED
    BY <1>1, <1>4, <1>6, <2>1
<1>9. z \in Seq(S) /\ Len(z) = a + (b + c)
      /\ \A k \in 1 .. a + (b + c) : z[k] = IF k <= a THEN s[k] ELSE y[k - a]
  <2>1. /\ s \o y \in Seq(S) /\ Len(s \o y) = Len(s) + Len(y)
        /\ \A k \in 1 .. Len(s) + Len(y) : (s \o y)[k] = IF k <= Len(s) THEN s[k] ELSE y[k - Len(s)]
    BY <1>5, Joined
  <2>2. QED
    BY <1>1, <1>5, <1>7, <2>1
<1>10. ASSUME NEW k \in 1 .. a + (b + c) PROVE v[k] = z[k]
  <2>1. k \in Int /\ k \in 1 .. (a + b) + c
    BY <1>1
  <2>2. CASE k <= a
    <3>1. k \in 1 .. a + b /\ k <= a + b
      BY <1>1, <2>1, <2>2
    <3>2. QED
      BY <1>4, <1>8, <1>9, <2>1, <2>2, <3>1
  <2>3. CASE a < k /\ k <= a + b
    <3>1. k \in 1 .. a + b /\ k - a \in 1 .. b + c /\ k - a <= b /\ ~(k <= a)
      BY <1>1, <2>1, <2>3
    <3>2. QED
      BY <1>4, <1>5, <1>8, <1>9, <2>1, <2>3, <3>1
  <2>4. CASE a + b < k
    <3>1. k - a \in 1 .. b + c /\ ~(k - a <= b) /\ ~(k <= a) /\ ~(k <= a + b)
          /\ (k - a) - b = k - (a + b)
      BY <1>1, <2>1, <2>4
    <3>2. QED
      BY <1>5, <1>8, <1>9, <2>1, <3>1
  <2>5. QED
    BY <1>1, <2>1, <2>2, <2>3, <2>4
<1>11. v = z
  <2>1. Len(v) = Len(z) /\ Len(v) = a + (b + c)
    BY <1>1, <1>8, <1>9
  <2>2. QED
    BY <1>8, <1>9, <1>10, <2>1, EqualSequences
<1>12. QED
  BY <1>2, <1>3, <1>6, <1>7, <1>11

LEMMA SplitAndJoined ==
  ASSUME NEW S, NEW s \in Seq(S), NEW w \in Nat, w <= Len(s)
  PROVE  /\ SubSeq(s, 1, w) \in Seq(S) /\ Len(SubSeq(s, 1, w)) = w
         /\ SubSeq(s, w + 1, Len(s)) \in Seq(S)
         /\ SubSeq(s, 1, w) \o SubSeq(s, w + 1, Len(s)) = s
<1>1. PICK n \in Nat : n = Len(s)
  OBVIOUS
<1>2. PICK x : x = SubSeq(s, 1, w)
  OBVIOUS
<1>3. PICK y : y = SubSeq(s, w + 1, n)
  OBVIOUS
<1>4. /\ w + 1 \in Nat \ {0} /\ w + 1 <= n + 1 /\ n <= Len(s) /\ n - (w + 1) + 1 = n - w
      /\ 1 \in Nat \ {0} /\ 1 <= w + 1 /\ w - 1 + 1 = w /\ w + (n - w) = n
  BY <1>1
<1>5. x \in Seq(S) /\ Len(x) = w - 1 + 1 /\ \A k \in 1 .. w - 1 + 1 : x[k] = s[1 + k - 1]
  BY <1>1, <1>2, <1>4, SubSequence
<1>6. y \in Seq(S) /\ Len(y) = n - (w + 1) + 1
      /\ \A k \in 1 .. n - (w + 1) + 1 : y[k] = s[(w + 1) + k - 1]
  BY <1>1, <1>3, <1>4, SubSequence
<1>7. PICK v : v = x \o y
  OBVIOUS
<1>8. v \in Seq(S) /\ Len(v) = w + (n - w)
      /\ \A k \in 1 .. w + (n - w) : v[k] = IF k <= w THEN x[k] ELSE y[k - w]
  <2>1. Len(x) = w /\ Len(y) = n - w
    BY <1>4, <1>5, <1>6
  <2>2. /\ x \o y \in Seq(S) /\ Len(x \o y) = Len(x) + Len(y)
        /\ \A k \in 1 .. Len(x) + Len(y) : (x \o y)[k] = IF k <= Len(x) THEN x[k] ELSE y[k - Len(x)]
    BY <1>5, <1>6, Joined
  <2>3. QED
    BY <1>7, <2>1, <2>2
<1>9. ASSUME NEW k \in 1 .. n PROVE v[k] = s[k]
  <2>1. k \in Int /\ k \in 1 .. w + (n - w)
    BY <1>1, <1>4
  <2>2. CASE k <= w
    <3>1. k \in 1 .. w - 1 + 1 /\ 1 + k - 1 = k
      BY <1>1, <2>1, <2>2
    <3>2. QED
      BY <1>5, <1>8, <2>1, <2>2, <3>1
  <2>3. CASE w < k
    <3>1. k - w \in 1 .. n - (w + 1) + 1 /\ (w + 1) + (k - w) - 1 = k /\ ~(k <= w)
      BY <1>1, <2>1, <2>3
    <3>2. QED
      BY <1>6, <1>8, <2>1, <3>1
  <2>4. QED
    BY <2>1, <2>2, <2>3
<1>10. v = s
  BY <1>1, <1>4, <1>8, <1>9, EqualSequences
<1>11. QED
  BY <1>1, <1>2, <1>3, <1>4, <1>5, <1>6, <1>7, <1>10

(* The array on the stack comes after what fitted into the buffer. *)
LEMMA ReadIntoStreams ==
  ASSUME NEW b, NEW q, Streams(b, q), NEW s \in Seq(Values), NEW c, c = Stream!ReadInto(b, s)
  PROVE  Streams(c, q \o s)
<1> DEFINE Filled(here) ==
             Stream!HasWritten([b EXCEPT !.buffer = Stream!Overwritten(@, b.writePos, here)], Len(here))
<1>1. b.writePos \in Nat /\ Len(b.buffer) \in Nat /\ b.writePos <= Len(b.buffer) /\ q \in Seq(Values)
  BY BufferFields DEF Streams
<1>2. PICK w \in Nat : w = Stream!WritableBytes(b) /\ b.writePos + w = Len(b.buffer)
  BY <1>1 DEF Stream!WritableBytes
<1>3. PICK n \in Nat : n = Len(s)
  OBVIOUS
<1>4. CASE n <= w
  <2>1. c = Filled(s)
    BY <1>2, <1>3, <1>4 DEF Stream!ReadInto
  <2>2. b.writePos + Len(s) <= Len(b.buffer)
    BY <1>1, <1>2, <1>3, <1>4
  <2>3. QED
    BY <2>1, <2>2, FilledStreams
<1>5. CASE w < n
  <2>1. PICK here : here = SubSeq(s, 1, w)
    OBVIOUS
  <2>2. PICK rest : rest = SubSeq(s, w + 1, Len(s))
    OBVIOUS
  <2>3. here \in Seq(Values) /\ Len(here) = w /\ rest \in Seq(Values) /\ here \o rest = s
    <3>1. w <= Len(s)
      BY <1>3, <1>5
    <3>2. /\ SubSeq(s, 1, w) \in Seq(Values) /\ Len(SubSeq(s, 1, w)) = w
          /\ SubSeq(s, w + 1, Len(s)) \in Seq(Values)
          /\ SubSeq(s, 1, w) \o SubSeq(s, w + 1, Len(s)) = s
      BY <3>1, SplitAndJoined
    <3>3. QED
      BY <2>1, <2>2, <3>2
  <2>4. c = Stream!Appended(Filled(here), rest)
    <3>1. ~(Len(s) <= Stream!WritableBytes(b))
      BY <1>2, <1>3, <1>5
    <3>2. QED
      BY <1>2, <2>1, <2>2, <3>1 DEF Stream!ReadInto
  <2>5. Streams(Filled(here), q \o here)
    <3>1. b.writePos + Len(here) <= Len(b.buffer)
      BY <1>1, <1>2, <2>3
    <3>2. QED
      BY <2>3, <3>1, FilledStreams
  <2> HIDE DEF Filled
  <2>6. Streams(c, (q \o here) \o rest)
    BY <2>3, <2>4, <2>5, AppendedStreams
  <2>7. q \in Seq(Values) /\ here \in Seq(Values) /\ rest \in Seq(Values)
    BY <1>1, <2>3
  <2>8. (q \o here) \o rest = q \o (here \o rest)
    BY <2>7, JoinedAgain
  <2>9. QED
    BY <2>3, <2>6, <2>8
<1>6. QED
  BY <1>2, <1>3, <1>4, <1>5

(* The inductive invariant of the buffer. *)
StreamInv == Streams(rep, items)

LEMMA StreamStart == Stream!Init => StreamInv
<1> SUFFICES ASSUME Stream!Init PROVE StreamInv
  OBVIOUS
<1>1. rep = [buffer |-> Stream!Zeros(InitSize), readPos |-> 0, writePos |-> 0] /\ items = <<>>
  BY DEF Stream!Init
<1>2. Stream!Zeros(InitSize) \in Seq(Cells) /\ Len(Stream!Zeros(InitSize)) \in Nat
  BY ZerosAre, StreamConstants
<1>3. QED
  BY <1>1, <1>2 DEF StreamInv, Streams, Buffers

LEMMA StreamStep == StreamInv /\ Stream!Next => StreamInv'
<1> SUFFICES ASSUME StreamInv, Stream!Next PROVE StreamInv'
  OBVIOUS
<1>1. Streams(rep, items)
  BY DEF StreamInv
<1>2. \A n \in 0 .. MaxAppend : \A s \in [1 .. n -> Values] : s \in Seq(Values)
  BY StreamConstants
<1>3. ASSUME NEW s \in Seq(Values), Stream!Append_(s) PROVE StreamInv'
  BY <1>1, <1>3, AppendedStreams DEF Stream!Append_, StreamInv
<1>4. ASSUME NEW s \in Seq(Values), Stream!WriteInPlace(s) PROVE StreamInv'
  <2>1. rep.writePos + Len(s) <= Len(rep.buffer)
    <3>1. rep.writePos \in Nat /\ Len(rep.buffer) \in Nat /\ Len(s) \in Nat
      BY <1>1, BufferFields
    <3>2. QED
      BY <1>4, <3>1 DEF Stream!WriteInPlace, Stream!WritableBytes
  <2>2. QED
    BY <1>1, <1>4, <2>1, FilledStreams DEF Stream!WriteInPlace, StreamInv
<1>5. ASSUME NEW s \in Seq(Values), Stream!ReadFd(s) PROVE StreamInv'
  BY <1>1, <1>5, ReadIntoStreams DEF Stream!ReadFd, StreamInv
<1>6. ASSUME NEW len \in Nat, Stream!Reserve(len) PROVE StreamInv'
  BY <1>1, <1>6, EnsureStreams DEF Stream!Reserve, StreamInv
<1>7. ASSUME NEW len \in Nat, Stream!Retrieve(len) \/ Stream!WriteFd(len) PROVE StreamInv'
  BY <1>1, <1>7, RetrievedStreams DEF Stream!Retrieve, Stream!WriteFd, StreamInv
<1>8. ASSUME Stream!RetrieveAll PROVE StreamInv'
  <2>1. Len(rep.buffer) \in Nat
    BY <1>1, BufferFields
  <2>2. Stream!Zeros(Len(rep.buffer)) \in Seq(Cells) /\ Len(Stream!Zeros(Len(rep.buffer))) \in Nat
    BY <2>1, ZerosAre
  <2>3. rep' = [buffer |-> Stream!Zeros(Len(rep.buffer)), readPos |-> 0, writePos |-> 0] /\ items' = <<>>
    BY <1>8 DEF Stream!RetrieveAll
  <2>4. QED
    BY <2>2, <2>3 DEF StreamInv, Streams, Buffers
<1>9. 0 .. MaxAppend \subseteq Nat
  BY StreamConstants
<1>10. QED
  BY <1>2, <1>3, <1>4, <1>5, <1>6, <1>7, <1>8, <1>9 DEF Stream!Next

LEMMA StreamIsStream == StreamInv => Stream!IsStream
<1> SUFFICES ASSUME StreamInv PROVE Stream!IsStream
  OBVIOUS
<1>1. Streams(rep, items)
  BY DEF StreamInv
<1>2. rep.readPos \in Nat /\ 0 <= rep.readPos /\ rep.readPos <= rep.writePos
      /\ rep.writePos <= Len(rep.buffer)
  BY <1>1, BufferFields
<1>3. Stream!Readable(rep) = items
  BY <1>1, ReadableIs
<1>4. \A len \in 0 .. MaxAppend : Stream!WritableBytes(Stream!EnsureWritable(rep, len)) >= len
  <2>1. 0 .. MaxAppend \subseteq Nat
    BY StreamConstants
  <2>2. QED
    BY <1>1, <2>1, EnsureStreams
<1>5. QED
  BY <1>2, <1>3, <1>4 DEF Stream!IsStream

-----------------------------------------------------------------------------
(* The heap. *)

(* Induction up to n over the set of those for which something holds. *)
LEMMA UpTo ==
  ASSUME NEW n \in Nat, NEW G, 0 \in G, \A k \in 1 .. n : k - 1 \in G => k \in G
  PROVE  \A k \in 0 .. n : k \in G
<1> DEFINE Bad == {k \in 0 .. n : k \notin G}
<1>1. SUFFICES ASSUME Bad # {} PROVE FALSE
  OBVIOUS
<1>2. Bad \in SUBSET Nat
  OBVIOUS
<1> HIDE DEF Bad
<1>3. PICK m \in Bad : \A k \in Bad : m <= k
  BY <1>1, <1>2, LeastNatural
<1>4. m \in 0 .. n /\ m \notin G
  BY <1>3 DEF Bad
<1>5. m - 1 \in 0 .. n /\ m \in 1 .. n
  BY <1>4
<1>6. m - 1 \notin Bad
  BY <1>3, <1>5
<1>7. QED
  BY <1>4, <1>5, <1>6 DEF Bad

(* f is what n turns of the loop with the body F make of x. *)
Runs(f, n, x, F) == f[0] = x /\ \A k \in 1 .. n : f[k] = F[<<k, f[k - 1]>>]

(* The turns of a loop whose body stays in S exist. *)
LEMMA TurnsExist ==
  ASSUME NEW n \in Nat, NEW S, NEW x \in S, NEW F, \A k \in 1 .. n : \A h \in S : F[<<k, h>>] \in S
  PROVE  \E f \in [0 .. n -> S] : Runs(f, n, x, F)
<1> DEFINE T(f, m) == f \in [0 .. m -> S] /\ f[0] = x /\ \A k \in 1 .. m : f[k] = F[<<k, f[k - 1]>>]
           G == {m \in 0 .. n : \E f : T(f, m)}
<1>1. 0 \in G
  <2>1. T([k \in 0 .. 0 |-> x], 0)
    OBVIOUS
  <2> HIDE DEF T
  <2>2. \E f : T(f, 0)
    BY <2>1
  <2>3. QED
    BY <2>2
<1>2. ASSUME NEW m \in 1 .. n, m - 1 \in G PROVE m \in G
  <2>1. PICK f : T(f, m - 1)
    BY <1>2
  <2> DEFINE g == [k \in 0 .. m |-> IF k = m THEN F[<<m, f[m - 1]>>] ELSE f[k]]
  <2>2. f[m - 1] \in S /\ F[<<m, f[m - 1]>>] \in S
    BY <2>1
  <2>3. g \in [0 .. m -> S]
    BY <2>1, <2>2
  <2>4. ASSUME NEW k \in 1 .. m PROVE g[k] = F[<<k, g[k - 1]>>]
    <3>1. \A l \in 0 .. m : g[l] = IF l = m THEN F[<<m, f[m - 1]>>] ELSE f[l]
      OBVIOUS
    <3>2. k \in 0 .. m /\ k - 1 \in 0 .. m /\ k - 1 # m
      OBVIOUS
    <3>3. k # m => k \in 1 .. m - 1
      OBVIOUS
    <3>4. k # m => f[k] = F[<<k, f[k - 1]>>]
      BY <2>1, <3>3
    <3> HIDE DEF g, T
    <3>5. g[k - 1] = f[k - 1]
      BY <3>1, <3>2
    <3>6. g[k] = IF k = m THEN F[<<m, f[m - 1]>>] ELSE f[k]
      BY <3>1, <3>2
    <3>7. QED
      BY <3>4, <3>5, <3>6
  <2>5. g[0] = x
    BY <2>1
  <2>6. T(g, m)
    <3> HIDE DEF g
    <3>1. QED
      BY <2>3, <2>4, <2>5
  <2> HIDE DEF T, g
  <2>7. \E h : T(h, m)
    BY <2>6
  <2>8. m \in 0 .. n
    OBVIOUS
  <2>9. QED
    BY <2>7, <2>8
<1> HIDE DEF G
<1>3. n \in G
  BY <1>1, <1>2, UpTo
<1>4. QED
  <2>1. PICK f : T(f, n)
    BY <1>3 DEF G
  <2>2. QED
    BY <2>1 DEF Runs

(* What is known at first of the function a recursive definition chooses. *)
Follows(f, n, S, x, F) ==
  /\ f = [k \in 0 .. n |-> f[k]] /\ f[0] = x
  /\ \A k \in 1 .. n : f[k - 1] \in S => f[k] = F[<<k, f[k - 1]>>]

(* And there is only one such run. *)
LEMMA OnlyRun ==
  ASSUME NEW n \in Nat, NEW S, NEW x, NEW F, NEW g \in [0 .. n -> S], Runs(g, n, x, F),
         NEW f, Follows(f, n, S, x, F)
  PROVE  f \in [0 .. n -> S] /\ Runs(f, n, x, F)
<1>0. f = [k \in 0 .. n |-> f[k]] /\ f[0] = x
      /\ \A k \in 1 .. n : f[k - 1] \in S => f[k] = F[<<k, f[k - 1]>>]
  BY DEF Follows
<1> DEFINE G == {k \in 0 .. n : f[k] = g[k]}
<1>1. 0 \in G
  BY <1>0 DEF Runs
<1>2. ASSUME NEW k \in 1 .. n, k - 1 \in G PROVE k \in G
  <2>1. k \in 0 .. n /\ f[k - 1] = g[k - 1] /\ k - 1 \in 0 .. n
    BY <1>2
  <2>2. f[k] = F[<<k, f[k - 1]>>] /\ g[k] = F[<<k, g[k - 1]>>]
    BY <1>0, <2>1 DEF Runs
  <2>3. QED
    BY <2>1, <2>2
<1> HIDE DEF G
<1>3. \A k \in 0 .. n : k \in G
  BY <1>1, <1>2, UpTo
<1>4. \A k \in 0 .. n : f[k] = g[k]
  BY <1>3 DEF G
<1>5. f = g
  BY <1>0, <1>4
<1>6. QED
  BY <1>5

LEMMA HeapConstants == Numbers \subseteq Int /\ MaxHeap \in Nat
BY QueuesAssumption

Arrays(m) == [1 .. m -> Numbers]
P(i) == PriorityQueue!Parent(i)

LEMMA ParentOf ==
  ASSUME NEW i \in Nat \ {0}
  PROVE  /\ P(i) \in Nat /\ P(i) < i
         /\ i = 2 * P(i) + 1 \/ i = 2 * P(i) + 2
BY DEF P, PriorityQueue!Parent

LEMMA ArrayIs ==
  ASSUME NEW m \in Nat, NEW a \in Arrays(m)
  PROVE  /\ a \in Seq(Numbers) /\ Len(a) = m /\ DOMAIN a = 1 .. m
         /\ \A i \in 0 .. m - 1 : PriorityQueue!At(a, i) = a[i + 1] /\ PriorityQueue!At(a, i) \in Numbers
BY DEF Arrays, PriorityQueue!At

LEMMA SequenceIsArray ==
  ASSUME NEW a \in Seq(Numbers)
  PROVE  Len(a) \in Nat /\ a \in Arrays(Len(a))
BY DEF Arrays

LEMMA SwapIs ==
  ASSUME NEW m \in Nat, NEW a \in Arrays(m), NEW i \in 0 .. m - 1, NEW j \in 0 .. m - 1,
         NEW b, b = PriorityQueue!Swap(a, i, j)
  PROVE  /\ b \in Arrays(m) /\ b[j + 1] = a[i + 1] /\ b[i + 1] = a[j + 1]
         /\ \A k \in 1 .. m : k # i + 1 /\ k # j + 1 => b[k] = a[k]
<1>1. i + 1 \in 1 .. m /\ j + 1 \in 1 .. m /\ (i + 1 = j + 1 <=> i = j)
  OBVIOUS
<1>2. b = [a EXCEPT ![i + 1] = a[j + 1], ![j + 1] = a[i + 1]]
  BY DEF PriorityQueue!Swap, PriorityQueue!At
<1>3. a[i + 1] \in Numbers /\ a[j + 1] \in Numbers
  BY <1>1 DEF Arrays
<1>4. QED
  BY <1>1, <1>2, <1>3 DEF Arrays

(* The values are the same, and those behind the first len where they were. *)
Rearranged(a, b, m, len) ==
  /\ b \in Arrays(m)
  /\ PriorityQueue!Bag(b) = PriorityQueue!Bag(a)
  /\ \A x \in 1 .. len : \E y \in 1 .. len : b[x] = a[y]
  /\ \A x \in len + 1 .. m : b[x] = a[x]

LEMMA RearrangedSelf ==
  ASSUME NEW m \in Nat, NEW a \in Arrays(m), NEW len \in 0 .. m
  PROVE  Rearranged(a, a, m, len)
BY DEF Rearranged

LEMMA RearrangedAgain ==
  ASSUME NEW m \in Nat, NEW len \in 0 .. m, NEW a, NEW b, NEW c,
         Rearranged(a, b, m, len), Rearranged(b, c, m, len)
  PROVE  Rearranged(a, c, m, len)
<1>1. ASSUME NEW x \in 1 .. len PROVE \E y \in 1 .. len : c[x] = a[y]
  <2>1. PICK y \in 1 .. len : c[x] = b[y]
    BY DEF Rearranged
  <2>2. PICK z \in 1 .. len : b[y] = a[z]
    BY DEF Rearranged
  <2>3. QED
    BY <2>1, <2>2
<1>2. QED
  BY <1>1 DEF Rearranged

Where(a, v) == {i \in DOMAIN a : a[i] = v}

LEMMA WhereIsFinite ==
  ASSUME NEW m \in Nat, NEW a \in Arrays(m), NEW v
  PROVE  IsFiniteSet(Where(a, v)) /\ Cardinality(Where(a, v)) \in Nat /\ Where(a, v) \subseteq 1 .. m
<1>1. IsFiniteSet(1 .. m)
  BY FS_Interval
<1>2. Where(a, v) \subseteq 1 .. m
  BY DEF Where, Arrays
<1>3. IsFiniteSet(Where(a, v))
  BY <1>1, <1>2, FS_Subset
<1>4. QED
  BY <1>2, <1>3, FS_CardinalityType

(* The heap's own copy of the definition. *)
LEMMA CardinalityIs == \A S : PriorityQueue!Cardinality(S) = Cardinality(S)
BY DEF PriorityQueue!Cardinality, Cardinality

LEMMA BagIs ==
  ASSUME NEW m \in Nat, NEW a \in Arrays(m)
  PROVE  PriorityQueue!Bag(a) = [v \in Numbers |-> Cardinality(Where(a, v))]
BY CardinalityIs DEF PriorityQueue!Bag, Where

(* Two values that change places are still there. *)
LEMMA SwapKeeps ==
  ASSUME NEW m \in Nat, NEW a \in Arrays(m), NEW i \in 0 .. m - 1, NEW j \in 0 .. m - 1,
         NEW len \in 0 .. m, i < len, j < len
  PROVE  Rearranged(a, PriorityQueue!Swap(a, i, j), m, len)
<1>1. PICK b : b = PriorityQueue!Swap(a, i, j)
  OBVIOUS
<1>2. /\ b \in Arrays(m) /\ b[j + 1] = a[i + 1] /\ b[i + 1] = a[j + 1]
      /\ \A k \in 1 .. m : k # i + 1 /\ k # j + 1 => b[k] = a[k]
  BY <1>1, SwapIs
<1>3. PICK x \in 1 .. len : x = i + 1 /\ x \in 1 .. m
  OBVIOUS
<1>4. PICK y \in 1 .. len : y = j + 1 /\ y \in 1 .. m
  OBVIOUS
<1>5. ASSUME NEW v PROVE Cardinality(Where(b, v)) = Cardinality(Where(a, v))
  <2> DEFINE t == [k \in 1 .. m |-> IF k = x THEN y ELSE IF k = y THEN x ELSE k]
             f == [k \in Where(a, v) |-> t[k]]
  <2>1. DOMAIN a = 1 .. m /\ DOMAIN b = 1 .. m
    BY <1>2 DEF Arrays
  <2>2. \A k \in 1 .. m : t[k] \in 1 .. m /\ t[t[k]] = k /\ b[t[k]] = a[k]
    BY <1>2, <1>3, <1>4
  <2> HIDE DEF t
  <2>3. f \in [Where(a, v) -> Where(b, v)]
    BY <2>1, <2>2 DEF Where
  <2>4. \A k, l \in Where(a, v) : f[k] = f[l] => k = l
    BY <2>1, <2>2 DEF Where
  <2>5. \A l \in Where(b, v) : \E k \in Where(a, v) : f[k] = l
    BY <2>1, <2>2 DEF Where
  <2>6. f \in Bijection(Where(a, v), Where(b, v))
    <3> HIDE DEF f
    <3>1. QED
      BY <2>3, <2>4, <2>5 DEF Bijection, Injection, Surjection, IsInjective
  <2>7. IsFiniteSet(Where(a, v))
    BY WhereIsFinite
  <2> HIDE DEF f
  <2>8. QED
    BY <2>6, <2>7, FS_Bijection DEF ExistsBijection
<1>6. PriorityQueue!Bag(b) = PriorityQueue!Bag(a)
  BY <1>2, <1>5, BagIs
<1>7. ASSUME NEW k \in 1 .. len PROVE \E l \in 1 .. len : b[k] = a[l]
  BY <1>2, <1>3, <1>4
<1>8. ASSUME NEW k \in len + 1 .. m PROVE b[k] = a[k]
  BY <1>2, <1>3, <1>4
<1>9. Rearranged(a, b, m, len)
  BY <1>2, <1>6, <1>7, <1>8 DEF Rearranged
<1>10. QED
  BY <1>1, <1>9

(* Of the first len values, none is larger than its parent, at lo or above. *)
Ordered(a, lo, len) ==
  \A i \in 1 .. len - 1 : P(i) >= lo => a[i + 1] <= a[P(i) + 1]

(* The same but for the value at p, which may be too small for its place. *)
SinksAt(a, lo, len, p) ==
  \A i \in 1 .. len - 1 :
    /\ P(i) >= lo /\ P(i) # p => a[i + 1] <= a[P(i) + 1]
    /\ P(i) = p /\ p # 0 /\ P(p) >= lo => a[i + 1] <= a[P(p) + 1]

(* The same but for the value at c, which may be too large for its place. *)
RisesAt(a, len, c) ==
  \A i \in 1 .. len - 1 :
    /\ i # c => a[i + 1] <= a[P(i) + 1]
    /\ P(i) = c /\ c # 0 => a[i + 1] <= a[P(c) + 1]

(* c is the larger child of p, if it has one. *)
Larger(a, p, len, m, c) ==
  /\ c \in Nat /\ (c = 2 * p + 1 \/ c = 2 * p + 2)
  /\ c >= len => \A i \in 1 .. len - 1 : P(i) # p
  /\ c < len => /\ c \in 1 .. m - 1 /\ P(c) = p /\ p \in 0 .. m - 1
                /\ \A i \in 1 .. len - 1 : P(i) = p => a[i + 1] <= a[c + 1]

(* What LargerChild returns. *)
LEMMA LargerChildIs ==
  ASSUME NEW m \in Nat, NEW a \in Arrays(m), NEW len \in 0 .. m, NEW p \in Nat,
         NEW c, c = PriorityQueue!LargerChild(a, p, len)
  PROVE  Larger(a, p, len, m, c)
<1>1. PICK l \in Nat : l = 2 * p + 1
  OBVIOUS
<1>2. c = IF l + 1 < len /\ a[l + 1] < a[l + 1 + 1] THEN l + 1 ELSE l
  BY <1>1 DEF PriorityQueue!LargerChild, PriorityQueue!At
<1>3. c \in Nat /\ (c = 2 * p + 1 \/ c = 2 * p + 2)
  BY <1>1, <1>2
<1>4. \A i \in 1 .. len - 1 : P(i) = p => i = l \/ i = l + 1
  BY <1>1, ParentOf
<1>5. \A i \in 1 .. m : a[i] \in Int
  BY HeapConstants DEF Arrays
<1>6. ASSUME c >= len, NEW i \in 1 .. len - 1 PROVE P(i) # p
  BY <1>1, <1>2, <1>4, <1>6
<1>7. ASSUME c < len
      PROVE  /\ c \in 1 .. m - 1 /\ P(c) = p /\ p \in 0 .. m - 1
             /\ \A i \in 1 .. len - 1 : P(i) = p => a[i + 1] <= a[c + 1]
  <2>1. c \in 1 .. m - 1 /\ p \in 0 .. m - 1
    BY <1>3, <1>7
  <2>2. P(c) = p
    <3>1. P(c) \in Nat /\ (c = 2 * P(c) + 1 \/ c = 2 * P(c) + 2)
      BY <2>1, ParentOf
    <3>2. QED
      BY <1>3, <3>1
  <2>3. ASSUME NEW i \in 1 .. len - 1, P(i) = p PROVE a[i + 1] <= a[c + 1]
    <3>1. i + 1 \in 1 .. m /\ c + 1 \in 1 .. m
      BY <2>1
    <3>2. a[i + 1] \in Int /\ a[c + 1] \in Int
      BY <1>5, <3>1
    <3>3. CASE i = l
      BY <1>2, <1>5, <1>7, <3>1, <3>2, <3>3
    <3>4. CASE i = l + 1
      <4>1. l + 1 < len /\ l + 1 \in 1 .. m /\ l + 1 + 1 = i + 1
        BY <1>1, <3>4
      <4>2. a[l + 1] \in Int
        BY <1>5, <4>1
      <4>3. QED
        BY <1>2, <3>2, <3>4, <4>1, <4>2
    <3>5. QED
      BY <1>4, <2>3, <3>3, <3>4
  <2>4. QED
    BY <2>1, <2>2, <2>3
<1>8. QED
  BY <1>3, <1>6, <1>7 DEF Larger

(* A turn down moves the place of the value that is too small. *)
LEMMA SunkOnce ==
  ASSUME NEW m \in Nat, NEW a \in Arrays(m), NEW len \in 0 .. m, NEW lo \in Nat,
         NEW p \in Nat, lo <= p, SinksAt(a, lo, len, p),
         NEW c \in 1 .. m - 1, c < len, P(c) = p, a[c + 1] >= a[p + 1], p \in 0 .. m - 1,
         \A i \in 1 .. len - 1 : P(i) = p => a[i + 1] <= a[c + 1],
         NEW b, b = PriorityQueue!Swap(a, c, p)
  PROVE  SinksAt(b, lo, len, c)
<1>1. /\ b \in Arrays(m) /\ b[p + 1] = a[c + 1] /\ b[c + 1] = a[p + 1]
      /\ \A k \in 1 .. m : k # c + 1 /\ k # p + 1 => b[k] = a[k]
  BY SwapIs
<1>2. \A k \in 1 .. m : a[k] \in Int
  BY HeapConstants DEF Arrays
<1>3. p < c /\ c # 0
  BY ParentOf
<1>4. ASSUME NEW i \in 1 .. len - 1, P(i) >= lo, P(i) # c PROVE b[i + 1] <= b[P(i) + 1]
  <2>1. PICK q \in 0 .. m - 1 : q = P(i) /\ q < i
    BY ParentOf
  <2>2. i + 1 \in 1 .. m /\ q + 1 \in 1 .. m /\ p + 1 \in 1 .. m /\ c + 1 \in 1 .. m
    BY <2>1
  <2>3. CASE q = p /\ i = c
    BY <1>1, <2>1, <2>3
  <2>4. CASE q = p /\ i # c
    <3>1. b[i + 1] = a[i + 1]
      BY <1>1, <1>3, <2>1, <2>2, <2>4
    <3>2. a[i + 1] <= a[c + 1]
      BY <2>1, <2>4
    <3>3. QED
      BY <1>1, <2>1, <2>4, <3>1, <3>2
  <2>5. CASE q # p /\ i = p
    <3>1. p # 0 /\ P(p) = q /\ c \in 1 .. len - 1
      BY <2>1, <2>5
    <3>2. a[c + 1] <= a[q + 1]
      BY <1>4, <2>1, <3>1 DEF SinksAt
    <3>3. b[q + 1] = a[q + 1]
      BY <1>1, <1>4, <2>1, <2>2, <2>5
    <3>4. QED
      BY <1>1, <2>1, <2>5, <3>2, <3>3
  <2>6. CASE q # p /\ i # p
    <3>1. i # c
      BY <2>1, <2>6
    <3>2. b[i + 1] = a[i + 1] /\ b[q + 1] = a[q + 1]
      BY <1>1, <1>4, <2>1, <2>2, <2>6, <3>1
    <3>3. a[i + 1] <= a[q + 1]
      BY <1>4, <2>1, <2>6 DEF SinksAt
    <3>4. QED
      BY <2>1, <3>2, <3>3
  <2>7. QED
    BY <2>3, <2>4, <2>5, <2>6
<1>5. ASSUME NEW i \in 1 .. len - 1, P(i) = c, P(c) >= lo PROVE b[i + 1] <= b[P(c) + 1]
  <2>1. i > c /\ i + 1 \in 1 .. m
    BY <1>5, ParentOf
  <2>2. b[i + 1] = a[i + 1]
    BY <1>1, <1>3, <2>1
  <2>3. a[i + 1] <= a[c + 1]
    BY <1>3, <1>5 DEF SinksAt
  <2>4. QED
    BY <1>1, <2>2, <2>3
<1>6. QED
  BY <1>4, <1>5 DEF SinksAt

(* A turn up moves the place of the value that is too large. *)
LEMMA RisenOnce ==
  ASSUME NEW m \in Nat, NEW a \in Arrays(m), NEW c \in 1 .. m - 1, RisesAt(a, m, c),
         NEW p \in 0 .. m - 1, P(c) = p, a[c + 1] >= a[p + 1],
         NEW b, b = PriorityQueue!Swap(a, c, p)
  PROVE  RisesAt(b, m, p)
<1>1. p \in 0 .. m - 1 /\ p < c /\ p + 1 \in 1 .. m /\ c + 1 \in 1 .. m
  BY ParentOf
<1>2. /\ b \in Arrays(m) /\ b[p + 1] = a[c + 1] /\ b[c + 1] = a[p + 1]
      /\ \A k \in 1 .. m : k # c + 1 /\ k # p + 1 => b[k] = a[k]
  <2>1. c \in 0 .. m - 1
    OBVIOUS
  <2>2. QED
    BY <2>1, SwapIs
<1>3. \A k \in 1 .. m : a[k] \in Int
  BY HeapConstants DEF Arrays
<1>4. ASSUME NEW i \in 1 .. m - 1, i # p PROVE b[i + 1] <= b[P(i) + 1]
  <2>1. PICK q \in 0 .. m - 1 : q = P(i) /\ q < i
    BY ParentOf
  <2>2. i + 1 \in 1 .. m /\ q + 1 \in 1 .. m
    BY <2>1
  <2>3. CASE i = c
    BY <1>1, <1>2, <2>1, <2>3
  <2>4. CASE i # c /\ q = p
    <3>0. b[i + 1] = a[i + 1]
      BY <1>2, <1>4, <2>2, <2>4
    <3>1. a[i + 1] <= a[p + 1]
      BY <2>1, <2>4 DEF RisesAt
    <3>2. a[i + 1] \in Int /\ a[p + 1] \in Int /\ a[c + 1] \in Int
      BY <1>1, <1>3, <2>2
    <3>3. QED
      BY <1>2, <2>1, <2>4, <3>0, <3>1, <3>2
  <2>5. CASE i # c /\ q = c
    <3>1. b[i + 1] = a[i + 1]
      BY <1>2, <1>4, <2>2, <2>5
    <3>2. a[i + 1] <= a[p + 1]
      <4>1. c # 0 /\ P(i) = c
        BY <2>1, <2>5
      <4>2. QED
        BY <4>1 DEF RisesAt
    <3>3. QED
      BY <1>2, <2>1, <2>5, <3>1, <3>2
  <2>6. CASE i # c /\ q # p /\ q # c
    <3>1. b[i + 1] = a[i + 1] /\ b[q + 1] = a[q + 1]
      BY <1>2, <1>4, <2>2, <2>6
    <3>2. a[i + 1] <= a[q + 1]
      BY <2>1, <2>6 DEF RisesAt
    <3>3. QED
      BY <2>1, <3>1, <3>2
  <2>7. QED
    BY <2>3, <2>4, <2>5, <2>6
<1>5. ASSUME NEW i \in 1 .. m - 1, P(i) = p, p # 0 PROVE b[i + 1] <= b[P(p) + 1]
  <2>1. PICK q \in 0 .. m - 1 : q = P(p) /\ q < p /\ q + 1 \in 1 .. m
    BY <1>1, <1>5, ParentOf
  <2>2. p < i /\ i + 1 \in 1 .. m
    BY <1>5, ParentOf
  <2>3. b[q + 1] = a[q + 1]
    BY <1>1, <1>2, <2>1
  <2>4. a[p + 1] <= a[q + 1]
    <3>1. p \in 1 .. m - 1 /\ p # c
      BY <1>1, <1>5
    <3>2. QED
      BY <2>1, <3>1 DEF RisesAt
  <2>5. CASE i = c
    BY <1>2, <2>1, <2>3, <2>4, <2>5
  <2>6. CASE i # c
    <3>1. b[i + 1] = a[i + 1]
      BY <1>2, <2>2, <2>6
    <3>2. a[i + 1] <= a[p + 1]
      BY <1>5, <2>6 DEF RisesAt
    <3>3. a[i + 1] \in Int /\ a[p + 1] \in Int /\ a[q + 1] \in Int
      BY <1>1, <1>3, <2>1, <2>2
    <3>4. QED
      BY <2>1, <2>3, <2>4, <3>1, <3>2, <3>3
  <2>7. QED
    BY <2>5, <2>6
<1>6. QED
  BY <1>4, <1>5 DEF RisesAt

(* The states of a loop over m values. *)
States(m) == [a : Arrays(m), p : Nat]

LEMMA StateIs ==
  ASSUME NEW m, NEW h \in States(m)
  PROVE  h.a \in Arrays(m) /\ h.p \in Nat /\ h = [a |-> h.a, p |-> h.p]
BY DEF States

LEMMA StateOf ==
  ASSUME NEW m, NEW a \in Arrays(m), NEW p \in Nat
  PROVE  LET h == [a |-> a, p |-> p] IN h \in States(m) /\ h.a = a /\ h.p = p
BY DEF States

(* One turn of adjust(). *)
LEMMA DownIs ==
  ASSUME NEW m \in Nat, NEW h \in States(m), NEW len \in 0 .. m
  PROVE  /\ PriorityQueue!DownEnds(h, len) => PriorityQueue!DownOnce(h, len) = h
         /\ ~PriorityQueue!DownEnds(h, len) =>
              \E c \in 1 .. m - 1 :
                /\ c < len /\ P(c) = h.p /\ h.p < c /\ h.a[c + 1] >= h.a[h.p + 1] /\ h.p \in 0 .. m - 1
                /\ \A i \in 1 .. len - 1 : P(i) = h.p => h.a[i + 1] <= h.a[c + 1]
                /\ PriorityQueue!DownOnce(h, len) = [a |-> PriorityQueue!Swap(h.a, c, h.p), p |-> c]
<1>1. PICK a \in Arrays(m), p \in Nat : h = [a |-> a, p |-> p] /\ h.a = a /\ h.p = p
  BY StateIs
<1>2. PICK c : c = PriorityQueue!LargerChild(a, p, len)
  OBVIOUS
<1>3. /\ c \in Nat
      /\ c < len => /\ c \in 1 .. m - 1 /\ P(c) = p /\ p \in 0 .. m - 1
                    /\ \A i \in 1 .. len - 1 : P(i) = p => a[i + 1] <= a[c + 1]
  <2>1. Larger(a, p, len, m, c)
    BY <1>2, LargerChildIs
  <2>2. QED
    BY <2>1 DEF Larger
<1>4. PriorityQueue!DownEnds(h, len) <=> c >= len \/ a[c + 1] < a[p + 1]
  BY <1>1, <1>2 DEF PriorityQueue!DownEnds, PriorityQueue!At
<1>5. PriorityQueue!DownOnce(h, len) =
        IF PriorityQueue!DownEnds(h, len) THEN h ELSE [a |-> PriorityQueue!Swap(a, c, p), p |-> c]
  BY <1>1, <1>2 DEF PriorityQueue!DownOnce
<1>6. ASSUME ~PriorityQueue!DownEnds(h, len)
      PROVE  /\ c \in 1 .. m - 1 /\ c < len /\ P(c) = p /\ p < c /\ a[c + 1] >= a[p + 1] /\ p \in 0 .. m - 1
             /\ \A i \in 1 .. len - 1 : P(i) = p => a[i + 1] <= a[c + 1]
  <2>1. c < len /\ ~(a[c + 1] < a[p + 1])
    BY <1>3, <1>4, <1>6
  <2>2. c \in 1 .. m - 1 /\ p \in 0 .. m - 1 /\ P(c) = p
    BY <1>3, <2>1
  <2>3. a[c + 1] \in Int /\ a[p + 1] \in Int
    <3>1. c + 1 \in 1 .. m /\ p + 1 \in 1 .. m
      BY <2>2
    <3>2. QED
      BY <3>1, HeapConstants DEF Arrays
  <2>4. p < c
    <3>1. c \in Nat \ {0}
      BY <2>2
    <3>2. P(c) < c
      BY <3>1, ParentOf
    <3>3. QED
      BY <2>2, <3>2
  <2>5. QED
    BY <1>3, <2>1, <2>2, <2>3, <2>4
<1>7. QED
  BY <1>1, <1>5, <1>6

LEMMA DownTurnsAre ==
  ASSUME NEW m \in Nat, NEW a \in Arrays(m), NEW p \in Nat, NEW len \in 0 .. m,
         NEW f, f = PriorityQueue!DownTurns(a, p, len)
  PROVE  /\ f \in [0 .. len -> States(m)] /\ f[0] = [a |-> a, p |-> p]
         /\ \A k \in 1 .. len : f[k] = PriorityQueue!DownOnce(f[k - 1], len)
<1> DEFINE x == [a |-> a, p |-> p]
           F == [z \in (1 .. len) \X States(m) |-> PriorityQueue!DownOnce(z[2], len)]
           T(g) == g = [k \in 0 .. len |-> IF k = 0 THEN x ELSE PriorityQueue!DownOnce(g[k - 1], len)]
<1>1. x \in States(m)
  BY StateOf
<1>2. ASSUME NEW h \in States(m) PROVE PriorityQueue!DownOnce(h, len) \in States(m)
  <2>1. CASE PriorityQueue!DownEnds(h, len)
    BY <2>1, DownIs
  <2>2. CASE ~PriorityQueue!DownEnds(h, len)
    <3>1. PICK c \in 1 .. m - 1 :
             h.p \in 0 .. m - 1
             /\ PriorityQueue!DownOnce(h, len) = [a |-> PriorityQueue!Swap(h.a, c, h.p), p |-> c]
      BY <2>2, DownIs
    <3>2. c \in 0 .. m - 1 /\ c \in Nat /\ h.a \in Arrays(m)
      BY StateIs
    <3>3. PriorityQueue!Swap(h.a, c, h.p) \in Arrays(m)
      BY <3>1, <3>2, SwapIs
    <3>4. QED
      BY <3>1, <3>2, <3>3, StateOf
  <2>3. QED
    BY <2>1, <2>2
<1>3. \A k \in 1 .. len : \A h \in States(m) : F[<<k, h>>] \in States(m)
  BY <1>2
<1>4. \A k \in 1 .. len : \A h \in States(m) : F[<<k, h>>] = PriorityQueue!DownOnce(h, len)
  OBVIOUS
<1> HIDE DEF F, x
<1>5. PICK g \in [0 .. len -> States(m)] : Runs(g, len, x, F)
  <2>1. len \in Nat
    OBVIOUS
  <2>2. QED
    BY <1>1, <1>3, <2>1, TurnsExist
<1>6. \A k \in 1 .. len : g[k] = PriorityQueue!DownOnce(g[k - 1], len)
  <2>1. \A k \in 1 .. len : g[k - 1] \in States(m)
    BY <1>5
  <2>2. QED
    BY <1>4, <1>5, <2>1 DEF Runs
<1>7. T(g)
  <2>1. \A k \in 0 .. len : g[k] = IF k = 0 THEN x ELSE PriorityQueue!DownOnce(g[k - 1], len)
    BY <1>5, <1>6 DEF Runs
  <2>2. QED
    BY <1>5, <2>1
<1>8. f = CHOOSE h : T(h)
  BY DEF PriorityQueue!DownTurns, x
<1>9. T(f)
  BY <1>7, <1>8
<1>10. f = [k \in 0 .. len |-> f[k]] /\ f[0] = x
  BY <1>9
<1>11. \A k \in 1 .. len : f[k - 1] \in States(m) => f[k] = F[<<k, f[k - 1]>>]
  <2>1. \A k \in 1 .. len : k \in 0 .. len /\ k # 0
    OBVIOUS
  <2>2. QED
    BY <1>4, <1>9, <2>1
<1>12. f \in [0 .. len -> States(m)] /\ Runs(f, len, x, F)
  <2> HIDE DEF T
  <2>1. len \in Nat
    OBVIOUS
  <2>2. QED
    <3> HIDE DEF T
    <3>1. Follows(f, len, States(m), x, F)
      BY <1>10, <1>11 DEF Follows
    <3>2. QED
      BY <1>5, <2>1, <3>1, OnlyRun
<1>13. \A k \in 1 .. len : f[k] = PriorityQueue!DownOnce(f[k - 1], len)
  <2>1. \A k \in 1 .. len : f[k - 1] \in States(m)
    BY <1>12
  <2>2. QED
    BY <1>4, <1>12, <2>1 DEF Runs
<1>14. QED
  BY <1>10, <1>12, <1>13 DEF x

(* adjust() puts a value that is too small for its place where it belongs. *)
LEMMA AdjustRestores ==
  ASSUME NEW m \in Nat, NEW len \in 0 .. m, NEW a \in Arrays(m), NEW lo \in Nat, NEW p \in Nat,
         lo <= p, SinksAt(a, lo, len, p), NEW b, b = PriorityQueue!adjust(a, p, len)
  PROVE  Rearranged(a, b, m, len) /\ Ordered(b, lo, len)
<1>1. PICK f : f = PriorityQueue!DownTurns(a, p, len)
  OBVIOUS
<1>2. /\ f \in [0 .. len -> States(m)] /\ f[0] = [a |-> a, p |-> p]
      /\ \A k \in 1 .. len : f[k] = PriorityQueue!DownOnce(f[k - 1], len)
  BY <1>1, DownTurnsAre
<1> DEFINE Good(h, k) ==
             /\ h \in States(m) /\ Rearranged(a, h.a, m, len) /\ SinksAt(h.a, lo, len, h.p)
             /\ lo <= h.p /\ (PriorityQueue!DownEnds(h, len) \/ h.p >= p + k)
           G == {k \in 0 .. len : Good(f[k], k)}
<1>3. 0 \in G
  <2>1. f[0].a = a /\ f[0].p = p /\ f[0] \in States(m)
    BY <1>2, StateOf
  <2>2. Rearranged(a, a, m, len)
    BY RearrangedSelf
  <2>3. QED
    BY <2>1, <2>2
<1>4. ASSUME NEW k \in 1 .. len, k - 1 \in G PROVE k \in G
  <2>1. PICK h : h = f[k - 1]
    OBVIOUS
  <2>2. Good(h, k - 1) /\ f[k] = PriorityQueue!DownOnce(h, len)
    BY <1>2, <1>4, <2>1
  <2>3. CASE PriorityQueue!DownEnds(h, len)
    <3>1. f[k] = h
      BY <2>2, <2>3, DownIs
    <3>2. QED
      BY <2>2, <2>3, <3>1
  <2>4. CASE ~PriorityQueue!DownEnds(h, len)
    <3>1. PICK c \in 1 .. m - 1 :
            /\ c < len /\ P(c) = h.p /\ h.p < c /\ h.a[c + 1] >= h.a[h.p + 1] /\ h.p \in 0 .. m - 1
            /\ \A i \in 1 .. len - 1 : P(i) = h.p => h.a[i + 1] <= h.a[c + 1]
            /\ PriorityQueue!DownOnce(h, len) = [a |-> PriorityQueue!Swap(h.a, c, h.p), p |-> c]
      BY <2>2, <2>4, DownIs
    <3>2. PICK q \in 0 .. m - 1 : q = h.p /\ q \in Nat
      BY <3>1
    <3>3. PICK d \in Arrays(m) : d = h.a
      BY <2>2, StateIs
    <3>4. PICK e : e = PriorityQueue!Swap(d, c, q)
      OBVIOUS
    <3>5. SinksAt(e, lo, len, c)
      <4>1. lo <= q /\ SinksAt(d, lo, len, q)
        BY <2>2, <3>2, <3>3
      <4>2. c < len /\ P(c) = q /\ d[c + 1] >= d[q + 1]
            /\ \A i \in 1 .. len - 1 : P(i) = q => d[i + 1] <= d[c + 1]
        BY <3>1, <3>2, <3>3
      <4>3. QED
        BY <3>4, <4>1, <4>2, SunkOnce
    <3>6. Rearranged(d, e, m, len)
      <4>1. c \in 0 .. m - 1 /\ c < len /\ q < len
        BY <3>1, <3>2
      <4>2. QED
        BY <3>4, <4>1, SwapKeeps
    <3>7. Rearranged(a, e, m, len)
      BY <2>2, <3>3, <3>6, RearrangedAgain
    <3>8. f[k] = [a |-> e, p |-> c] /\ e \in Arrays(m) /\ c \in Nat
      BY <2>2, <3>1, <3>2, <3>3, <3>4, <3>6 DEF Rearranged
    <3>9. f[k] \in States(m) /\ f[k].a = e /\ f[k].p = c
      BY <3>8, StateOf
    <3>10. lo <= c /\ c >= p + k
      <4>1. q >= p + (k - 1) /\ lo <= q /\ q < c
        BY <2>2, <2>4, <3>1, <3>2
      <4>2. QED
        BY <4>1
    <3>11. QED
      BY <3>5, <3>7, <3>9, <3>10
  <2>5. QED
    BY <2>3, <2>4
<1> HIDE DEF G
<1>5. len \in G
  BY <1>3, <1>4, UpTo
<1>6. Good(f[len], len)
  BY <1>5 DEF G
<1>7. PICK h \in States(m) : h = f[len]
  BY <1>6
<1>8. b = h.a
  BY <1>1, <1>7 DEF PriorityQueue!adjust
<1>9. PICK c : c = PriorityQueue!LargerChild(h.a, h.p, len)
  OBVIOUS
<1>10. h.a \in Arrays(m) /\ h.p \in Nat
  BY StateIs
<1>11. /\ c \in Nat /\ (c = 2 * h.p + 1 \/ c = 2 * h.p + 2)
       /\ c >= len => \A i \in 1 .. len - 1 : P(i) # h.p
       /\ c < len => /\ c \in 1 .. m - 1 /\ h.p \in 0 .. m - 1
                     /\ \A i \in 1 .. len - 1 : P(i) = h.p => h.a[i + 1] <= h.a[c + 1]
  <2>1. Larger(h.a, h.p, len, m, c)
    BY <1>9, <1>10, LargerChildIs
  <2>2. QED
    BY <2>1 DEF Larger
<1>12. c >= len \/ (c < len /\ h.a[c + 1] < h.a[h.p + 1])
  <2>1. CASE PriorityQueue!DownEnds(h, len)
    <3>1. c >= len \/ h.a[c + 1] < h.a[h.p + 1]
      BY <1>9, <2>1 DEF PriorityQueue!DownEnds, PriorityQueue!At
    <3>2. QED
      BY <1>11, <3>1
  <2>2. CASE h.p >= p + len
    BY <1>10, <1>11, <2>2
  <2>3. QED
    BY <1>6, <1>7, <2>1, <2>2
<1>13. ASSUME NEW i \in 1 .. len - 1, P(i) >= lo PROVE h.a[i + 1] <= h.a[P(i) + 1]
  <2>1. CASE P(i) # h.p
    BY <1>6, <1>7, <1>13, <2>1 DEF SinksAt
  <2>2. CASE P(i) = h.p
    <3>1. c < len /\ h.a[c + 1] < h.a[h.p + 1] /\ h.a[i + 1] <= h.a[c + 1]
      BY <1>11, <1>12, <2>2
    <3>2. i + 1 \in 1 .. m /\ c + 1 \in 1 .. m /\ h.p + 1 \in 1 .. m
      BY <1>11, <3>1
    <3>3. h.a[i + 1] \in Int /\ h.a[c + 1] \in Int /\ h.a[h.p + 1] \in Int
      BY <1>10, <3>2, HeapConstants DEF Arrays
    <3>4. QED
      BY <2>2, <3>1, <3>3
  <2>3. QED
    BY <2>1, <2>2
<1>14. QED
  BY <1>6, <1>7, <1>8, <1>13 DEF Ordered

(* The states of the loop that goes up: its place is in the array. *)
Climbs(m) == [a : Arrays(m), p : 0 .. m - 1]

LEMMA ClimbIs ==
  ASSUME NEW m, NEW h \in Climbs(m)
  PROVE  h.a \in Arrays(m) /\ h.p \in 0 .. m - 1 /\ h = [a |-> h.a, p |-> h.p]
BY DEF Climbs

LEMMA ClimbOf ==
  ASSUME NEW m, NEW a \in Arrays(m), NEW p \in 0 .. m - 1
  PROVE  LET h == [a |-> a, p |-> p] IN h \in Climbs(m) /\ h.a = a /\ h.p = p
BY DEF Climbs

(* One turn of percolate_up(). *)
LEMMA UpIs ==
  ASSUME NEW m \in Nat, NEW h \in Climbs(m)
  PROVE  /\ PriorityQueue!UpEnds(h) =>
              /\ PriorityQueue!UpOnce(h) = h
              /\ h.p = 0 \/ h.a[h.p + 1] <= h.a[P(h.p) + 1]
         /\ ~PriorityQueue!UpEnds(h) =>
              \E q \in 0 .. m - 1 :
                /\ h.p \in 1 .. m - 1 /\ P(h.p) = q /\ q < h.p /\ h.a[h.p + 1] >= h.a[q + 1]
                /\ PriorityQueue!UpOnce(h) = [a |-> PriorityQueue!Swap(h.a, h.p, q), p |-> q]
<1>1. PICK a \in Arrays(m), c \in 0 .. m - 1 : h = [a |-> a, p |-> c] /\ h.a = a /\ h.p = c
  BY ClimbIs
<1>2. PICK q : q = P(c)
  OBVIOUS
<1>3. c # 0 => c \in 1 .. m - 1 /\ q \in 0 .. m - 1 /\ q < c /\ a[c + 1] \in Int /\ a[q + 1] \in Int
  <2>1. SUFFICES ASSUME c # 0
                 PROVE  c \in 1 .. m - 1 /\ q \in 0 .. m - 1 /\ q < c /\ a[c + 1] \in Int /\ a[q + 1] \in Int
    OBVIOUS
  <2>2. c \in Nat \ {0}
    BY <2>1
  <2>3. q \in Nat /\ q < c
    BY <1>2, <2>2, ParentOf
  <2>4. c + 1 \in 1 .. m /\ q + 1 \in 1 .. m
    BY <2>3
  <2>5. a[c + 1] \in Int /\ a[q + 1] \in Int
    BY <2>4, HeapConstants DEF Arrays
  <2>6. c \in 1 .. m - 1 /\ q \in 0 .. m - 1
    BY <2>1, <2>3
  <2>7. QED
    BY <2>3, <2>5, <2>6
<1>4. PriorityQueue!UpEnds(h) <=> c = 0 \/ a[c + 1] < a[q + 1]
  BY <1>1, <1>2 DEF PriorityQueue!UpEnds, PriorityQueue!At, P
<1>5. PriorityQueue!UpOnce(h) =
        IF PriorityQueue!UpEnds(h) THEN h ELSE [a |-> PriorityQueue!Swap(a, c, q), p |-> q]
  BY <1>1, <1>2 DEF PriorityQueue!UpOnce, P
<1>6. ASSUME PriorityQueue!UpEnds(h)
      PROVE  PriorityQueue!UpOnce(h) = h /\ (c = 0 \/ a[c + 1] <= a[q + 1])
  BY <1>3, <1>4, <1>5, <1>6
<1>7. ASSUME ~PriorityQueue!UpEnds(h)
      PROVE  /\ c \in 1 .. m - 1 /\ q \in 0 .. m - 1 /\ q < c /\ a[c + 1] >= a[q + 1]
             /\ PriorityQueue!UpOnce(h) = [a |-> PriorityQueue!Swap(a, c, q), p |-> q]
  BY <1>3, <1>4, <1>5, <1>7
<1>8. QED
  BY <1>1, <1>2, <1>6, <1>7

LEMMA UpTurnsAre ==
  ASSUME NEW m \in Nat, NEW a \in Arrays(m), NEW c \in 0 .. m - 1,
         NEW f, f = PriorityQueue!UpTurns(a, c)
  PROVE  /\ f \in [0 .. c -> Climbs(m)] /\ f[0] = [a |-> a, p |-> c]
         /\ \A k \in 1 .. c : f[k] = PriorityQueue!UpOnce(f[k - 1])
<1> DEFINE x == [a |-> a, p |-> c]
           F == [z \in (1 .. c) \X Climbs(m) |-> PriorityQueue!UpOnce(z[2])]
           T(g) == g = [k \in 0 .. c |-> IF k = 0 THEN x ELSE PriorityQueue!UpOnce(g[k - 1])]
<1>1. x \in Climbs(m)
  BY ClimbOf
<1>2. ASSUME NEW h \in Climbs(m) PROVE PriorityQueue!UpOnce(h) \in Climbs(m)
  <2>1. CASE PriorityQueue!UpEnds(h)
    BY <2>1, UpIs
  <2>2. CASE ~PriorityQueue!UpEnds(h)
    <3>1. PICK q \in 0 .. m - 1 : PriorityQueue!UpOnce(h) = [a |-> PriorityQueue!Swap(h.a, h.p, q), p |-> q]
      BY <2>2, UpIs
    <3>2. h.p \in 0 .. m - 1 /\ h.a \in Arrays(m)
      BY ClimbIs
    <3>3. PriorityQueue!Swap(h.a, h.p, q) \in Arrays(m)
      BY <3>1, <3>2, SwapIs
    <3>4. QED
      BY <3>1, <3>3, ClimbOf
  <2>3. QED
    BY <2>1, <2>2
<1>3. \A k \in 1 .. c : \A h \in Climbs(m) : F[<<k, h>>] \in Climbs(m)
  BY <1>2
<1>4. \A k \in 1 .. c : \A h \in Climbs(m) : F[<<k, h>>] = PriorityQueue!UpOnce(h)
  OBVIOUS
<1> HIDE DEF F, x
<1>5. PICK g \in [0 .. c -> Climbs(m)] : Runs(g, c, x, F)
  <2>1. c \in Nat
    OBVIOUS
  <2>2. QED
    BY <1>1, <1>3, <2>1, TurnsExist
<1>6. \A k \in 1 .. c : g[k] = PriorityQueue!UpOnce(g[k - 1])
  <2>1. \A k \in 1 .. c : g[k - 1] \in Climbs(m)
    BY <1>5
  <2>2. QED
    BY <1>4, <1>5, <2>1 DEF Runs
<1>7. T(g)
  <2>1. \A k \in 0 .. c : g[k] = IF k = 0 THEN x ELSE PriorityQueue!UpOnce(g[k - 1])
    BY <1>5, <1>6 DEF Runs
  <2>2. QED
    BY <1>5, <2>1
<1>8. f = CHOOSE h : T(h)
  BY DEF PriorityQueue!UpTurns, x
<1>9. T(f)
  BY <1>7, <1>8
<1>10. f = [k \in 0 .. c |-> f[k]] /\ f[0] = x
  BY <1>9
<1>11. \A k \in 1 .. c : f[k - 1] \in Climbs(m) => f[k] = F[<<k, f[k - 1]>>]
  <2>1. \A k \in 1 .. c : k \in 0 .. c /\ k # 0
    OBVIOUS
  <2>2. QED
    BY <1>4, <1>9, <2>1
<1>12. f \in [0 .. c -> Climbs(m)] /\ Runs(f, c, x, F)
  <2>1. c \in Nat
    OBVIOUS
  <2>2. QED
    <3> HIDE DEF T
    <3>1. Follows(f, c, Climbs(m), x, F)
      BY <1>10, <1>11 DEF Follows
    <3>2. QED
      BY <1>5, <2>1, <3>1, OnlyRun
<1>13. \A k \in 1 .. c : f[k] = PriorityQueue!UpOnce(f[k - 1])
  <2>1. \A k \in 1 .. c : f[k - 1] \in Climbs(m)
    BY <1>12
  <2>2. QED
    BY <1>4, <1>12, <2>1 DEF Runs
<1>14. QED
  BY <1>10, <1>12, <1>13 DEF x

(* percolate_up() puts a value that is too large for its place where it belongs. *)
LEMMA PercolateUpRestores ==
  ASSUME NEW m \in Nat, NEW a \in Arrays(m), NEW c \in 0 .. m - 1, RisesAt(a, m, c),
         NEW b, b = PriorityQueue!percolate_up(a, c)
  PROVE  Rearranged(a, b, m, m) /\ Ordered(b, 0, m)
<1>1. PICK f : f = PriorityQueue!UpTurns(a, c)
  OBVIOUS
<1>2. /\ f \in [0 .. c -> Climbs(m)] /\ f[0] = [a |-> a, p |-> c]
      /\ \A k \in 1 .. c : f[k] = PriorityQueue!UpOnce(f[k - 1])
  BY <1>1, UpTurnsAre
<1> DEFINE Good(h, k) ==
             /\ h \in Climbs(m) /\ Rearranged(a, h.a, m, m) /\ RisesAt(h.a, m, h.p)
             /\ (PriorityQueue!UpEnds(h) \/ h.p <= c - k)
           G == {k \in 0 .. c : Good(f[k], k)}
<1>3. 0 \in G
  <2>1. f[0].a = a /\ f[0].p = c /\ f[0] \in Climbs(m)
    BY <1>2, ClimbOf
  <2>2. Rearranged(a, a, m, m)
    <3>1. m \in 0 .. m
      OBVIOUS
    <3>2. QED
      BY <3>1, RearrangedSelf
  <2>3. QED
    BY <2>1, <2>2
<1>4. ASSUME NEW k \in 1 .. c, k - 1 \in G PROVE k \in G
  <2>1. PICK h : h = f[k - 1]
    OBVIOUS
  <2>2. Good(h, k - 1) /\ f[k] = PriorityQueue!UpOnce(h)
    BY <1>2, <1>4, <2>1
  <2>3. CASE PriorityQueue!UpEnds(h)
    <3>1. f[k] = h
      BY <2>2, <2>3, UpIs
    <3>2. QED
      BY <2>2, <2>3, <3>1
  <2>4. CASE ~PriorityQueue!UpEnds(h)
    <3>1. PICK q \in 0 .. m - 1 :
            /\ h.p \in 1 .. m - 1 /\ P(h.p) = q /\ q < h.p /\ h.a[h.p + 1] >= h.a[q + 1]
            /\ PriorityQueue!UpOnce(h) = [a |-> PriorityQueue!Swap(h.a, h.p, q), p |-> q]
      BY <2>2, <2>4, UpIs
    <3>2. PICK i \in 1 .. m - 1 : i = h.p /\ i \in 0 .. m - 1
      BY <3>1
    <3>3. PICK d \in Arrays(m) : d = h.a
      BY <2>2, ClimbIs
    <3>4. PICK e : e = PriorityQueue!Swap(d, i, q)
      OBVIOUS
    <3>5. RisesAt(e, m, q)
      <4>1. RisesAt(d, m, i)
        BY <2>2, <3>2, <3>3
      <4>2. P(i) = q /\ d[i + 1] >= d[q + 1]
        BY <3>1, <3>2, <3>3
      <4>3. QED
        BY <3>4, <4>1, <4>2, RisenOnce
    <3>6. Rearranged(d, e, m, m)
      <4>1. i \in 0 .. m - 1 /\ i < m /\ q < m /\ m \in 0 .. m
        BY <3>1, <3>2
      <4>2. QED
        BY <3>4, <4>1, SwapKeeps
    <3>7. Rearranged(a, e, m, m)
      <4>1. m \in 0 .. m
        OBVIOUS
      <4>2. QED
        BY <2>2, <3>3, <3>6, <4>1, RearrangedAgain
    <3>8. f[k] = [a |-> e, p |-> q] /\ e \in Arrays(m)
      BY <2>2, <3>1, <3>2, <3>3, <3>4, <3>6 DEF Rearranged
    <3>9. f[k] \in Climbs(m) /\ f[k].a = e /\ f[k].p = q
      BY <3>8, ClimbOf
    <3>10. q <= c - k
      <4>1. i <= c - (k - 1) /\ q < i
        BY <2>2, <2>4, <3>1, <3>2
      <4>2. QED
        BY <4>1
    <3>11. QED
      BY <3>5, <3>7, <3>9, <3>10
  <2>5. QED
    BY <2>3, <2>4
<1> HIDE DEF G
<1>5. c \in G
  <2>1. c \in Nat /\ c \in 0 .. c
    OBVIOUS
  <2>2. QED
    BY <1>3, <1>4, <2>1, UpTo
<1>6. Good(f[c], c)
  BY <1>5 DEF G
<1>7. PICK h \in Climbs(m) : h = f[c]
  BY <1>6
<1>8. b = h.a
  BY <1>1, <1>7 DEF PriorityQueue!percolate_up
<1>9. PICK d \in Arrays(m), q \in 0 .. m - 1 : d = h.a /\ q = h.p
  BY ClimbIs
<1>10. q = 0 \/ d[q + 1] <= d[P(q) + 1]
  <2>1. CASE PriorityQueue!UpEnds(h)
    BY <1>9, <2>1, UpIs
  <2>2. CASE q <= c - c
    BY <2>2
  <2>3. QED
    BY <1>6, <1>7, <1>9, <2>1, <2>2
<1>11. ASSUME NEW i \in 1 .. m - 1 PROVE d[i + 1] <= d[P(i) + 1]
  <2>1. CASE i # q
    <3>1. RisesAt(d, m, q)
      BY <1>6, <1>7, <1>9
    <3>2. QED
      BY <2>1, <3>1 DEF RisesAt
  <2>2. CASE i = q
    BY <1>10, <2>2
  <2>3. QED
    BY <2>1, <2>2
<1>12. QED
  BY <1>6, <1>7, <1>8, <1>9, <1>11 DEF Ordered

(* adjust() returns an array of the same length. *)
LEMMA AdjustIsArray ==
  ASSUME NEW m \in Nat, NEW len \in 0 .. m, NEW a \in Arrays(m), NEW p \in Nat
  PROVE  PriorityQueue!adjust(a, p, len) \in Arrays(m)
<1>1. PICK f : f = PriorityQueue!DownTurns(a, p, len)
  OBVIOUS
<1>2. f \in [0 .. len -> States(m)]
  BY <1>1, DownTurnsAre
<1>3. f[len] \in States(m)
  BY <1>2
<1>4. PriorityQueue!adjust(a, p, len) = f[len].a
  BY <1>1 DEF PriorityQueue!adjust
<1>5. QED
  BY <1>3, <1>4, StateIs

Half(m) == m \div 2

LEMMA HeapTurnsAre ==
  ASSUME NEW m \in Nat, NEW a \in Arrays(m), NEW n, n = Half(m),
         NEW f, f = PriorityQueue!HeapTurns(a)
  PROVE  /\ n \in Nat /\ f \in [0 .. n -> Arrays(m)] /\ f[0] = a
         /\ \A k \in 1 .. n : f[k] = PriorityQueue!adjust(f[k - 1], n - k, m)
<1> DEFINE B(h, k) == PriorityQueue!adjust(h, n - k, m)
           F == [z \in (1 .. n) \X Arrays(m) |-> B(z[2], z[1])]
           T(g) == g = [k \in 0 .. n |-> IF k = 0 THEN a ELSE B(g[k - 1], k)]
<1>1. n \in Nat
  BY DEF Half
<1>2. ASSUME NEW h \in Arrays(m), NEW k \in 1 .. n PROVE B(h, k) \in Arrays(m)
  <2>1. n - k \in Nat /\ m \in 0 .. m
    BY <1>1
  <2>2. QED
    BY <2>1, AdjustIsArray
<1>3. f = CHOOSE h : T(h)
  <2>1. Len(a) = m
    BY ArrayIs
  <2>2. QED
    BY <2>1 DEF PriorityQueue!HeapTurns, Half
<1> HIDE DEF B
<1>4. \A k \in 1 .. n : \A h \in Arrays(m) : F[<<k, h>>] \in Arrays(m) /\ F[<<k, h>>] = B(h, k)
  BY <1>2
<1> HIDE DEF F
<1>5. PICK g \in [0 .. n -> Arrays(m)] : Runs(g, n, a, F)
  BY <1>1, <1>4, TurnsExist
<1>6. \A k \in 1 .. n : g[k] = B(g[k - 1], k)
  <2>1. \A k \in 1 .. n : g[k - 1] \in Arrays(m)
    BY <1>1, <1>5
  <2>2. QED
    BY <1>4, <1>5, <2>1 DEF Runs
<1>7. T(g)
  <2>1. \A k \in 0 .. n : g[k] = IF k = 0 THEN a ELSE B(g[k - 1], k)
    BY <1>1, <1>5, <1>6 DEF Runs
  <2>2. QED
    BY <1>5, <2>1
<1>8. T(f)
  BY <1>3, <1>7
<1>9. f = [k \in 0 .. n |-> f[k]] /\ f[0] = a
  BY <1>1, <1>8
<1>10. \A k \in 1 .. n : f[k - 1] \in Arrays(m) => f[k] = F[<<k, f[k - 1]>>]
  <2>1. \A k \in 1 .. n : k \in 0 .. n /\ k # 0
    BY <1>1
  <2>2. \A k \in 0 .. n : f[k] = IF k = 0 THEN a ELSE B(f[k - 1], k)
    BY <1>8
  <2> HIDE DEF T
  <2>3. \A k \in 1 .. n : f[k] = B(f[k - 1], k)
    BY <2>1, <2>2
  <2>4. QED
    BY <1>4, <2>3
<1>11. f \in [0 .. n -> Arrays(m)] /\ Runs(f, n, a, F)
  <2> HIDE DEF T
  <2>1. Follows(f, n, Arrays(m), a, F)
    BY <1>9, <1>10 DEF Follows
  <2>2. QED
    BY <1>1, <1>5, <2>1, OnlyRun
<1>12. \A k \in 1 .. n : f[k] = B(f[k - 1], k)
  <2>1. \A k \in 1 .. n : f[k - 1] \in Arrays(m)
    BY <1>1, <1>11
  <2>2. QED
    BY <1>4, <1>11, <2>1 DEF Runs
<1>13. QED
  BY <1>1, <1>9, <1>11, <1>12 DEF B

(* make_heap() orders the array. *)
LEMMA MakeHeapOrders ==
  ASSUME NEW m \in Nat, NEW a \in Arrays(m), NEW b, b = PriorityQueue!make_heap(a)
  PROVE  Rearranged(a, b, m, m) /\ Ordered(b, 0, m)
<1>1. PICK f : f = PriorityQueue!HeapTurns(a)
  OBVIOUS
<1>2. PICK n : n = Half(m)
  OBVIOUS
<1>3. /\ n \in Nat /\ f \in [0 .. n -> Arrays(m)] /\ f[0] = a
      /\ \A k \in 1 .. n : f[k] = PriorityQueue!adjust(f[k - 1], n - k, m)
  BY <1>1, <1>2, HeapTurnsAre
<1>4. m \in 0 .. m
  OBVIOUS
<1> DEFINE G == {k \in 0 .. n : Rearranged(a, f[k], m, m) /\ Ordered(f[k], n - k, m)}
<1>5. 0 \in G
  <2>1. ASSUME NEW i \in 1 .. m - 1 PROVE ~(P(i) >= n)
    <3>1. P(i) \in Nat /\ (i = 2 * P(i) + 1 \/ i = 2 * P(i) + 2)
      BY ParentOf
    <3>2. QED
      BY <1>2, <3>1 DEF Half
  <2>2. Ordered(a, n, m)
    BY <2>1 DEF Ordered
  <2>3. QED
    BY <1>3, <1>4, <2>2, RearrangedSelf
<1>6. ASSUME NEW k \in 1 .. n, k - 1 \in G PROVE k \in G
  <2>1. PICK h \in Arrays(m) : h = f[k - 1]
    BY <1>3
  <2>2. Rearranged(a, h, m, m) /\ Ordered(h, n - (k - 1), m)
    BY <1>6, <2>1
  <2>3. PICK p \in Nat : p = n - k
    BY <1>3
  <2>4. PICK d : d = PriorityQueue!adjust(h, p, m)
    OBVIOUS
  <2>5. f[k] = d
    BY <1>3, <2>1, <2>3, <2>4
  <2>6. SinksAt(h, p, m, p)
    <3>1. n - (k - 1) = p + 1
      BY <1>3, <2>3
    <3>2. ASSUME NEW i \in 1 .. m - 1, P(i) >= p, P(i) # p PROVE h[i + 1] <= h[P(i) + 1]
      <4>1. P(i) \in Nat
        BY ParentOf
      <4>2. P(i) >= p + 1
        BY <3>2, <4>1
      <4>3. QED
        BY <2>2, <3>1, <4>2 DEF Ordered
    <3>3. p # 0 => ~(P(p) >= p)
      BY ParentOf
    <3>4. QED
      BY <3>2, <3>3 DEF SinksAt
  <2>7. Rearranged(h, d, m, m) /\ Ordered(d, p, m)
    BY <1>4, <2>4, <2>6, AdjustRestores
  <2>8. Rearranged(a, d, m, m)
    BY <1>4, <2>2, <2>7, RearrangedAgain
  <2>9. k \in 0 .. n
    OBVIOUS
  <2>10. QED
    BY <2>3, <2>5, <2>7, <2>8, <2>9
<1> HIDE DEF G
<1>7. n \in G
  <2>1. n \in 0 .. n
    BY <1>3
  <2>2. QED
    BY <1>3, <1>5, <1>6, <2>1, UpTo
<1>8. b = f[n]
  <2>1. Len(a) = m
    BY ArrayIs
  <2>2. QED
    BY <1>1, <1>2, <2>1 DEF PriorityQueue!make_heap, Half
<1>9. n - n = 0
  BY <1>3
<1>10. QED
  BY <1>7, <1>8, <1>9 DEF G

(* The value at the front is the largest. *)
LEMMA RootIsLargest ==
  ASSUME NEW m \in Nat, NEW a \in Arrays(m), NEW len \in 0 .. m, Ordered(a, 0, len), NEW i \in 1 .. len
  PROVE  a[i] <= a[1]
<1> DEFINE Bad == {k \in 1 .. len : ~(a[k] <= a[1])}
<1>1. SUFFICES ASSUME Bad # {} PROVE FALSE
  OBVIOUS
<1>2. Bad \in SUBSET Nat
  OBVIOUS
<1> HIDE DEF Bad
<1>3. PICK k \in Bad : \A l \in Bad : k <= l
  BY <1>1, <1>2, LeastNatural
<1>4. k \in 1 .. len /\ ~(a[k] <= a[1])
  BY <1>3 DEF Bad
<1>5. a[1] \in Int /\ a[k] \in Int
  <2>1. 1 \in 1 .. m /\ k \in 1 .. m
    BY <1>4
  <2>2. QED
    BY <2>1, HeapConstants DEF Arrays
<1>6. k - 1 \in 1 .. len - 1
  BY <1>4, <1>5
<1>7. PICK q : q = P(k - 1)
  OBVIOUS
<1>8. q \in Nat /\ q < k - 1
  BY <1>6, <1>7, ParentOf
<1>9. a[k] <= a[q + 1]
  <2>1. a[(k - 1) + 1] <= a[P(k - 1) + 1]
    BY <1>6, <1>7, <1>8 DEF Ordered
  <2>2. (k - 1) + 1 = k
    BY <1>4
  <2>3. QED
    BY <1>7, <2>1, <2>2
<1>10. q + 1 \in 1 .. len /\ q + 1 < k
  BY <1>4, <1>8
<1>11. q + 1 \in Bad
  <2>1. a[q + 1] \in Int
    <3>1. q + 1 \in 1 .. m
      BY <1>10
    <3>2. QED
      BY <3>1, HeapConstants DEF Arrays
  <2>2. QED
    BY <1>4, <1>5, <1>9, <1>10, <2>1 DEF Bad
<1>12. QED
  BY <1>3, <1>4, <1>10, <1>11

OneLess(m) == m - 1

LEMMA SortTurnsAre ==
  ASSUME NEW m \in Nat \ {0}, NEW a \in Arrays(m), NEW n, n = OneLess(m),
         NEW f, f = PriorityQueue!SortTurns(a)
  PROVE  /\ n \in Nat /\ f \in [0 .. n -> Arrays(m)] /\ f[0] = a
         /\ \A k \in 1 .. n :
              f[k] = PriorityQueue!adjust(PriorityQueue!Swap(f[k - 1], 0, m - k), 0, m - k)
<1> DEFINE B(h, k) == PriorityQueue!adjust(PriorityQueue!Swap(h, 0, m - k), 0, m - k)
           F == [z \in (1 .. n) \X Arrays(m) |-> B(z[2], z[1])]
           T(g) == g = [k \in 0 .. n |-> IF k = 0 THEN a ELSE B(g[k - 1], k)]
<1>1. n \in Nat /\ n = m - 1
  BY DEF OneLess
<1>2. ASSUME NEW h \in Arrays(m), NEW k \in 1 .. n PROVE B(h, k) \in Arrays(m)
  <2>1. m \in Nat /\ m - k \in 0 .. m /\ m - k \in 0 .. m - 1 /\ 0 \in 0 .. m - 1 /\ 0 \in Nat
    BY <1>1
  <2>2. PICK d : d = PriorityQueue!Swap(h, 0, m - k)
    OBVIOUS
  <2>3. d \in Arrays(m)
    BY <2>1, <2>2, SwapIs
  <2>4. PriorityQueue!adjust(d, 0, m - k) \in Arrays(m)
    BY <2>1, <2>3, AdjustIsArray
  <2>5. QED
    BY <2>2, <2>4
<1>3. f = CHOOSE h : T(h)
  <2>1. Len(a) = m
    BY ArrayIs
  <2>2. QED
    BY <1>1, <2>1 DEF PriorityQueue!SortTurns
<1> HIDE DEF B
<1>4. \A k \in 1 .. n : \A h \in Arrays(m) : F[<<k, h>>] \in Arrays(m) /\ F[<<k, h>>] = B(h, k)
  BY <1>2
<1> HIDE DEF F
<1>5. PICK g \in [0 .. n -> Arrays(m)] : Runs(g, n, a, F)
  BY <1>1, <1>4, TurnsExist
<1>6. \A k \in 1 .. n : g[k] = B(g[k - 1], k)
  <2>1. \A k \in 1 .. n : g[k - 1] \in Arrays(m)
    BY <1>1, <1>5
  <2>2. QED
    BY <1>4, <1>5, <2>1 DEF Runs
<1>7. T(g)
  <2>1. \A k \in 0 .. n : g[k] = IF k = 0 THEN a ELSE B(g[k - 1], k)
    BY <1>1, <1>5, <1>6 DEF Runs
  <2>2. QED
    BY <1>5, <2>1
<1>8. T(f)
  BY <1>3, <1>7
<1>9. f = [k \in 0 .. n |-> f[k]] /\ f[0] = a
  BY <1>1, <1>8
<1>10. \A k \in 1 .. n : f[k - 1] \in Arrays(m) => f[k] = F[<<k, f[k - 1]>>]
  <2>1. \A k \in 1 .. n : k \in 0 .. n /\ k # 0
    BY <1>1
  <2>2. \A k \in 0 .. n : f[k] = IF k = 0 THEN a ELSE B(f[k - 1], k)
    BY <1>8
  <2> HIDE DEF T
  <2>3. \A k \in 1 .. n : f[k] = B(f[k - 1], k)
    BY <2>1, <2>2
  <2>4. QED
    BY <1>4, <2>3
<1>11. f \in [0 .. n -> Arrays(m)] /\ Runs(f, n, a, F)
  <2> HIDE DEF T
  <2>1. Follows(f, n, Arrays(m), a, F)
    BY <1>9, <1>10 DEF Follows
  <2>2. QED
    BY <1>1, <1>5, <2>1, OnlyRun
<1>12. \A k \in 1 .. n : f[k] = B(f[k - 1], k)
  <2>1. \A k \in 1 .. n : f[k - 1] \in Arrays(m)
    BY <1>1, <1>11
  <2>2. QED
    BY <1>4, <1>11, <2>1 DEF Runs
<1>13. QED
  BY <1>1, <1>9, <1>11, <1>12 DEF B

(* From lo on the values ascend, and none before them is larger than one of them. *)
Topped(h, lo, m) == \A y \in lo .. m : \A x \in 1 .. y : h[x] <= h[y]


(* d is a with the value at the front and the one at l swapped. *)
FrontSwapped(a, d, l, m) ==
  /\ d \in Arrays(m) /\ d[l + 1] = a[1] /\ d[1] = a[l + 1]
  /\ \A k \in 1 .. m : k # 1 /\ k # l + 1 => d[k] = a[k]

LEMMA SwapFront ==
  ASSUME NEW m \in Nat, NEW a \in Arrays(m), NEW l \in 0 .. m - 1,
         NEW d, d = PriorityQueue!Swap(a, 0, l)
  PROVE  FrontSwapped(a, d, l, m)
<1>1. l + 1 \in 1 .. m /\ 1 \in 1 .. m
  OBVIOUS
<1>2. d = [a EXCEPT ![1] = a[l + 1], ![l + 1] = a[1]]
  BY DEF PriorityQueue!Swap, PriorityQueue!At
<1>3. a[l + 1] \in Numbers /\ a[1] \in Numbers
  BY <1>1 DEF Arrays
<1>4. QED
  BY <1>1, <1>2, <1>3 DEF Arrays, FrontSwapped

(* The front of an ordered array goes behind the rest, which is ordered again. *)
LEMMA SortedOnce ==
  ASSUME NEW m \in Nat \ {0}, NEW a \in Arrays(m), NEW l \in 1 .. m - 1,
         Ordered(a, 0, l + 1), Topped(a, l + 2, m),
         NEW b, b = PriorityQueue!adjust(PriorityQueue!Swap(a, 0, l), 0, l)
  PROVE  Rearranged(a, b, m, m) /\ Ordered(b, 0, l) /\ Topped(b, l + 1, m)
<1>1. PICK d : d = PriorityQueue!Swap(a, 0, l)
  OBVIOUS
<1>2. m \in Nat /\ 0 \in Nat /\ 0 \in 0 .. m - 1 /\ l \in 0 .. m - 1 /\ l + 1 \in 0 .. m /\ l \in 0 .. m
      /\ m \in 0 .. m /\ 0 <= 0
  OBVIOUS
<1>3. /\ d \in Arrays(m) /\ d[l + 1] = a[1] /\ d[1] = a[l + 1]
      /\ \A k \in 1 .. m : k # 1 /\ k # l + 1 => d[k] = a[k]
  <2>1. m \in Nat
    OBVIOUS
  <2>2. FrontSwapped(a, d, l, m)
    BY <1>1, <2>1, SwapFront
  <2>3. QED
    BY <2>2 DEF FrontSwapped
<1>4. Rearranged(a, d, m, m)
  <2>1. 0 < m /\ l < m
    OBVIOUS
  <2>2. QED
    BY <1>1, <1>2, <2>1, SwapKeeps
<1>5. SinksAt(d, 0, l, 0)
  <2>1. ASSUME NEW i \in 1 .. l - 1, P(i) # 0 PROVE d[i + 1] <= d[P(i) + 1]
    <3>1. PICK q \in Nat : q = P(i) /\ q < i /\ q # 0
      BY <2>1, ParentOf
    <3>2. d[i + 1] = a[i + 1] /\ d[q + 1] = a[q + 1]
      <4>1. i + 1 \in 1 .. m /\ i + 1 # 1 /\ i + 1 # l + 1 /\ q + 1 \in 1 .. m /\ q + 1 # 1 /\ q + 1 # l + 1
        BY <3>1
      <4>2. QED
        BY <1>3, <4>1
    <3>3. a[i + 1] <= a[q + 1]
      <4>1. i \in 1 .. (l + 1) - 1 /\ q >= 0
        BY <3>1
      <4>2. QED
        BY <3>1, <4>1 DEF Ordered
    <3>4. QED
      BY <3>1, <3>2, <3>3
  <2>2. QED
    BY <2>1 DEF SinksAt
<1>6. b = PriorityQueue!adjust(d, 0, l)
  BY <1>1
<1>7. Rearranged(d, b, m, l) /\ Ordered(b, 0, l)
  BY <1>2, <1>3, <1>5, <1>6, AdjustRestores
<1>8. Rearranged(d, b, m, m)
  <2>1. ASSUME NEW x \in 1 .. m PROVE \E y \in 1 .. m : b[x] = d[y]
    <3>1. CASE x \in 1 .. l
      <4>1. PICK y \in 1 .. l : b[x] = d[y]
        BY <1>7, <3>1 DEF Rearranged
      <4>2. y \in 1 .. m
        BY <1>2
      <4>3. QED
        BY <4>1, <4>2
    <3>2. CASE x \in l + 1 .. m
      BY <1>7, <3>2 DEF Rearranged
    <3>3. QED
      BY <3>1, <3>2
  <2>2. QED
    BY <1>7, <2>1 DEF Rearranged
<1>9. Rearranged(a, b, m, m)
  BY <1>2, <1>4, <1>8, RearrangedAgain
<1>10. ASSUME NEW x \in 1 .. l + 1 PROVE \E y \in 1 .. l + 1 : b[x] = a[y]
  <2>1. \E z \in 1 .. l + 1 : b[x] = d[z]
    <3>1. CASE x \in 1 .. l
      <4>1. PICK z \in 1 .. l : b[x] = d[z]
        BY <1>7, <3>1 DEF Rearranged
      <4>2. z \in 1 .. l + 1
        BY <1>2
      <4>3. QED
        BY <4>1, <4>2
    <3>2. CASE x = l + 1
      <4>1. x \in l + 1 .. m
        BY <1>2, <3>2
      <4>2. QED
        BY <1>7, <4>1 DEF Rearranged
    <3>3. QED
      BY <3>1, <3>2
  <2>2. PICK z \in 1 .. l + 1 : b[x] = d[z]
    BY <2>1
  <2>3. CASE z = 1
    <3>1. l + 1 \in 1 .. l + 1
      OBVIOUS
    <3>2. QED
      BY <1>3, <2>2, <2>3, <3>1
  <2>4. CASE z = l + 1
    <3>1. 1 \in 1 .. l + 1
      OBVIOUS
    <3>2. QED
      BY <1>3, <2>2, <2>4, <3>1
  <2>5. CASE z # 1 /\ z # l + 1
    <3>1. z \in 1 .. m
      BY <1>2
    <3>2. QED
      BY <1>3, <2>2, <2>5, <3>1
  <2>6. QED
    BY <2>3, <2>4, <2>5
<1>11. ASSUME NEW y \in l + 1 .. m, NEW x \in 1 .. y PROVE b[x] <= b[y]
  <2>1. b[y] = d[y] /\ y \in 1 .. m
    BY <1>7 DEF Rearranged
  <2>2. CASE y = l + 1
    <3>1. b[y] = a[1]
      BY <1>3, <2>1, <2>2
    <3>2. PICK z \in 1 .. l + 1 : b[x] = a[z]
      BY <1>10, <2>2
    <3>3. a[z] <= a[1]
      BY <1>2, RootIsLargest
    <3>4. QED
      BY <3>1, <3>2, <3>3
  <2>3. CASE y # l + 1
    <3>1. y \in l + 2 .. m
      BY <2>3
    <3>2. b[y] = a[y]
      BY <1>3, <2>1, <3>1
    <3>3. CASE x \in 1 .. l + 1
      <4>1. PICK z \in 1 .. l + 1 : b[x] = a[z]
        BY <1>10, <3>3
      <4>2. z \in 1 .. y
        BY <3>1
      <4>3. QED
        BY <3>1, <3>2, <4>1, <4>2 DEF Topped
    <3>4. CASE x \in l + 2 .. y
      <4>1. x \in l + 1 .. m /\ x \in 1 .. m /\ x # 1 /\ x # l + 1
        BY <3>4
      <4>2. b[x] = a[x]
        BY <1>3, <1>7, <4>1 DEF Rearranged
      <4>3. QED
        BY <3>1, <3>2, <4>2 DEF Topped
    <3>5. QED
      BY <3>3, <3>4
  <2>4. QED
    BY <2>2, <2>3
<1>12. Topped(b, l + 1, m)
  BY <1>11 DEF Topped
<1>13. QED
  BY <1>7, <1>9, <1>12

(* sort() of an array in heap order sorts it. *)
LEMMA SortSorts ==
  ASSUME NEW m \in Nat \ {0}, NEW a \in Arrays(m), Ordered(a, 0, m), NEW b, b = PriorityQueue!sort(a)
  PROVE  Rearranged(a, b, m, m) /\ \A i \in 1 .. m - 1 : b[i] <= b[i + 1]
<1>1. PICK f : f = PriorityQueue!SortTurns(a)
  OBVIOUS
<1>2. PICK n : n = OneLess(m)
  OBVIOUS
<1>3. /\ n \in Nat /\ f \in [0 .. n -> Arrays(m)] /\ f[0] = a
      /\ \A k \in 1 .. n :
           f[k] = PriorityQueue!adjust(PriorityQueue!Swap(f[k - 1], 0, m - k), 0, m - k)
  BY <1>1, <1>2, SortTurnsAre
<1>4. m \in Nat /\ m \in 0 .. m
  OBVIOUS
<1> DEFINE G == {k \in 0 .. n : /\ Rearranged(a, f[k], m, m)
                                 /\ Ordered(f[k], 0, m - k) /\ Topped(f[k], (m - k) + 1, m)}
<1>5. 0 \in G
  <2>1. m - 0 = m /\ (m - 0) + 1 = m + 1 /\ 0 \in 0 .. n
    BY <1>3
  <2>2. Topped(a, m + 1, m)
    BY DEF Topped
  <2>3. Rearranged(a, a, m, m)
    BY <1>4, RearrangedSelf
  <2>4. QED
    BY <1>3, <2>1, <2>2, <2>3
<1>6. ASSUME NEW k \in 1 .. n, k - 1 \in G PROVE k \in G
  <2>1. PICK h \in Arrays(m) : h = f[k - 1]
    BY <1>3
  <2>2. PICK l \in 1 .. m - 1 : l = m - k /\ m - (k - 1) = l + 1 /\ (m - (k - 1)) + 1 = l + 2
    BY <1>2 DEF OneLess
  <2>3. Rearranged(a, h, m, m) /\ Ordered(h, 0, l + 1) /\ Topped(h, l + 2, m)
    BY <1>6, <2>1, <2>2
  <2>4. PICK d : d = PriorityQueue!adjust(PriorityQueue!Swap(h, 0, l), 0, l)
    OBVIOUS
  <2>5. f[k] = d
    BY <1>3, <2>1, <2>2, <2>4
  <2>6. Rearranged(h, d, m, m) /\ Ordered(d, 0, l) /\ Topped(d, l + 1, m)
    BY <2>3, <2>4, SortedOnce
  <2>7. Rearranged(a, d, m, m)
    BY <1>4, <2>3, <2>6, RearrangedAgain
  <2>8. k \in 0 .. n
    OBVIOUS
  <2>9. QED
    BY <2>2, <2>5, <2>6, <2>7, <2>8
<1> HIDE DEF G
<1>7. n \in G
  <2>1. n \in 0 .. n
    BY <1>3
  <2>2. QED
    BY <1>3, <1>5, <1>6, <2>1, UpTo
<1>8. b = f[n]
  <2>1. Len(a) = m /\ a # <<>>
    BY <1>4, ArrayIs
  <2>2. QED
    BY <1>1, <1>2, <2>1 DEF PriorityQueue!sort, OneLess
<1>9. (m - n) + 1 = 2
  BY <1>2 DEF OneLess
<1>10. Rearranged(a, b, m, m) /\ Topped(b, 2, m)
  BY <1>7, <1>8, <1>9 DEF G
<1>11. ASSUME NEW i \in 1 .. m - 1 PROVE b[i] <= b[i + 1]
  <2>1. i + 1 \in 2 .. m /\ i \in 1 .. i + 1
    OBVIOUS
  <2>2. QED
    BY <1>10, <2>1 DEF Topped
<1>12. QED
  BY <1>10, <1>11

(* How many of a value an array holds. *)
Count(a, v) == Cardinality(Where(a, v))

LEMMA CountIs ==
  ASSUME NEW m \in Nat, NEW a \in Arrays(m)
  PROVE  /\ PriorityQueue!Bag(a) = [v \in Numbers |-> Count(a, v)]
         /\ \A v \in Numbers : Count(a, v) \in Nat /\ (Count(a, v) > 0 <=> \E i \in 1 .. m : a[i] = v)
<1>1. PriorityQueue!Bag(a) = [v \in Numbers |-> Count(a, v)]
  BY BagIs DEF Count
<1>2. ASSUME NEW v \in Numbers PROVE Count(a, v) \in Nat /\ (Count(a, v) > 0 <=> \E i \in 1 .. m : a[i] = v)
  <2>1. IsFiniteSet(Where(a, v)) /\ Cardinality(Where(a, v)) \in Nat
    BY WhereIsFinite
  <2>2. Cardinality(Where(a, v)) = 0 <=> Where(a, v) = {}
    BY <2>1, FS_EmptySet
  <2>3. Where(a, v) # {} <=> \E i \in 1 .. m : a[i] = v
    BY DEF Where, Arrays
  <2>4. QED
    BY <2>1, <2>2, <2>3 DEF Count
<1>3. QED
  BY <1>1, <1>2

(* An array with one value more. *)
LEMMA CountAppended ==
  ASSUME NEW m \in Nat, NEW a \in Arrays(m), NEW b \in Arrays(m + 1),
         \A i \in 1 .. m : b[i] = a[i], NEW v \in Numbers
  PROVE  Count(b, v) = IF b[m + 1] = v THEN Count(a, v) + 1 ELSE Count(a, v)
<1>1. IsFiniteSet(Where(a, v)) /\ Where(a, v) \subseteq 1 .. m
  BY WhereIsFinite
<1>2. DOMAIN a = 1 .. m /\ DOMAIN b = 1 .. m + 1 /\ 1 .. m + 1 = (1 .. m) \cup {m + 1} /\ m + 1 \notin 1 .. m
  BY DEF Arrays
<1>3. CASE b[m + 1] = v
  <2>1. Where(b, v) = Where(a, v) \cup {m + 1}
    BY <1>2, <1>3 DEF Where
  <2>2. m + 1 \notin Where(a, v)
    BY <1>1, <1>2
  <2>3. Cardinality(Where(a, v) \cup {m + 1}) = Cardinality(Where(a, v)) + 1
    BY <1>1, <2>2, FS_AddElement
  <2>4. QED
    BY <1>3, <2>1, <2>3 DEF Count
<1>4. CASE b[m + 1] # v
  <2>1. Where(b, v) = Where(a, v)
    BY <1>2, <1>4 DEF Where
  <2>2. QED
    BY <1>4, <2>1 DEF Count
<1>5. QED
  BY <1>3, <1>4

(* Two arrays, one behind the other. *)
Concatenated(b, a, m, c, n) ==
  /\ b \in Arrays(m + n)
  /\ \A i \in 1 .. m : b[i] = a[i]
  /\ \A i \in 1 .. n : b[m + i] = c[i]

LEMMA CountJoined ==
  ASSUME NEW m \in Nat, NEW a \in Arrays(m), NEW n \in Nat, NEW c \in Arrays(n),
         NEW b, Concatenated(b, a, m, c, n), NEW v \in Numbers
  PROVE  Count(b, v) = Count(a, v) + Count(c, v)
<1> DEFINE S == {m + i : i \in Where(c, v)}
           f == [i \in Where(c, v) |-> m + i]
<1>1. IsFiniteSet(Where(a, v)) /\ Where(a, v) \subseteq 1 .. m /\ Cardinality(Where(a, v)) \in Nat
  BY WhereIsFinite
<1>2. IsFiniteSet(Where(c, v)) /\ Where(c, v) \subseteq 1 .. n /\ Cardinality(Where(c, v)) \in Nat
  BY WhereIsFinite
<1>0. b \in Arrays(m + n) /\ (\A i \in 1 .. m : b[i] = a[i]) /\ \A i \in 1 .. n : b[m + i] = c[i]
  BY DEF Concatenated
<1>3. DOMAIN a = 1 .. m /\ DOMAIN c = 1 .. n /\ DOMAIN b = 1 .. m + n
  BY <1>0 DEF Arrays
<1>4. IsFiniteSet(S) /\ Cardinality(S) = Cardinality(Where(c, v))
  <2>1. f \in [Where(c, v) -> S]
    OBVIOUS
  <2>2. \A i, j \in Where(c, v) : f[i] = f[j] => i = j
    BY <1>2
  <2>3. \A l \in S : \E i \in Where(c, v) : f[i] = l
    OBVIOUS
  <2>4. f \in Bijection(Where(c, v), S)
    <3> HIDE DEF f, S
    <3>1. QED
      BY <2>1, <2>2, <2>3 DEF Bijection, Injection, Surjection, IsInjective
  <2> HIDE DEF f, S
  <2>5. QED
    BY <1>2, <2>4, FS_Bijection DEF ExistsBijection
<1>5. Where(b, v) = Where(a, v) \cup S
  <2>1. ASSUME NEW l \in Where(b, v) PROVE l \in Where(a, v) \cup S
    <3>1. l \in 1 .. m + n /\ b[l] = v
      BY <1>3 DEF Where
    <3>2. CASE l \in 1 .. m
      BY <1>0, <1>3, <3>1, <3>2 DEF Where
    <3>3. CASE l \notin 1 .. m
      <4>1. PICK i \in 1 .. n : l = m + i
        <5>1. l - m \in 1 .. n /\ l = m + (l - m)
          BY <3>1, <3>3
        <5>2. QED
          BY <5>1
      <4>2. i \in Where(c, v)
        BY <1>0, <1>3, <3>1, <4>1 DEF Where
      <4>3. QED
        BY <4>1, <4>2
    <3>4. QED
      BY <3>2, <3>3
  <2>2. ASSUME NEW l \in Where(a, v) PROVE l \in Where(b, v)
    <3>1. l \in 1 .. m /\ a[l] = v
      BY <1>3 DEF Where
    <3>2. l \in 1 .. m + n
      BY <3>1
    <3>3. QED
      BY <1>0, <1>3, <3>1, <3>2 DEF Where
  <2>3. ASSUME NEW i \in Where(c, v) PROVE m + i \in Where(b, v)
    <3>1. i \in 1 .. n /\ c[i] = v
      BY <1>3 DEF Where
    <3>2. m + i \in 1 .. m + n
      BY <3>1
    <3>3. QED
      BY <1>0, <1>3, <3>1, <3>2 DEF Where
  <2>4. QED
    BY <2>1, <2>2, <2>3
<1>6. Where(a, v) \cap S = {}
  BY <1>1, <1>2
<1> HIDE DEF S
<1>7. Cardinality(Where(a, v) \cup S) = Cardinality(Where(a, v)) + Cardinality(S) - Cardinality(Where(a, v) \cap S)
  BY <1>1, <1>4, FS_Union
<1>8. Cardinality(Where(a, v) \cap S) = 0
  BY <1>6, FS_EmptySet
<1>9. QED
  BY <1>1, <1>2, <1>4, <1>5, <1>7, <1>8 DEF Count

-----------------------------------------------------------------------------
(* The inductive invariant of the heap. *)
HeapInv == rep \in Seq(Numbers) /\ Ordered(rep, 0, Len(rep)) /\ PriorityQueue!Bag(rep) = items

(* What is still to be shown of an array: where it comes from does not matter. *)
LEMMA HeapInvOf ==
  ASSUME NEW m \in Nat, NEW a, NEW b, NEW s, Rearranged(a, b, m, m), Ordered(b, 0, m), PriorityQueue!Bag(a) = s
  PROVE  b \in Seq(Numbers) /\ Ordered(b, 0, Len(b)) /\ PriorityQueue!Bag(b) = s
<1>1. b \in Arrays(m) /\ PriorityQueue!Bag(b) = s
  BY DEF Rearranged
<1>2. b \in Seq(Numbers) /\ Len(b) = m
  BY <1>1, ArrayIs
<1>3. QED
  BY <1>1, <1>2

LEMMA BoundedAre == \A n \in Nat : \A s \in [1 .. n -> Numbers] : s \in Seq(Numbers)
OBVIOUS

LEMMA HeapStart == PriorityQueue!Init => HeapInv
<1> SUFFICES ASSUME PriorityQueue!Init PROVE HeapInv
  OBVIOUS
<1>1. PICK vals \in Seq(Numbers) : rep = PriorityQueue!make_heap(vals) /\ items = PriorityQueue!Bag(vals)
  BY BoundedAre DEF PriorityQueue!Init
<1>2. PICK m \in Nat : m = Len(vals) /\ vals \in Arrays(m)
  BY SequenceIsArray
<1>3. Rearranged(vals, rep, m, m) /\ Ordered(rep, 0, m)
  BY <1>1, <1>2, MakeHeapOrders
<1>4. QED
  BY <1>1, <1>3, HeapInvOf DEF HeapInv

LEMMA PushKeeps ==
  ASSUME HeapInv, NEW v \in Numbers, PriorityQueue!push(v)
  PROVE  HeapInv'
<1>1. PICK m \in Nat : m = Len(rep) /\ rep \in Arrays(m)
  BY SequenceIsArray DEF HeapInv
<1>2. PICK n \in Nat : n = m + 1
  OBVIOUS
<1>3. PICK a : a = Append(rep, v)
  OBVIOUS
<1>4. a \in Arrays(n) /\ a[n] = v /\ \A i \in 1 .. m : a[i] = rep[i]
  <2>1. rep \in Seq(Numbers) /\ Len(rep) = m
    BY <1>1, ArrayIs
  <2>2. a \in Seq(Numbers) /\ Len(a) = m + 1 /\ a[m + 1] = v
    BY <1>3, <2>1
  <2>3. \A i \in 1 .. m : a[i] = rep[i]
    BY <1>3, <2>1
  <2>4. a \in Arrays(n)
    BY <1>2, <2>2, SequenceIsArray
  <2>5. QED
    BY <1>2, <2>2, <2>3, <2>4
<1>5. m \in 0 .. n - 1
  BY <1>2
<1>6. rep' = PriorityQueue!percolate_up(a, m) /\ items' = [items EXCEPT ![v] = @ + 1]
  BY <1>1, <1>3 DEF PriorityQueue!push
<1>7. RisesAt(a, n, m)
  <2>1. Ordered(rep, 0, m)
    BY <1>1 DEF HeapInv
  <2>2. ASSUME NEW i \in 1 .. n - 1, i # m PROVE a[i + 1] <= a[P(i) + 1]
    <3>1. i \in 1 .. m - 1 /\ i + 1 \in 1 .. m
      BY <1>2, <2>2
    <3>2. PICK q \in Nat : q = P(i) /\ q < i
      BY ParentOf
    <3>3. q + 1 \in 1 .. m /\ q >= 0
      BY <3>1, <3>2
    <3>4. rep[i + 1] <= rep[q + 1]
      BY <2>1, <3>1, <3>2, <3>3 DEF Ordered
    <3>5. QED
      BY <1>4, <3>1, <3>2, <3>3, <3>4
  <2>3. ASSUME NEW i \in 1 .. n - 1 PROVE P(i) # m
    <3>1. P(i) < i
      BY ParentOf
    <3>2. QED
      BY <1>2, <3>1
  <2>4. QED
    BY <2>2, <2>3 DEF RisesAt
<1>8. Rearranged(a, rep', n, n) /\ Ordered(rep', 0, n)
  BY <1>4, <1>5, <1>6, <1>7, PercolateUpRestores
<1>9. PriorityQueue!Bag(a) = items'
  <2>1. a \in Arrays(m + 1) /\ a[m + 1] = v
    BY <1>2, <1>4
  <2>2. \A w \in Numbers : Count(a, w) = IF v = w THEN Count(rep, w) + 1 ELSE Count(rep, w)
    BY <1>1, <1>4, <2>1, CountAppended
  <2>3. items = [w \in Numbers |-> Count(rep, w)]
    BY <1>1, CountIs DEF HeapInv
  <2>4. PriorityQueue!Bag(a) = [w \in Numbers |-> Count(a, w)]
    BY <1>4, CountIs
  <2>5. QED
    BY <1>6, <2>2, <2>3, <2>4
<1>10. QED
  BY <1>8, <1>9, HeapInvOf DEF HeapInv

LEMMA PopKeeps ==
  ASSUME HeapInv, PriorityQueue!pop
  PROVE  HeapInv'
<1>1. PICK m \in Nat : m = Len(rep) /\ rep \in Arrays(m)
  BY SequenceIsArray DEF HeapInv
<1>2. PICK n \in Nat : n = m - 1 /\ m = n + 1
  <2>1. rep \in Seq(Numbers) /\ rep # <<>>
    BY DEF HeapInv, PriorityQueue!pop
  <2>2. m # 0
    BY <1>1, <2>1
  <2>3. m - 1 \in Nat
    BY <2>2
  <2>4. QED
    BY <2>3
<1>3. PICK e : e = PriorityQueue!Swap(rep, 0, n)
  OBVIOUS
<1>4. PICK z \in 0 .. m - 1 : z = 0 /\ n \in 0 .. m - 1 /\ 0 \in 0 .. n
  BY <1>2
<1>5. PICK o \in 1 .. m : o = z + 1 /\ o = 1
  BY <1>4
<1>6. /\ e \in Arrays(m) /\ e[n + 1] = rep[1] /\ e[1] = rep[n + 1]
      /\ \A k \in 1 .. m : k # 1 /\ k # n + 1 => e[k] = rep[k]
  <2>1. FrontSwapped(rep, e, n, m)
    BY <1>1, <1>3, <1>4, SwapFront
  <2>2. QED
    BY <2>1 DEF FrontSwapped
<1>7. Rearranged(rep, e, m, m)
  <2>1. m \in 0 .. m /\ z < m /\ n < m /\ n \in 0 .. m - 1
    BY <1>2, <1>4
  <2>2. Rearranged(rep, PriorityQueue!Swap(rep, z, n), m, m)
    BY <1>1, <2>1, SwapKeeps
  <2>3. QED
    BY <1>3, <1>4, <2>2
<1>8. PICK d : d = SubSeq(e, 1, n)
  OBVIOUS
<1>9. d \in Arrays(n) /\ \A i \in 1 .. n : d[i] = e[i]
  <2>1. e \in Seq(Numbers) /\ Len(e) = m
    BY <1>6, ArrayIs
  <2>2. Len(d) = n /\ d \in Seq(Numbers) /\ \A i \in 1 .. n : d[i] = e[i]
    BY <1>2, <1>8, <2>1
  <2>3. QED
    BY <2>2, SequenceIsArray
<1>10. rep' = PriorityQueue!adjust(d, 0, n) /\ items' = [items EXCEPT ![rep[o]] = @ - 1]
  <2>1. Len(d) = n
    BY <1>9, ArrayIs
  <2>2. PriorityQueue!percolate_down(d, 0) = PriorityQueue!adjust(d, 0, n)
    BY <2>1 DEF PriorityQueue!percolate_down
  <2>3. Len(rep) - 1 = n
    BY <1>1, <1>2
  <2>4. Head(rep) = rep[o]
    BY <1>5
  <2>5. QED
    BY <1>3, <1>8, <2>2, <2>3, <2>4 DEF PriorityQueue!pop
<1>11. SinksAt(d, 0, n, 0)
  <2>0. Ordered(rep, 0, m)
    BY <1>1 DEF HeapInv
  <2>1. ASSUME NEW i \in 1 .. n - 1, P(i) # 0 PROVE d[i + 1] <= d[P(i) + 1]
    <3>1. PICK q \in Nat : q = P(i) /\ q < i /\ q # 0
      BY <2>1, ParentOf
    <3>2. d[i + 1] = rep[i + 1] /\ d[q + 1] = rep[q + 1]
      <4>1. i + 1 \in 1 .. n /\ i + 1 # 1 /\ i + 1 # n + 1 /\ q + 1 \in 1 .. n /\ q + 1 # 1 /\ q + 1 # n + 1
        BY <1>4, <3>1
      <4>2. i + 1 \in 1 .. m /\ q + 1 \in 1 .. m
        BY <1>2, <4>1
      <4>3. e[i + 1] = rep[i + 1] /\ e[q + 1] = rep[q + 1]
        BY <1>6, <4>1, <4>2
      <4>4. QED
        BY <1>9, <4>1, <4>3
    <3>3. rep[i + 1] <= rep[q + 1]
      <4>1. i \in 1 .. m - 1 /\ q >= 0
        BY <1>2, <3>1
      <4>2. QED
        BY <2>0, <3>1, <4>1 DEF Ordered
    <3>4. QED
      BY <3>1, <3>2, <3>3
  <2>2. QED
    BY <2>1 DEF SinksAt
<1>12. Rearranged(d, rep', n, n) /\ Ordered(rep', 0, n)
  <2>1. n \in 0 .. n /\ 0 \in Nat /\ 0 <= 0
    OBVIOUS
  <2>2. QED
    BY <1>9, <1>10, <1>11, <2>1, AdjustRestores
<1>13. PriorityQueue!Bag(d) = items'
  <2>1. e \in Arrays(n + 1) /\ e[n + 1] = rep[o]
    BY <1>2, <1>5, <1>6
  <2>2. \A v \in Numbers : Count(e, v) = IF e[n + 1] = v THEN Count(d, v) + 1 ELSE Count(d, v)
    <3>1. \A i \in 1 .. n : e[i] = d[i]
      BY <1>9
    <3>2. QED
      BY <1>9, <2>1, <3>1, CountAppended
  <2>3. PriorityQueue!Bag(e) = items
    BY <1>7 DEF HeapInv, Rearranged
  <2>4. items = [v \in Numbers |-> Count(e, v)]
    BY <1>6, <2>3, CountIs
  <2>5. PriorityQueue!Bag(d) = [v \in Numbers |-> Count(d, v)] /\ \A v \in Numbers : Count(d, v) \in Nat
    BY <1>9, CountIs
  <2>6. items' = [v \in Numbers |-> IF v = rep[o] THEN items[v] - 1 ELSE items[v]]
    BY <1>10, <2>4
  <2>7. QED
    BY <2>1, <2>2, <2>4, <2>5, <2>6
<1>14. QED
  BY <1>12, <1>13, HeapInvOf DEF HeapInv

LEMMA PushRangeKeeps ==
  ASSUME HeapInv, NEW vals \in Seq(Numbers), PriorityQueue!push_range(vals)
  PROVE  HeapInv'
<1>1. PICK m \in Nat : m = Len(rep) /\ rep \in Arrays(m)
  BY SequenceIsArray DEF HeapInv
<1>2. PICK n \in Nat : n = Len(vals) /\ vals \in Arrays(n)
  BY SequenceIsArray
<1>3. PICK l \in Nat : l = m + n
  OBVIOUS
<1>4. PICK a : a = rep \o vals
  OBVIOUS
<1>5. a \in Arrays(l) /\ (\A i \in 1 .. m : a[i] = rep[i]) /\ \A i \in 1 .. n : a[m + i] = vals[i]
  <2>1. rep \in Seq(Numbers) /\ Len(rep) = m /\ Len(vals) = n
    BY <1>1, <1>2, ArrayIs
  <2>2. a \in Seq(Numbers)
    BY <1>4, <2>1
  <2>3. Len(a) = l
    <3>1. Len(a) = Len(rep) + Len(vals)
      <4>1. Len(rep \o vals) = Len(rep) + Len(vals)
        BY <2>1
      <4>2. QED
        BY <1>4, <4>1
    <3>2. QED
      BY <1>3, <2>1, <3>1
  <2>4. (\A i \in 1 .. m : a[i] = rep[i]) /\ \A i \in 1 .. n : a[m + i] = vals[i]
    BY <1>4, <2>1
  <2>5. QED
    BY <2>2, <2>3, <2>4, SequenceIsArray
<1>6. rep' = PriorityQueue!make_heap(a) /\ items' = [v \in Numbers |-> items[v] + PriorityQueue!Bag(vals)[v]]
  BY <1>4 DEF PriorityQueue!push_range
<1>7. Rearranged(a, rep', l, l) /\ Ordered(rep', 0, l)
  BY <1>5, <1>6, MakeHeapOrders
<1>8. PriorityQueue!Bag(a) = items'
  <2>1. Concatenated(a, rep, m, vals, n)
    BY <1>3, <1>5 DEF Concatenated
  <2>2. \A v \in Numbers : Count(a, v) = Count(rep, v) + Count(vals, v)
    BY <1>1, <1>2, <2>1, CountJoined
  <2>3. items = [v \in Numbers |-> Count(rep, v)]
    BY <1>1, CountIs DEF HeapInv
  <2>4. PriorityQueue!Bag(vals) = [v \in Numbers |-> Count(vals, v)]
    BY <1>2, CountIs
  <2>5. PriorityQueue!Bag(a) = [v \in Numbers |-> Count(a, v)]
    BY <1>5, CountIs
  <2>6. QED
    BY <1>6, <2>2, <2>3, <2>4, <2>5
<1>9. QED
  BY <1>7, <1>8, HeapInvOf DEF HeapInv

LEMMA HeapStep == HeapInv /\ PriorityQueue!Next => HeapInv'
<1> SUFFICES ASSUME HeapInv, PriorityQueue!Next PROVE HeapInv'
  OBVIOUS
<1>1. CASE PriorityQueue!pop
  BY <1>1, PopKeeps
<1>2. ASSUME NEW v \in Numbers, PriorityQueue!push(v) PROVE HeapInv'
  BY <1>2, PushKeeps
<1>3. ASSUME NEW n \in 0 .. 2, NEW vals \in [1 .. n -> Numbers], PriorityQueue!push_range(vals)
      PROVE  HeapInv'
  <2>1. vals \in Seq(Numbers)
    BY BoundedAre
  <2>2. QED
    BY <1>3, <2>1, PushRangeKeeps
<1>4. QED
  BY <1>1, <1>2, <1>3 DEF PriorityQueue!Next

LEMMA HeapLargestFirst == HeapInv => PriorityQueue!LargestFirst
<1> SUFFICES ASSUME HeapInv PROVE PriorityQueue!LargestFirst
  OBVIOUS
<1>1. PICK m \in Nat : m = Len(rep) /\ rep \in Arrays(m)
  BY SequenceIsArray DEF HeapInv
<1>2. PriorityQueue!Bag(rep) = items /\ Ordered(rep, 0, m)
  BY <1>1 DEF HeapInv
<1>3. ASSUME NEW i \in 1 .. Len(rep) - 1
      PROVE  PriorityQueue!At(rep, i) <= PriorityQueue!At(rep, PriorityQueue!Parent(i))
  <2>1. PICK q \in Nat : q = P(i) /\ q >= 0
    BY ParentOf
  <2>2. rep[i + 1] <= rep[q + 1]
    BY <1>1, <1>2, <2>1 DEF Ordered
  <2>3. QED
    BY <2>1, <2>2 DEF PriorityQueue!At, P
<1>4. items = [v \in Numbers |-> Count(rep, v)]
      /\ \A v \in Numbers : Count(rep, v) > 0 <=> \E i \in 1 .. m : rep[i] = v
  BY <1>1, <1>2, CountIs
<1>5. ASSUME rep # <<>>
      PROVE  items[Head(rep)] > 0 /\ \A v \in Numbers : items[v] > 0 => v <= Head(rep)
  <2>1. m # 0
    <3>1. rep \in Seq(Numbers)
      BY DEF HeapInv
    <3>2. QED
      BY <1>1, <1>5, <3>1
  <2>2. 1 \in 1 .. m /\ m \in 0 .. m
    BY <2>1
  <2>3. rep[1] \in Numbers
    BY <1>1, <2>2 DEF Arrays
  <2>4. Count(rep, rep[1]) > 0
    BY <1>4, <2>2, <2>3
  <2>5. \A i \in 1 .. m : rep[i] <= rep[1]
    BY <1>1, <1>2, <2>2, RootIsLargest
  <2>6. Head(rep) = rep[1]
    OBVIOUS
  <2>7. QED
    BY <1>4, <2>3, <2>4, <2>5, <2>6
<1>6. PICK s : s = PriorityQueue!sort(rep)
  OBVIOUS
<1>7. PriorityQueue!Bag(s) = items /\ \A i \in 1 .. Len(s) - 1 : s[i] <= s[i + 1]
  <2>1. CASE m = 0
    <3>0. rep \in Seq(Numbers) /\ Len(rep) = 0
      BY <1>1, <2>1 DEF HeapInv
    <3>1. rep = <<>> /\ rep \in Seq(Numbers)
      BY <3>0
    <3>2. s = rep
      BY <1>6, <3>1 DEF PriorityQueue!sort
    <3>3. Len(s) = 0
      BY <3>1, <3>2
    <3>4. QED
      BY <1>2, <3>2, <3>3
  <2>2. CASE m # 0
    <3>1. PICK l \in Nat \ {0} : l = m
      BY <2>2
    <3>2. Rearranged(rep, s, l, l) /\ \A i \in 1 .. l - 1 : s[i] <= s[i + 1]
      BY <1>1, <1>2, <1>6, <3>1, SortSorts
    <3>3. s \in Arrays(l) /\ PriorityQueue!Bag(s) = items
      BY <1>2, <3>2 DEF Rearranged
    <3>4. Len(s) = l
      BY <3>3, ArrayIs
    <3>5. QED
      BY <3>2, <3>3, <3>4
  <2>3. QED
    BY <2>1, <2>2
<1>8. QED
  BY <1>2, <1>3, <1>5, <1>6, <1>7 DEF PriorityQueue!LargestFirst

-----------------------------------------------------------------------------

(* The inductive invariant of each. *)
QueuesInv ==
  /\ kind \in LinearKinds
  /\ kind = "buffer" => StreamInv
  /\ kind = "ringbuffer" => RingInv
  /\ kind = "spinlock_queue" => SharedInv
  /\ kind = "heap" => HeapInv

LEMMA QueuesKeepInv == LinearSpec => []QueuesInv
<1>1. LinearInit => QueuesInv
  BY StreamStart, RingStart, SharedStart, HeapStart DEF LinearInit, QueuesInv, LinearKinds
<1>2. QueuesInv /\ [LinearNext]_vars => QueuesInv'
  <2> SUFFICES ASSUME QueuesInv, [LinearNext]_vars PROVE QueuesInv'
    OBVIOUS
  <2>1. CASE LinearNext
    BY <2>1, StreamStep, RingStep, SharedStep, HeapStep DEF LinearNext, QueuesInv
  <2>2. CASE UNCHANGED vars
    <3>1. kind' = kind /\ rep' = rep /\ items' = items
      BY <2>2 DEF vars
    <3>2. StreamInv' = StreamInv
      BY <3>1 DEF StreamInv
    <3>3. RingInv' = RingInv
      BY <3>1 DEF RingInv
    <3>4. SharedInv' = SharedInv
      BY <3>1 DEF SharedInv, SharedType, SharedMutex, SharedValues, StoresItems, SharedContents
    <3>5. HeapInv' = HeapInv
      BY <3>1 DEF HeapInv
    <3>6. QED
      BY <3>1, <3>2, <3>3, <3>4, <3>5 DEF QueuesInv
  <2>3. QED
    BY <2>1, <2>2
<1>3. QED
  BY <1>1, <1>2, PTL DEF LinearSpec

(* The buffer, the ring buffer and the spin-lock queue hand out what was     *)
(* put in, in order, for any threads, values, sizes and width of counters.   *)
THEOREM QueuesKeepTheirOrder == LinearSpec => []FirstInFirstOut
<1>1. QueuesInv => FirstInFirstOut
  BY StreamIsStream, RingIsQueue, SharedIsQueue DEF QueuesInv, FirstInFirstOut
<1>2. QED
  BY <1>1, QueuesKeepInv, PTL

(* However values are pushed, popped and merged in, the heap holds those put *)
(* in and not taken out, no value is above its parent, the front is the      *)
(* largest, and sort() would leave them all in ascending order: for any set  *)
(* of integers and any length.                                               *)
THEOREM HeapsKeepTheirOrder == LinearSpec => []HeapsAreOrdered
<1>1. QueuesInv => HeapsAreOrdered
  BY HeapLargestFirst DEF QueuesInv, HeapsAreOrdered
<1>2. QED
  BY <1>1, QueuesKeepInv, PTL
=============================================================================
