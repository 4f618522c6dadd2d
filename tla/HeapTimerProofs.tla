--------------------------- MODULE HeapTimerProofs ---------------------------
(* Proofs about HeapTimer, for any timers, timeouts and length of time: the *)
(* index finds every timer, the heap order holds as far as the loops        *)
(* restore it, tick() leaves no due timer, and the right timer leaves.      *)
EXTENDS HeapTimer, FiniteSetTheorems, WellFoundedInduction, TLAPS

Nodes == [id : Ids, expires : Nat]

(* A heap of n nodes that its index agrees with. *)
Indexed(r, n) ==
  /\ r.heap \in [0 .. n - 1 -> Nodes]
  /\ r.alive \in BOOLEAN
  /\ DOMAIN r.ref = {r.heap[i].id : i \in 0 .. n - 1}
  /\ \A i \in 0 .. n - 1 : r.ref[r.heap[i].id] = i

(* The order of the first n nodes: with b = 0 between every node and its    *)
(* parent, with b = 1 only where the parent is not the root, and with the   *)
(* size of the heap for b, nowhere.                                         *)
Edge(h, k, b) == Parent(k) >= b => h[Parent(k)].expires <= h[k].expires

Ordered(h, n, b) == \A k \in 1 .. n - 1 : Edge(h, k, b)

(* The order is broken at node i only: between i and its parent and between *)
(* i and its children.                                                      *)
BrokenAt(h, i, n, b) ==
  \A k \in 1 .. n - 1 :
    /\ k # i /\ Parent(k) # i => Edge(h, k, b)
    /\ Parent(k) = i /\ i > 0 /\ Parent(i) >= b => h[Parent(i)].expires <= h[k].expires

(* The same, and only between i and its parent, or i and its children.      *)
RisesFrom(h, i, n, b) ==
  /\ BrokenAt(h, i, n, b)
  /\ \A k \in 1 .. n - 1 : Parent(k) = i => Edge(h, k, b)
  /\ b = 0 => h[0].expires <= h[i].expires

SinksFrom(h, i, n, b) ==
  /\ BrokenAt(h, i, n, b)
  /\ i > 0 => Edge(h, i, b)

-----------------------------------------------------------------------------
(* Numbers, and the places of a heap. *)

(* A set of numbers that is not empty has a least one. *)
LEMMA LeastNatural ==
  ASSUME NEW S \in SUBSET Nat, S # {}
  PROVE  \E m \in S : \A k \in S : m <= k
<1>1. PICK m \in S : \A k \in S : ~(<<k, m>> \in OpToRel(<, Nat))
  BY NatLessThanWellFounded, WFMin
<1>2. \A k \in S : ~(k < m)
  BY <1>1 DEF OpToRel
<1>3. QED
  BY <1>2

(* The parent of a place, and of its two children. *)
LEMMA ParentOf ==
  ASSUME NEW k \in Nat \ {0}
  PROVE  Parent(k) \in Nat /\ Parent(k) < k /\ (k = 2 * Parent(k) + 1 \/ k = 2 * Parent(k) + 2)
BY Z3 DEF Parent

LEMMA ChildOf ==
  ASSUME NEW i \in Nat
  PROVE  Parent(2 * i + 1) = i /\ Parent(2 * i + 2) = i
BY Z3 DEF Parent

(* The size of a heap with places 0 .. n - 1. *)
LEMMA SizeOf ==
  ASSUME NEW n \in Nat, NEW h, DOMAIN h = 0 .. n - 1
  PROVE  Size(h) = n
<1>1. Cardinality(0 .. n - 1) = IF 0 > n - 1 THEN 0 ELSE (n - 1) - 0 + 1
  BY FS_Interval
<1>2. QED
  BY <1>1 DEF Size

(* The fields of a node. *)
LEMMA NodeFields ==
  ASSUME NEW x \in Nodes
  PROVE  x.id \in Ids /\ x.expires \in Nat
BY DEF Nodes

-----------------------------------------------------------------------------
(* SwapNode_(). *)

(* It exchanges two nodes. *)
LEMMA SwapHeap ==
  ASSUME NEW r, NEW n \in Nat, r.heap \in [0 .. n - 1 -> Nodes],
         NEW i \in 0 .. n - 1, NEW j \in 0 .. n - 1
  PROVE  LET q == SwapNode_(r, i, j)
         IN  /\ q.heap \in [0 .. n - 1 -> Nodes]
             /\ q.heap[i] = r.heap[j] /\ q.heap[j] = r.heap[i]
             /\ \A k \in 0 .. n - 1 : k # i /\ k # j => q.heap[k] = r.heap[k]
             /\ q.alive = r.alive
BY DEF SwapNode_

(* The index follows. *)
LEMMA SwapIndexed ==
  ASSUME NEW r, NEW n \in Nat, Indexed(r, n), NEW i \in 0 .. n - 1, NEW j \in 0 .. n - 1
  PROVE  Indexed(SwapNode_(r, i, j), n)
<1> DEFINE q == SwapNode_(r, i, j)
           a == r.heap[i].id
           c == r.heap[j].id
<1>1. /\ r.heap \in [0 .. n - 1 -> Nodes]
      /\ r.alive \in BOOLEAN
      /\ DOMAIN r.ref = {r.heap[k].id : k \in 0 .. n - 1}
      /\ \A k \in 0 .. n - 1 : r.ref[r.heap[k].id] = k
  BY DEF Indexed
<1>2. /\ q.heap \in [0 .. n - 1 -> Nodes]
      /\ q.heap[i] = r.heap[j] /\ q.heap[j] = r.heap[i]
      /\ \A k \in 0 .. n - 1 : k # i /\ k # j => q.heap[k] = r.heap[k]
      /\ q.alive = r.alive
  BY <1>1 DEF SwapNode_
<1>3. q.ref = [r.ref EXCEPT ![c] = i, ![a] = j]
  BY DEF SwapNode_
<1>4. DOMAIN q.ref = DOMAIN r.ref
  BY <1>3
<1>5. {q.heap[k].id : k \in 0 .. n - 1} = {r.heap[k].id : k \in 0 .. n - 1}
  <2>1. ASSUME NEW k \in 0 .. n - 1 PROVE \E m \in 0 .. n - 1 : q.heap[k] = r.heap[m]
    BY <1>2
  <2>2. ASSUME NEW k \in 0 .. n - 1 PROVE \E m \in 0 .. n - 1 : r.heap[k] = q.heap[m]
    BY <1>2
  <2> HIDE DEF q
  <2>3. QED
    BY <2>1, <2>2
<1>6. a \in DOMAIN r.ref /\ c \in DOMAIN r.ref
  BY <1>1
<1>7. q.ref[a] = j /\ q.ref[c] = i
  <2>1. r.ref[a] = i /\ r.ref[c] = j
    BY <1>1
  <2>2. q.ref[a] = j
    BY <1>3, <1>6
  <2>3. CASE a = c
    BY <2>1, <2>2, <2>3
  <2>4. CASE a # c
    BY <1>3, <1>6, <2>2, <2>4
  <2>5. QED
    BY <2>3, <2>4
<1>8. ASSUME NEW k \in 0 .. n - 1 PROVE q.ref[q.heap[k].id] = k
  <2>1. CASE k = i
    BY <1>2, <1>7, <2>1
  <2>2. CASE k = j
    BY <1>2, <1>7, <2>2
  <2>3. CASE k # i /\ k # j
    <3>1. r.heap[k].id # a /\ r.heap[k].id # c
      BY <1>1, <2>3
    <3>2. r.heap[k].id \in DOMAIN r.ref
      BY <1>1
    <3>3. q.ref[r.heap[k].id] = r.ref[r.heap[k].id]
      BY <1>3, <3>1, <3>2
    <3>4. QED
      BY <1>1, <1>2, <2>3, <3>3
  <2>4. QED
    BY <2>1, <2>2, <2>3
<1> HIDE DEF q
<1>9. QED
  BY <1>1, <1>2, <1>4, <1>5, <1>8 DEF Indexed, q

-----------------------------------------------------------------------------
(* The loop of siftup_(). *)

(* The turns are what the recursion says. *)
LEMMA RiseTurnsExist ==
  ASSUME NEW r, NEW i \in Nat
  PROVE  LET turn == RiseTurns(r, i)
         IN  turn = [k \in 0 .. i |-> IF k = 0 THEN [r |-> r, i |-> i] ELSE RiseOnce(turn[k - 1])]
<1> DEFINE G(f, m) ==
             f = [k \in 0 .. m |-> IF k = 0 THEN [r |-> r, i |-> i] ELSE RiseOnce(f[k - 1])]
           Bad == {m \in 0 .. i : ~\E f : G(f, m)}
<1>1. Bad = {}
  <2> SUFFICES ASSUME Bad # {} PROVE FALSE
    OBVIOUS
  <2>1. \E m \in Bad : \A k \in Bad : m <= k
    <3>1. Bad \in SUBSET Nat
      OBVIOUS
    <3> HIDE DEF Bad
    <3>2. QED
      BY <3>1, LeastNatural
  <2>2. PICK m \in Bad : \A k \in Bad : m <= k
    BY <2>1
  <2>3. m # 0
    <3>1. G([k \in 0 .. 0 |-> [r |-> r, i |-> i]], 0)
      OBVIOUS
    <3>2. QED
      BY <2>2, <3>1
  <2>4. PICK f : G(f, m - 1)
    BY <2>2, <2>3
  <2> DEFINE g == [k \in 0 .. m |-> IF k = m THEN RiseOnce(f[m - 1]) ELSE f[k]]
  <2>5. G(g, m)
    <3>1. m \in Nat \ {0}
      BY <2>2, <2>3
    <3>2. ASSUME NEW k \in 0 .. m
          PROVE  g[k] = IF k = 0 THEN [r |-> r, i |-> i] ELSE RiseOnce(g[k - 1])
      <4>1. CASE k = m
        BY <3>1, <4>1
      <4>2. CASE k # m
        BY <2>4, <3>1, <4>2
      <4>3. QED
        BY <4>1, <4>2
    <3>3. QED
      BY <3>2
  <2>6. QED
    BY <2>2, <2>5
<1>2. \E f : G(f, i)
  BY <1>1
<1>3. RiseTurns(r, i) = CHOOSE f : G(f, i)
  BY DEF RiseTurns
<1>4. QED
  BY <1>2, <1>3

(* What the loop keeps of the order, turn by turn, as it started from i0 in *)
(* a heap of N nodes, of which the first n are in question: the root and    *)
(* what lies behind i0 stay.                                                *)
RiseKeeps(q, r, i0, N, n, b) ==
  /\ Indexed(q.r, N)
  /\ DOMAIN q.r.ref = DOMAIN r.ref
  /\ q.r.alive = r.alive
  /\ q.i \in 1 .. i0
  /\ RisesFrom(q.r.heap, q.i, n, b)
  /\ q.r.heap[0] = r.heap[0]
  /\ \A k \in i0 + 1 .. N - 1 : q.r.heap[k] = r.heap[k]

(* A turn keeps the order but for the place that rises. *)
LEMMA RiseOrder ==
  ASSUME NEW N \in Nat, NEW n \in 0 .. N, NEW b \in Nat, b <= 1 \/ b >= N,
         NEW h \in [0 .. N - 1 -> Nodes], NEW g \in [0 .. N - 1 -> Nodes],
         NEW i \in 1 .. n - 1, RisesFrom(h, i, n, b), ~RiseEnds(h, i),
         g[i] = h[Parent(i)], g[Parent(i)] = h[i],
         \A k \in 0 .. N - 1 : k # i /\ k # Parent(i) => g[k] = h[k]
  PROVE  RisesFrom(g, Parent(i), n, b)
<1> DEFINE j == Parent(i)
<1>1. j \in Nat /\ j > 0 /\ j < i
  BY ParentOf DEF RiseEnds
<1>2. \A k \in 0 .. N - 1 : h[k].expires \in Nat /\ g[k].expires \in Nat
  BY NodeFields
<1>3. h[i].expires <= h[j].expires
  BY <1>1, <1>2 DEF RiseEnds, Less
<1>4. \A k \in 1 .. n - 1 : Parent(k) \in 0 .. N - 1 /\ Parent(k) < k
  BY ParentOf
<1>5. ASSUME NEW k \in 1 .. n - 1, k # i
      PROVE  Edge(h, k, b)
  BY <1>5 DEF RisesFrom, BrokenAt
<1>6. ASSUME NEW k \in 1 .. n - 1, k # j
      PROVE  Edge(g, k, b)
  <2>1. CASE k = i
    BY <1>1, <1>3, <2>1 DEF Edge
  <2>2. CASE k # i /\ Parent(k) = i
    <3>1. i >= b => h[j].expires <= h[k].expires
      BY <1>1, <2>2 DEF RisesFrom, BrokenAt
    <3>2. g[k] = h[k]
      BY <1>6, <2>2
    <3>3. QED
      BY <2>2, <3>1, <3>2 DEF Edge
  <2>3. CASE k # i /\ Parent(k) = j
    <3>1. j >= b => h[j].expires <= h[k].expires
      BY <1>1, <1>5, <2>3 DEF Edge
    <3>2. g[k] = h[k]
      BY <1>6, <2>3
    <3>3. j \in 0 .. N - 1
      BY <1>1
    <3>4. QED
      BY <1>2, <1>3, <2>3, <3>1, <3>2, <3>3 DEF Edge
  <2>4. CASE k # i /\ Parent(k) # i /\ Parent(k) # j
    <3>1. g[k] = h[k] /\ g[Parent(k)] = h[Parent(k)]
      BY <1>4, <1>6, <2>4
    <3>2. QED
      BY <1>5, <2>4, <3>1 DEF Edge
  <2>5. QED
    BY <2>1, <2>2, <2>3, <2>4
<1>7. ASSUME NEW k \in 1 .. n - 1, Parent(k) = j, Parent(j) >= b
      PROVE  g[Parent(j)].expires <= g[k].expires
  <2>1. j \in 1 .. n - 1 /\ j # i
    BY <1>1
  <2>2. Parent(j) \in 0 .. N - 1 /\ Parent(j) < j
    BY <1>4, <2>1
  <2>3. h[Parent(j)].expires <= h[j].expires
    BY <1>5, <1>7, <2>1 DEF Edge
  <2>4. g[Parent(j)] = h[Parent(j)]
    BY <1>1, <2>2
  <2>5. CASE k = i
    BY <2>3, <2>4, <2>5
  <2>6. CASE k # i
    <3>1. h[j].expires <= h[k].expires
      BY <1>1, <1>5, <1>7, <2>2, <2>6 DEF Edge
    <3>2. g[k] = h[k]
      BY <1>4, <1>7, <2>6
    <3>3. QED
      BY <1>2, <2>1, <2>2, <2>3, <2>4, <3>1, <3>2
  <2>7. QED
    BY <2>5, <2>6
<1>8. b = 0 => g[0].expires <= g[j].expires
  <2>1. g[0] = h[0]
    BY <1>1
  <2>2. QED
    BY <2>1 DEF RisesFrom
<1>9. \A k \in 1 .. n - 1 : Parent(k) = j => k # j
  BY <1>4
<1>10. QED
  BY <1>6, <1>7, <1>8, <1>9 DEF RisesFrom, BrokenAt

(* One turn of the loop. *)
LEMMA RiseTurn ==
  ASSUME NEW q, NEW r, NEW N \in Nat, NEW n \in 0 .. N, NEW b \in Nat, b <= 1 \/ b >= N,
         NEW i0 \in 1 .. n - 1, RiseKeeps(q, r, i0, N, n, b)
  PROVE  /\ RiseKeeps(RiseOnce(q), r, i0, N, n, b)
         /\ RiseEnds(q.r.heap, q.i) => RiseOnce(q) = q
         /\ ~RiseEnds(q.r.heap, q.i) => RiseOnce(q).i < q.i
<1>1. CASE RiseEnds(q.r.heap, q.i)
  BY <1>1 DEF RiseOnce
<1>2. CASE ~RiseEnds(q.r.heap, q.i)
  <2> DEFINE i == q.i
             j == Parent(q.i)
             p == SwapNode_(q.r, i, j)
  <2>1. RiseOnce(q) = [r |-> p, i |-> j]
    BY <1>2 DEF RiseOnce
  <2>2. RiseOnce(q).r = p /\ RiseOnce(q).i = j
    BY <2>1
  <2>3. i \in 1 .. i0 /\ i \in 1 .. n - 1 /\ Indexed(q.r, N) /\ q.r.heap \in [0 .. N - 1 -> Nodes]
    BY DEF RiseKeeps, Indexed
  <2>4. j \in Nat /\ j > 0 /\ j < i
    BY <1>2, <2>3, ParentOf DEF RiseEnds
  <2>5. i \in 0 .. N - 1 /\ j \in 0 .. N - 1
    BY <2>3, <2>4
  <2>6. Indexed(p, N)
    BY <2>3, <2>5, SwapIndexed
  <2>7. /\ p.heap \in [0 .. N - 1 -> Nodes]
        /\ p.heap[i] = q.r.heap[j] /\ p.heap[j] = q.r.heap[i]
        /\ \A k \in 0 .. N - 1 : k # i /\ k # j => p.heap[k] = q.r.heap[k]
        /\ DOMAIN p.ref = DOMAIN q.r.ref
        /\ p.alive = q.r.alive
    BY <2>3, <2>5 DEF SwapNode_
  <2> HIDE DEF p
  <2>8. RisesFrom(p.heap, j, n, b)
    <3>1. RisesFrom(q.r.heap, i, n, b)
      BY DEF RiseKeeps
    <3>2. QED
      BY <1>2, <2>3, <2>7, <3>1, RiseOrder
  <2>9. p.heap[0] = q.r.heap[0] /\ \A k \in i0 + 1 .. N - 1 : p.heap[k] = q.r.heap[k]
    BY <2>3, <2>4, <2>7
  <2>10. RiseKeeps(RiseOnce(q), r, i0, N, n, b)
    BY <2>2, <2>3, <2>4, <2>6, <2>7, <2>8, <2>9 DEF RiseKeeps
  <2>11. QED
    BY <1>2, <2>2, <2>4, <2>10
<1>3. QED
  BY <1>1, <1>2

(* Where the loop ends, the order is restored. *)
LEMMA RisenOrder ==
  ASSUME NEW N \in Nat, NEW n \in 0 .. N, NEW b \in Nat, b <= 1 \/ b >= N, NEW h \in [0 .. N - 1 -> Nodes],
         NEW i \in 1 .. n - 1, RisesFrom(h, i, n, b), RiseEnds(h, i)
  PROVE  Ordered(h, n, b)
<1>1. Parent(i) \in Nat /\ Parent(i) < i
  BY ParentOf
<1>2. h[i].expires \in Nat /\ h[Parent(i)].expires \in Nat
  BY <1>1, NodeFields
<1>3. Edge(h, i, b)
  BY <1>1, <1>2 DEF RisesFrom, RiseEnds, Edge, Less
<1>4. QED
  BY <1>3 DEF RisesFrom, BrokenAt, Ordered

(* siftup_() from below the root restores the order. *)
LEMMA RiseRestores ==
  ASSUME NEW r, NEW N \in Nat, NEW n \in 0 .. N, NEW b \in Nat, b <= 1 \/ b >= N, NEW i \in 1 .. n - 1,
         Indexed(r, N), RisesFrom(r.heap, i, n, b)
  PROVE  /\ Indexed(Rise(r, i), N)
         /\ DOMAIN Rise(r, i).ref = DOMAIN r.ref
         /\ Rise(r, i).alive = r.alive
         /\ Ordered(Rise(r, i).heap, n, b)
         /\ Rise(r, i).heap[0] = r.heap[0]
         /\ \A k \in i + 1 .. N - 1 : Rise(r, i).heap[k] = r.heap[k]
<1> DEFINE turn == RiseTurns(r, i)
           Good(k) == /\ RiseKeeps(turn[k], r, i, N, n, b)
                      /\ RiseEnds(turn[k].r.heap, turn[k].i) \/ turn[k].i <= i - k
           Bad == {k \in 0 .. i : ~Good(k)}
<1>1. turn[0] = [r |-> r, i |-> i] /\ \A k \in 1 .. i : turn[k] = RiseOnce(turn[k - 1])
  <2>1. turn = [k \in 0 .. i |-> IF k = 0 THEN [r |-> r, i |-> i] ELSE RiseOnce(turn[k - 1])]
    BY RiseTurnsExist
  <2> HIDE DEF turn
  <2>2. QED
    BY <2>1
<1> HIDE DEF turn
<1>2. Good(0)
  <2>1. turn[0].r = r /\ turn[0].i = i
    BY <1>1
  <2>2. QED
    BY <2>1 DEF RiseKeeps
<1>3. ASSUME NEW k \in 1 .. i, Good(k - 1)
      PROVE  Good(k)
  <2> DEFINE q == turn[k - 1]
  <2>1. RiseKeeps(q, r, i, N, n, b)
    BY <1>3
  <2>2. turn[k] = RiseOnce(q)
    BY <1>1
  <2>3. /\ RiseKeeps(RiseOnce(q), r, i, N, n, b)
        /\ RiseEnds(q.r.heap, q.i) => RiseOnce(q) = q
        /\ ~RiseEnds(q.r.heap, q.i) => RiseOnce(q).i < q.i
    <3> HIDE DEF q
    <3>1. QED
      BY <2>1, RiseTurn
  <2>4. q.i \in Nat /\ RiseOnce(q).i \in Nat
    BY <2>1, <2>3 DEF RiseKeeps
  <2>5. RiseEnds(q.r.heap, q.i) \/ q.i <= i - (k - 1)
    BY <1>3
  <2> HIDE DEF q
  <2>6. CASE RiseEnds(q.r.heap, q.i)
    BY <2>2, <2>3, <2>6
  <2>7. CASE ~RiseEnds(q.r.heap, q.i)
    BY <2>2, <2>3, <2>4, <2>5, <2>7
  <2>8. QED
    BY <2>6, <2>7
<1>4. Bad = {}
  <2> SUFFICES ASSUME Bad # {} PROVE FALSE
    OBVIOUS
  <2>1. \E m \in Bad : \A k \in Bad : m <= k
    <3>1. Bad \in SUBSET Nat
      OBVIOUS
    <3> HIDE DEF Bad
    <3>2. QED
      BY <3>1, LeastNatural
  <2>2. PICK m \in Bad : \A k \in Bad : m <= k
    BY <2>1
  <2>3. m \in 1 .. i /\ ~Good(m)
    <3> HIDE DEF Good
    <3>1. QED
      BY <1>2, <2>2
  <2> HIDE DEF Good
  <2>4. Good(m - 1)
    BY <2>2, <2>3
  <2>5. QED
    BY <1>3, <2>3, <2>4
<1> DEFINE q == turn[i]
<1>5. RiseKeeps(q, r, i, N, n, b) /\ (RiseEnds(q.r.heap, q.i) \/ q.i <= i - i)
  BY <1>4
<1>6. Rise(r, i) = q.r
  BY DEF Rise, turn
<1> HIDE DEF q, Good, Bad
<1>7. RiseEnds(q.r.heap, q.i) /\ q.i \in 1 .. n - 1 /\ q.r.heap \in [0 .. N - 1 -> Nodes]
  BY <1>5 DEF RiseKeeps, Indexed
<1>8. Ordered(q.r.heap, n, b)
  <2>1. RisesFrom(q.r.heap, q.i, n, b)
    BY <1>5 DEF RiseKeeps
  <2>2. QED
    BY <1>7, <2>1, RisenOrder
<1>9. QED
  BY <1>5, <1>6, <1>8 DEF RiseKeeps

-----------------------------------------------------------------------------
(* The loop of siftdown_(). *)

(* The turns are what the recursion says. *)
LEMMA SinkTurnsExist ==
  ASSUME NEW r, NEW i, NEW n \in Nat
  PROVE  LET turn == SinkTurns(r, i, n)
         IN  turn = [k \in 0 .. n |-> IF k = 0 THEN [r |-> r, i |-> i] ELSE SinkOnce(turn[k - 1], n)]
<1> DEFINE G(f, m) ==
             f = [k \in 0 .. m |-> IF k = 0 THEN [r |-> r, i |-> i] ELSE SinkOnce(f[k - 1], n)]
           Bad == {m \in 0 .. n : ~\E f : G(f, m)}
<1>1. Bad = {}
  <2> SUFFICES ASSUME Bad # {} PROVE FALSE
    OBVIOUS
  <2>1. \E m \in Bad : \A k \in Bad : m <= k
    <3>1. Bad \in SUBSET Nat
      OBVIOUS
    <3> HIDE DEF Bad
    <3>2. QED
      BY <3>1, LeastNatural
  <2>2. PICK m \in Bad : \A k \in Bad : m <= k
    BY <2>1
  <2>3. m # 0
    <3>1. G([k \in 0 .. 0 |-> [r |-> r, i |-> i]], 0)
      OBVIOUS
    <3>2. QED
      BY <2>2, <3>1
  <2>4. PICK f : G(f, m - 1)
    BY <2>2, <2>3
  <2> DEFINE g == [k \in 0 .. m |-> IF k = m THEN SinkOnce(f[m - 1], n) ELSE f[k]]
  <2>5. G(g, m)
    <3>1. m \in Nat \ {0}
      BY <2>2, <2>3
    <3>2. ASSUME NEW k \in 0 .. m
          PROVE  g[k] = IF k = 0 THEN [r |-> r, i |-> i] ELSE SinkOnce(g[k - 1], n)
      <4>1. CASE k = m
        BY <3>1, <4>1
      <4>2. CASE k # m
        BY <2>4, <3>1, <4>2
      <4>3. QED
        BY <4>1, <4>2
    <3>3. QED
      BY <3>2
  <2>6. QED
    BY <2>2, <2>5
<1>2. \E f : G(f, n)
  BY <1>1
<1>3. SinkTurns(r, i, n) = CHOOSE f : G(f, n)
  BY DEF SinkTurns
<1>4. QED
  BY <1>2, <1>3

(* The child chosen is the earlier one. *)
LEMMA ChildLeast ==
  ASSUME NEW N \in Nat, NEW n \in 0 .. N, NEW h \in [0 .. N - 1 -> Nodes],
         NEW i \in 0 .. n - 1, 2 * i + 1 < n, NEW j, j = Child(h, 2 * i + 1, n)
  PROVE  /\ j \in 1 .. n - 1 /\ j > i /\ Parent(j) = i
         /\ \A k \in 1 .. n - 1 : Parent(k) = i => h[j].expires <= h[k].expires
<1> DEFINE c == 2 * i + 1
           d == 2 * i + 2
<1>1. \A k \in 0 .. N - 1 : h[k].expires \in Nat
  BY NodeFields
<1>2. Parent(c) = i /\ Parent(d) = i
  <2>1. i \in Nat
    OBVIOUS
  <2>2. Parent(2 * i + 1) = i /\ Parent(2 * i + 2) = i
    BY <2>1, ChildOf
  <2>3. QED
    BY <2>2
<1>3. ASSUME NEW k \in 1 .. n - 1, Parent(k) = i
      PROVE  k = c \/ k = d
  <2>0. k \in Nat \ {0}
    OBVIOUS
  <2>1. k = 2 * Parent(k) + 1 \/ k = 2 * Parent(k) + 2
    BY <2>0, ParentOf
  <2>2. QED
    BY <1>3, <2>1
<1>4. c + 1 = d /\ c \in 1 .. n - 1 /\ c > i /\ d > i /\ c \in 0 .. N - 1
  OBVIOUS
<1>5. d < n => d \in 0 .. N - 1 /\ d \in 1 .. n - 1
  OBVIOUS
<1>6. j = IF d < n /\ Less(h, d, c) THEN d ELSE c
  BY <1>4 DEF Child
<1> HIDE DEF c, d
<1>7. j \in 1 .. n - 1 /\ j > i /\ Parent(j) = i
  BY <1>2, <1>4, <1>5, <1>6
<1>8. /\ h[j].expires <= h[c].expires
      /\ d < n => h[j].expires <= h[d].expires
  BY <1>1, <1>4, <1>5, <1>6 DEF Less
<1>9. ASSUME NEW k \in 1 .. n - 1, Parent(k) = i
      PROVE  h[j].expires <= h[k].expires
  BY <1>3, <1>8, <1>9
<1>10. QED
  BY <1>7, <1>9

(* What the loop keeps of the order, turn by turn, as it started from i0 in *)
(* a heap of N nodes, of which it minds the first n: what lies before i0 or *)
(* behind n stays.                                                          *)
SinkKeeps(q, r, i0, N, n, b) ==
  /\ Indexed(q.r, N)
  /\ DOMAIN q.r.ref = DOMAIN r.ref
  /\ q.r.alive = r.alive
  /\ q.i \in i0 .. n - 1
  /\ SinksFrom(q.r.heap, q.i, n, b)
  /\ \A k \in 0 .. N - 1 : k < i0 \/ k >= n => q.r.heap[k] = r.heap[k]

(* A turn keeps the order but for the place that sinks. *)
LEMMA SinkOrder ==
  ASSUME NEW N \in Nat, NEW n \in 0 .. N, NEW b \in Nat, b <= 1 \/ b >= N,
         NEW h \in [0 .. N - 1 -> Nodes], NEW g \in [0 .. N - 1 -> Nodes],
         NEW i \in 0 .. n - 1, NEW j \in 1 .. n - 1, j > i, Parent(j) = i,
         \A k \in 1 .. n - 1 : Parent(k) = i => h[j].expires <= h[k].expires,
         SinksFrom(h, i, n, b), h[j].expires <= h[i].expires,
         g[i] = h[j], g[j] = h[i],
         \A k \in 0 .. N - 1 : k # i /\ k # j => g[k] = h[k]
  PROVE  SinksFrom(g, j, n, b)
<1>1. \A k \in 1 .. n - 1 : Parent(k) \in 0 .. N - 1 /\ Parent(k) < k
  BY ParentOf
<1>2. ASSUME NEW k \in 1 .. n - 1, k # j, Parent(k) # j
      PROVE  Edge(g, k, b)
  <2>1. CASE k = i
    <3>1. Parent(i) >= b => h[Parent(i)].expires <= h[j].expires
      BY <1>2, <2>1 DEF SinksFrom, BrokenAt
    <3>2. g[Parent(i)] = h[Parent(i)]
      BY <1>1, <1>2, <2>1
    <3>3. QED
      BY <2>1, <3>1, <3>2 DEF Edge
  <2>2. CASE k # i /\ Parent(k) = i
    <3>1. g[k] = h[k]
      BY <1>2, <2>2
    <3>2. QED
      BY <2>2, <3>1 DEF Edge
  <2>3. CASE k # i /\ Parent(k) # i
    <3>1. g[k] = h[k] /\ g[Parent(k)] = h[Parent(k)]
      BY <1>1, <1>2, <2>3
    <3>2. Edge(h, k, b)
      BY <2>3 DEF SinksFrom, BrokenAt
    <3>3. QED
      BY <3>1, <3>2 DEF Edge
  <2>4. QED
    BY <2>1, <2>2, <2>3
<1>3. ASSUME NEW k \in 1 .. n - 1, Parent(k) = j, i >= b
      PROVE  g[i].expires <= g[k].expires
  <2>1. k # i /\ k # j /\ Parent(k) # i
    BY <1>1, <1>3
  <2>2. Edge(h, k, b)
    BY <2>1 DEF SinksFrom, BrokenAt
  <2>3. h[j].expires <= h[k].expires
    BY <1>3, <2>2 DEF Edge
  <2>4. g[k] = h[k]
    BY <2>1
  <2>5. QED
    BY <2>3, <2>4
<1>4. Edge(g, j, b)
  BY DEF Edge
<1>5. QED
  BY <1>2, <1>3, <1>4 DEF SinksFrom, BrokenAt

(* Where the loop goes on, the earlier child is no later than the node. *)
LEMMA SinkGoesOn ==
  ASSUME NEW N \in Nat, NEW n \in 0 .. N, NEW h \in [0 .. N - 1 -> Nodes],
         NEW i \in 0 .. n - 1, ~SinkEnds(h, i, n)
  PROVE  LET j == Child(h, 2 * i + 1, n)
         IN  /\ j \in 1 .. n - 1 /\ j > i /\ Parent(j) = i
             /\ \A k \in 1 .. n - 1 : Parent(k) = i => h[j].expires <= h[k].expires
             /\ h[j].expires <= h[i].expires
<1> DEFINE j == Child(h, 2 * i + 1, n)
<1>1. 2 * i + 1 < n /\ ~Less(h, i, j)
  BY DEF SinkEnds
<1>2. /\ j \in 1 .. n - 1 /\ j > i /\ Parent(j) = i
      /\ \A k \in 1 .. n - 1 : Parent(k) = i => h[j].expires <= h[k].expires
  BY <1>1, ChildLeast
<1> HIDE DEF j
<1>3. h[j].expires \in Nat /\ h[i].expires \in Nat
  BY <1>2, NodeFields
<1>4. h[j].expires <= h[i].expires
  BY <1>1, <1>3 DEF Less
<1>5. QED
  BY <1>2, <1>4 DEF j

(* Where it ends, the node is no later than its children. *)
LEMMA SunkOrder ==
  ASSUME NEW N \in Nat, NEW n \in 0 .. N, NEW h \in [0 .. N - 1 -> Nodes],
         NEW i \in 0 .. n - 1, SinkEnds(h, i, n)
  PROVE  \A k \in 1 .. n - 1 : Parent(k) = i => h[i].expires <= h[k].expires
<1> DEFINE j == Child(h, 2 * i + 1, n)
<1>1. CASE 2 * i + 1 < n
  <2>1. /\ j \in 1 .. n - 1 /\ j > i /\ Parent(j) = i
        /\ \A k \in 1 .. n - 1 : Parent(k) = i => h[j].expires <= h[k].expires
    BY <1>1, ChildLeast
  <2>2. h[i].expires < h[j].expires
    BY <1>1 DEF SinkEnds, Less
  <2> HIDE DEF j
  <2>3. \A k \in 0 .. N - 1 : h[k].expires \in Nat
    BY NodeFields
  <2>4. QED
    BY <2>1, <2>2, <2>3
<1>2. CASE 2 * i + 1 >= n
  <2>1. ASSUME NEW k \in 1 .. n - 1, Parent(k) = i
        PROVE  FALSE
    <3>1. k \in Nat \ {0}
      OBVIOUS
    <3>2. k = 2 * Parent(k) + 1 \/ k = 2 * Parent(k) + 2
      BY <3>1, ParentOf
    <3>3. QED
      BY <1>2, <2>1, <3>2
  <2>2. QED
    BY <2>1
<1>3. QED
  BY <1>1, <1>2

(* One turn of the loop. *)
LEMMA SinkTurn ==
  ASSUME NEW q, NEW r, NEW N \in Nat, NEW n \in 0 .. N, NEW b \in Nat, b <= 1 \/ b >= N,
         NEW i0 \in 0 .. n - 1, SinkKeeps(q, r, i0, N, n, b)
  PROVE  /\ SinkKeeps(SinkOnce(q, n), r, i0, N, n, b)
         /\ SinkEnds(q.r.heap, q.i, n) \/ SinkOnce(q, n).i > q.i
<1>1. CASE SinkEnds(q.r.heap, q.i, n)
  BY <1>1 DEF SinkOnce
<1>2. CASE ~SinkEnds(q.r.heap, q.i, n)
  <2> DEFINE i == q.i
             j == Child(q.r.heap, 2 * q.i + 1, n)
             p == SwapNode_(q.r, i, j)
  <2>1. SinkOnce(q, n) = [r |-> p, i |-> j]
    BY <1>2 DEF SinkOnce
  <2>2. SinkOnce(q, n).r = p /\ SinkOnce(q, n).i = j
    BY <2>1
  <2>3. i \in i0 .. n - 1 /\ i \in 0 .. n - 1 /\ Indexed(q.r, N) /\ q.r.heap \in [0 .. N - 1 -> Nodes]
    BY DEF SinkKeeps, Indexed
  <2>4. /\ j \in 1 .. n - 1 /\ j > i /\ Parent(j) = i
        /\ \A k \in 1 .. n - 1 : Parent(k) = i => q.r.heap[j].expires <= q.r.heap[k].expires
        /\ q.r.heap[j].expires <= q.r.heap[i].expires
    BY <1>2, <2>3, SinkGoesOn
  <2> HIDE DEF j
  <2>5. i \in 0 .. N - 1 /\ j \in 0 .. N - 1
    BY <2>3, <2>4
  <2>6. Indexed(p, N)
    BY <2>3, <2>5, SwapIndexed
  <2>7. /\ p.heap \in [0 .. N - 1 -> Nodes]
        /\ p.heap[i] = q.r.heap[j] /\ p.heap[j] = q.r.heap[i]
        /\ \A k \in 0 .. N - 1 : k # i /\ k # j => p.heap[k] = q.r.heap[k]
        /\ DOMAIN p.ref = DOMAIN q.r.ref
        /\ p.alive = q.r.alive
    BY <2>3, <2>5 DEF SwapNode_
  <2> HIDE DEF p
  <2>8. SinksFrom(p.heap, j, n, b)
    <3>1. SinksFrom(q.r.heap, i, n, b)
      BY DEF SinkKeeps
    <3>2. QED
      BY <2>3, <2>4, <2>7, <3>1, SinkOrder
  <2>9. \A k \in 0 .. N - 1 : k < i0 \/ k >= n => p.heap[k] = q.r.heap[k]
    BY <2>3, <2>4, <2>7
  <2>10. SinkKeeps(SinkOnce(q, n), r, i0, N, n, b)
    BY <2>2, <2>3, <2>4, <2>6, <2>7, <2>8, <2>9 DEF SinkKeeps
  <2>11. QED
    BY <1>2, <2>2, <2>4, <2>10
<1>3. QED
  BY <1>1, <1>2

(* siftdown_() restores the order below a node that is not too early. *)
LEMMA SinkRestores ==
  ASSUME NEW r, NEW N \in Nat, NEW n \in 0 .. N, NEW b \in Nat, b <= 1 \/ b >= N, NEW i \in 0 .. n - 1,
         Indexed(r, N), SinksFrom(r.heap, i, n, b)
  PROVE  /\ Indexed(Sink(r, i, n), N)
         /\ DOMAIN Sink(r, i, n).ref = DOMAIN r.ref
         /\ Sink(r, i, n).alive = r.alive
         /\ Ordered(Sink(r, i, n).heap, n, b)
         /\ \A k \in 0 .. N - 1 : k < i \/ k >= n => Sink(r, i, n).heap[k] = r.heap[k]
<1> DEFINE turn == SinkTurns(r, i, n)
           Good(k) == /\ SinkKeeps(turn[k], r, i, N, n, b)
                      /\ SinkEnds(turn[k].r.heap, turn[k].i, n) \/ turn[k].i >= i + k
           Bad == {k \in 0 .. n : ~Good(k)}
<1>1. turn[0] = [r |-> r, i |-> i] /\ \A k \in 1 .. n : turn[k] = SinkOnce(turn[k - 1], n)
  <2>1. turn = [k \in 0 .. n |-> IF k = 0 THEN [r |-> r, i |-> i] ELSE SinkOnce(turn[k - 1], n)]
    BY SinkTurnsExist
  <2> HIDE DEF turn
  <2>2. QED
    BY <2>1
<1> HIDE DEF turn
<1>2. Good(0)
  <2>1. turn[0].r = r /\ turn[0].i = i
    BY <1>1
  <2>2. QED
    BY <2>1 DEF SinkKeeps
<1>3. ASSUME NEW k \in 1 .. n, Good(k - 1)
      PROVE  Good(k)
  <2> DEFINE q == turn[k - 1]
  <2>1. SinkKeeps(q, r, i, N, n, b)
    BY <1>3
  <2>2. turn[k] = SinkOnce(q, n)
    BY <1>1
  <2>3. /\ SinkKeeps(SinkOnce(q, n), r, i, N, n, b)
        /\ SinkEnds(q.r.heap, q.i, n) \/ SinkOnce(q, n).i > q.i
    <3> HIDE DEF q, Good, Bad
    <3>1. QED
      BY <2>1, SinkTurn
  <2>4. q.i \in Nat /\ SinkOnce(q, n).i \in Nat
    BY <2>1, <2>3 DEF SinkKeeps
  <2>5. SinkEnds(q.r.heap, q.i, n) \/ q.i >= i + (k - 1)
    BY <1>3
  <2> HIDE DEF q
  <2>6. CASE SinkEnds(q.r.heap, q.i, n)
    <3>1. SinkOnce(q, n) = q
      BY <2>6 DEF SinkOnce
    <3>2. QED
      BY <2>2, <2>3, <2>6, <3>1
  <2>7. CASE ~SinkEnds(q.r.heap, q.i, n)
    BY <2>2, <2>3, <2>4, <2>5, <2>7
  <2>8. QED
    BY <2>6, <2>7
<1>4. Bad = {}
  <2> SUFFICES ASSUME Bad # {} PROVE FALSE
    OBVIOUS
  <2>1. \E m \in Bad : \A k \in Bad : m <= k
    <3>1. Bad \in SUBSET Nat
      OBVIOUS
    <3> HIDE DEF Bad
    <3>2. QED
      BY <3>1, LeastNatural
  <2>2. PICK m \in Bad : \A k \in Bad : m <= k
    BY <2>1
  <2>3. m \in 1 .. n /\ ~Good(m)
    <3> HIDE DEF Good
    <3>1. QED
      BY <1>2, <2>2
  <2> HIDE DEF Good
  <2>4. Good(m - 1)
    BY <2>2, <2>3
  <2>5. QED
    BY <1>3, <2>3, <2>4
<1> DEFINE q == turn[n]
<1>5. SinkKeeps(q, r, i, N, n, b) /\ (SinkEnds(q.r.heap, q.i, n) \/ q.i >= i + n)
  BY <1>4
<1>6. Sink(r, i, n) = q.r
  BY DEF Sink, turn
<1> HIDE DEF q, Good, Bad
<1>7. /\ SinkEnds(q.r.heap, q.i, n)
      /\ q.i \in 0 .. n - 1
      /\ q.r.heap \in [0 .. N - 1 -> Nodes]
      /\ SinksFrom(q.r.heap, q.i, n, b)
  BY <1>5 DEF SinkKeeps, Indexed
<1>8. Ordered(q.r.heap, n, b)
  <2>1. ASSUME NEW k \in 1 .. n - 1 PROVE Edge(q.r.heap, k, b)
    <3>1. CASE Parent(k) = q.i
      BY <1>7, <3>1, SunkOrder DEF Edge
    <3>2. CASE Parent(k) # q.i
      BY <1>7, <3>2 DEF SinksFrom, BrokenAt
    <3>3. QED
      BY <3>1, <3>2
  <2>2. QED
    BY <2>1 DEF Ordered
<1>9. QED
  BY <1>5, <1>6, <1>8 DEF SinkKeeps

-----------------------------------------------------------------------------
(* siftdown_() or siftup_(), whichever is needed. *)

(* Where the order holds throughout, no node is earlier than the root. *)
LEMMA RootIsFirst ==
  ASSUME NEW N \in Nat, NEW n \in 0 .. N, NEW h \in [0 .. N - 1 -> Nodes], Ordered(h, n, 0)
  PROVE  \A k \in 0 .. n - 1 : h[0].expires <= h[k].expires
<1> DEFINE Bad == {k \in 0 .. n - 1 : ~(h[0].expires <= h[k].expires)}
<1>1. \A k \in 0 .. N - 1 : h[k].expires \in Nat
  BY NodeFields
<1>2. Bad = {}
  <2> SUFFICES ASSUME Bad # {} PROVE FALSE
    OBVIOUS
  <2>1. \E m \in Bad : \A k \in Bad : m <= k
    <3>1. Bad \in SUBSET Nat
      OBVIOUS
    <3> HIDE DEF Bad
    <3>2. QED
      BY <3>1, LeastNatural
  <2>2. PICK m \in Bad : \A k \in Bad : m <= k
    BY <2>1
  <2>3. m \in 1 .. n - 1 /\ m \in Nat \ {0}
    BY <1>1, <2>2
  <2>4. Parent(m) \in Nat /\ Parent(m) < m
    BY <2>3, ParentOf
  <2>5. Parent(m) \in 0 .. n - 1 /\ h[0].expires <= h[Parent(m)].expires
    BY <2>2, <2>3, <2>4
  <2>6. h[Parent(m)].expires <= h[m].expires
    BY <2>3, <2>4 DEF Ordered, Edge
  <2>7. h[0].expires \in Nat /\ h[m].expires \in Nat /\ h[Parent(m)].expires \in Nat
    BY <1>1, <2>3, <2>5
  <2>8. QED
    BY <2>2, <2>5, <2>6, <2>7
<1>3. QED
  BY <1>2

(* The order that was there before node i was replaced is broken there only. *)
LEMMA ReplacedBreaks ==
  ASSUME NEW N \in Nat, NEW n \in 0 .. N, NEW b \in Nat,
         NEW h \in [0 .. N - 1 -> Nodes], NEW g \in [0 .. N - 1 -> Nodes], NEW i \in 0 .. n - 1,
         Ordered(h, n, b), \A k \in 0 .. n - 1 : k # i => g[k] = h[k]
  PROVE  BrokenAt(g, i, n, b)
<1>1. \A k \in 1 .. n - 1 : Parent(k) \in 0 .. n - 1 /\ Parent(k) < k
  BY ParentOf
<1>2. \A k \in 0 .. N - 1 : h[k].expires \in Nat
  BY NodeFields
<1>3. ASSUME NEW k \in 1 .. n - 1, k # i, Parent(k) # i
      PROVE  Edge(g, k, b)
  <2>1. Edge(h, k, b)
    BY DEF Ordered
  <2>2. g[k] = h[k] /\ g[Parent(k)] = h[Parent(k)]
    BY <1>1, <1>3
  <2>3. QED
    BY <2>1, <2>2 DEF Edge
<1>4. ASSUME NEW k \in 1 .. n - 1, Parent(k) = i, i > 0, Parent(i) >= b
      PROVE  g[Parent(i)].expires <= g[k].expires
  <2>1. Parent(i) \in 0 .. n - 1 /\ Parent(i) < i
    BY <1>1, <1>4
  <2>2. h[Parent(i)].expires <= h[i].expires
    BY <1>4, <2>1 DEF Ordered, Edge
  <2>3. h[i].expires <= h[k].expires
    BY <1>4, <2>1 DEF Ordered, Edge
  <2>4. g[k] = h[k] /\ g[Parent(i)] = h[Parent(i)]
    BY <1>1, <1>4, <2>1
  <2>5. h[Parent(i)].expires \in Nat /\ h[i].expires \in Nat /\ h[k].expires \in Nat
    BY <1>2, <2>1
  <2>6. QED
    BY <2>2, <2>3, <2>4, <2>5
<1>5. QED
  BY <1>3, <1>4 DEF BrokenAt

(* From the root, siftup_() moves nothing. *)
LEMMA UpFromRoot ==
  ASSUME NEW r, NEW N \in Nat, Indexed(r, N), NEW q \in siftup_(r, 0)
  PROVE  Indexed(q, N) /\ q.heap = r.heap /\ q.ref = r.ref /\ (q.alive => r.alive)
<1>1. CASE q = r
  BY <1>1
<1>2. CASE q = Abort(r)
  <2>1. q.heap = r.heap /\ q.ref = r.ref /\ q.alive = FALSE
    BY <1>2 DEF Abort
  <2>2. q.alive \in BOOLEAN
    BY <2>1
  <2>3. Indexed(q, N)
    BY <2>1, <2>2 DEF Indexed
  <2>4. QED
    BY <2>1, <2>3, Zenon
<1>3. QED
  BY <1>1, <1>2 DEF siftup_

(* The two together restore an order that is broken at one node. *)
LEMMA SiftRestores ==
  ASSUME NEW r, NEW N \in Nat, NEW n \in 0 .. N, NEW b \in Nat, b <= 1 \/ b >= N,
         NEW i \in 0 .. n - 1,
         Indexed(r, N), BrokenAt(r.heap, i, n, b),
         b = 0 => r.heap[0].expires <= r.heap[i].expires,
         NEW q \in Sift(r, i, n)
  PROVE  /\ Indexed(q, N)
         /\ DOMAIN q.ref = DOMAIN r.ref
         /\ q.alive => r.alive
         /\ Ordered(q.heap, n, b)
         /\ i > 0 => q.heap[0] = r.heap[0]
         /\ \A k \in n .. N - 1 : q.heap[k] = r.heap[k]
<1>1. r.heap \in [0 .. N - 1 -> Nodes]
  BY DEF Indexed
<1>2. \A k \in 0 .. N - 1 : r.heap[k].expires \in Nat
  BY <1>1, NodeFields
<1>3. CASE ~SinkEnds(r.heap, i, n)
  <2> DEFINE j == Child(r.heap, 2 * i + 1, n)
  <2>1. /\ j \in 1 .. n - 1 /\ j > i /\ Parent(j) = i
        /\ \A k \in 1 .. n - 1 : Parent(k) = i => r.heap[j].expires <= r.heap[k].expires
        /\ r.heap[j].expires <= r.heap[i].expires
    BY <1>1, <1>3, SinkGoesOn
  <2> HIDE DEF j
  <2>2. ASSUME i > 0, Parent(i) >= b
        PROVE  r.heap[Parent(i)].expires <= r.heap[i].expires
    <3>1. r.heap[Parent(i)].expires <= r.heap[j].expires
      BY <2>1, <2>2 DEF BrokenAt
    <3>2. Parent(i) \in 0 .. N - 1
      BY <2>2, ParentOf
    <3>3. QED
      BY <1>2, <2>1, <3>1, <3>2
  <2>3. SinksFrom(r.heap, i, n, b)
    BY <2>2 DEF SinksFrom, Edge
  <2>4. q = Sink(r, i, n)
    BY <1>3 DEF Sift
  <2>5. /\ Indexed(q, N)
        /\ DOMAIN q.ref = DOMAIN r.ref
        /\ q.alive = r.alive
        /\ Ordered(q.heap, n, b)
        /\ \A k \in 0 .. N - 1 : k < i \/ k >= n => q.heap[k] = r.heap[k]
    BY <2>3, <2>4, SinkRestores
  <2>6. QED
    BY <2>5
<1>4. CASE SinkEnds(r.heap, i, n)
  <2>1. \A k \in 1 .. n - 1 : Parent(k) = i => r.heap[i].expires <= r.heap[k].expires
    BY <1>1, <1>4, SunkOrder
  <2>2. q \in siftup_(r, i)
    BY <1>4 DEF Sift
  <2>3. CASE i = 0
    <3>1. Indexed(q, N) /\ q.heap = r.heap /\ q.ref = r.ref /\ (q.alive => r.alive)
      BY <2>2, <2>3, UpFromRoot
    <3>3. ASSUME NEW k \in 1 .. n - 1 PROVE Edge(r.heap, k, b)
      BY <2>1, <2>3 DEF BrokenAt, Edge
    <3>4. QED
      BY <2>3, <3>1, <3>3 DEF Ordered, Edge
  <2>4. CASE i > 0
    <3>1. q = Rise(r, i)
      BY <2>2, <2>4 DEF siftup_
    <3>2. RisesFrom(r.heap, i, n, b)
      BY <2>1 DEF RisesFrom, Edge
    <3>3. i \in 1 .. n - 1
      BY <2>4
    <3>4. /\ Indexed(q, N)
          /\ DOMAIN q.ref = DOMAIN r.ref
          /\ q.alive = r.alive
          /\ Ordered(q.heap, n, b)
          /\ q.heap[0] = r.heap[0]
          /\ \A k \in i + 1 .. N - 1 : q.heap[k] = r.heap[k]
      BY <3>1, <3>2, <3>3, RiseRestores
    <3>5. QED
      BY <3>4
  <2>5. QED
    BY <2>3, <2>4
<1>5. QED
  BY <1>3, <1>4

-----------------------------------------------------------------------------
(* The member functions. *)

(* A node appended. *)
LEMMA AppendedIndexed ==
  ASSUME NEW r, NEW p, NEW n \in Nat, NEW x \in Nodes, Indexed(r, n), x.id \notin DOMAIN r.ref,
         p.heap = [k \in 0 .. n |-> IF k = n THEN x ELSE r.heap[k]],
         p.ref = [k \in DOMAIN r.ref \cup {x.id} |-> IF k = x.id THEN n ELSE r.ref[k]],
         p.alive = r.alive
  PROVE  Indexed(p, n + 1)
<1>1. /\ r.heap \in [0 .. n - 1 -> Nodes]
      /\ r.alive \in BOOLEAN
      /\ DOMAIN r.ref = {r.heap[k].id : k \in 0 .. n - 1}
      /\ \A k \in 0 .. n - 1 : r.ref[r.heap[k].id] = k
  BY DEF Indexed
<1>2. 0 .. (n + 1) - 1 = 0 .. n
  OBVIOUS
<1>3. p.heap \in [0 .. n -> Nodes]
  BY <1>1
<1>4. p.heap[n] = x /\ \A k \in 0 .. n - 1 : p.heap[k] = r.heap[k]
  OBVIOUS
<1>5. DOMAIN p.ref = {p.heap[k].id : k \in 0 .. n}
  <2>1. DOMAIN p.ref = DOMAIN r.ref \cup {x.id}
    OBVIOUS
  <2>2. \A k \in 0 .. n : k = n \/ k \in 0 .. n - 1
    OBVIOUS
  <2>3. n \in 0 .. n /\ \A k \in 0 .. n - 1 : k \in 0 .. n
    OBVIOUS
  <2>4. QED
    BY <1>1, <1>4, <2>1, <2>2, <2>3
<1>6. ASSUME NEW k \in 0 .. n PROVE p.ref[p.heap[k].id] = k
  <2>1. CASE k = n
    BY <1>4, <2>1
  <2>2. CASE k # n
    <3>1. k \in 0 .. n - 1
      BY <2>2
    <3>2. r.heap[k].id \in DOMAIN r.ref /\ r.ref[r.heap[k].id] = k
      BY <1>1, <3>1
    <3>3. p.ref[r.heap[k].id] = r.ref[r.heap[k].id]
      BY <3>2
    <3>4. QED
      BY <1>4, <3>1, <3>2, <3>3
  <2>3. QED
    BY <2>1, <2>2
<1>7. QED
  BY <1>1, <1>2, <1>3, <1>5, <1>6 DEF Indexed

(* add() of a new timer. *)
LEMMA AddNewKeeps ==
  ASSUME NEW r, NEW n \in Nat, NEW b \in Nat, b <= 1 \/ b >= n + 1,
         NEW id \in Ids, NEW t \in Nat, time \in Nat, id \notin DOMAIN r.ref,
         Indexed(r, n), Ordered(r.heap, n, b),
         b = 0 => \A k \in 0 .. n - 1 : r.heap[k].expires <= time + t,
         NEW q \in AddNew(r, id, t)
  PROVE  /\ Indexed(q, n + 1)
         /\ Ordered(q.heap, n + 1, b)
         /\ n > 0 => q.heap[0] = r.heap[0]
<1> DEFINE x == Node(id, t)
           p == [heap  |-> [k \in 0 .. n |-> IF k = n THEN x ELSE r.heap[k]],
                 ref   |-> [k \in DOMAIN r.ref \cup {id} |-> IF k = id THEN n ELSE r.ref[k]],
                 alive |-> r.alive]
<1>1. x \in Nodes /\ x.id = id /\ x.expires = time + t
  BY DEF Node, Nodes
<1>2. Size(r.heap) = n
  BY SizeOf DEF Indexed
<1>3. q \in siftup_(p, n)
  BY <1>2 DEF AddNew
<1>4. /\ p.heap = [k \in 0 .. n |-> IF k = n THEN x ELSE r.heap[k]]
      /\ p.ref = [k \in DOMAIN r.ref \cup {x.id} |-> IF k = x.id THEN n ELSE r.ref[k]]
      /\ p.alive = r.alive
  BY <1>1
<1> HIDE DEF x, p
<1>5. Indexed(p, n + 1)
  BY <1>1, <1>4, AppendedIndexed
<1>6. p.heap[n] = x /\ \A k \in 0 .. n - 1 : p.heap[k] = r.heap[k]
  BY <1>4
<1>7. CASE n = 0
  <2>1. Indexed(q, n + 1)
    BY <1>3, <1>5, <1>7, UpFromRoot
  <2>2. Ordered(q.heap, n + 1, b)
    BY <1>7 DEF Ordered
  <2>3. QED
    BY <1>7, <2>1, <2>2
<1>8. CASE n > 0
  <2>1. q = Rise(p, n)
    BY <1>3, <1>8 DEF siftup_
  <2>2. \A k \in 1 .. n : Parent(k) \in 0 .. n - 1 /\ Parent(k) < k
    BY ParentOf
  <2>3. ASSUME NEW k \in 1 .. n, k # n
        PROVE  Edge(p.heap, k, b)
    <3>1. k \in 1 .. n - 1 /\ Edge(r.heap, k, b)
      BY <2>3 DEF Ordered
    <3>2. p.heap[k] = r.heap[k] /\ p.heap[Parent(k)] = r.heap[Parent(k)]
      BY <1>6, <2>2, <3>1
    <3>3. QED
      BY <3>1, <3>2 DEF Edge
  <2>4. b = 0 => p.heap[0].expires <= p.heap[n].expires
    BY <1>1, <1>6, <1>8
  <2>5. RisesFrom(p.heap, n, n + 1, b)
    BY <2>2, <2>3, <2>4 DEF RisesFrom, BrokenAt
  <2>6. n \in 1 .. (n + 1) - 1 /\ n + 1 \in Nat /\ n + 1 \in 0 .. n + 1
    BY <1>8
  <2>7. /\ Indexed(q, n + 1)
        /\ Ordered(q.heap, n + 1, b)
        /\ q.heap[0] = p.heap[0]
    BY <1>5, <2>1, <2>5, <2>6, RiseRestores
  <2>8. QED
    BY <1>6, <1>8, <2>7
<1>9. QED
  BY <1>7, <1>8

(* A timer's expiry is set anew. *)
LEMMA RenewIndexed ==
  ASSUME NEW r, NEW n \in Nat, NEW id \in DOMAIN r.ref, NEW t \in Nat, time \in Nat,
         Indexed(r, n)
  PROVE  /\ Indexed(Renew(r, id, t), n)
         /\ r.ref[id] \in 0 .. n - 1 /\ r.heap[r.ref[id]].id = id
         /\ Renew(r, id, t).heap[r.ref[id]].expires = time + t
         /\ \A k \in 0 .. n - 1 : k # r.ref[id] => Renew(r, id, t).heap[k] = r.heap[k]
<1> DEFINE p == Renew(r, id, t)
           i == r.ref[id]
           x == Node(id, t)
<1>1. /\ r.heap \in [0 .. n - 1 -> Nodes]
      /\ r.alive \in BOOLEAN
      /\ DOMAIN r.ref = {r.heap[k].id : k \in 0 .. n - 1}
      /\ \A k \in 0 .. n - 1 : r.ref[r.heap[k].id] = k
  BY DEF Indexed
<1>2. i \in 0 .. n - 1 /\ r.heap[i].id = id
  BY <1>1
<1>3. id \in Ids
  BY <1>1, <1>2, NodeFields
<1>4. x \in Nodes /\ x.id = id /\ x.expires = time + t
  BY <1>3 DEF Node, Nodes
<1>5. p.heap = [r.heap EXCEPT ![i] = x] /\ p.ref = r.ref /\ p.alive = r.alive
  BY DEF Renew
<1> HIDE DEF p, i, x
<1>6. /\ p.heap \in [0 .. n - 1 -> Nodes]
      /\ p.heap[i] = x
      /\ \A k \in 0 .. n - 1 : k # i => p.heap[k] = r.heap[k]
  BY <1>1, <1>2, <1>4, <1>5
<1>7. \A k \in 0 .. n - 1 : p.heap[k].id = r.heap[k].id
  BY <1>2, <1>4, <1>6
<1>8. {p.heap[k].id : k \in 0 .. n - 1} = {r.heap[k].id : k \in 0 .. n - 1}
  BY <1>7
<1>9. Indexed(p, n)
  BY <1>1, <1>5, <1>6, <1>7, <1>8 DEF Indexed
<1>10. QED
  BY <1>2, <1>4, <1>6, <1>9 DEF p, i

(* add() of a timer that is there. *)
LEMMA AddAgainKeeps ==
  ASSUME NEW r, NEW n \in Nat, NEW b \in Nat, b <= 1 \/ b >= n,
         NEW id \in DOMAIN r.ref, NEW t \in Nat, time \in Nat,
         Indexed(r, n), Ordered(r.heap, n, b),
         b = 0 => \A k \in 0 .. n - 1 : r.heap[k].expires <= time + t,
         NEW q \in AddAgain(r, id, t)
  PROVE  /\ Indexed(q, n)
         /\ Ordered(q.heap, n, b)
         /\ r.ref[id] # 0 => q.heap[0] = r.heap[0]
<1> DEFINE p == Renew(r, id, t)
           i == r.ref[id]
<1>1. /\ Indexed(p, n)
      /\ i \in 0 .. n - 1
      /\ p.heap[i].expires = time + t
      /\ \A k \in 0 .. n - 1 : k # i => p.heap[k] = r.heap[k]
  BY RenewIndexed
<1>2. Size(r.heap) = n
  BY SizeOf DEF Indexed
<1>3. q \in Sift(p, i, n)
  BY <1>2 DEF AddAgain
<1> HIDE DEF p, i
<1>4. r.heap \in [0 .. n - 1 -> Nodes] /\ p.heap \in [0 .. n - 1 -> Nodes]
  BY <1>1 DEF Indexed
<1>5. n \in 0 .. n
  OBVIOUS
<1>6. BrokenAt(p.heap, i, n, b)
  BY <1>1, <1>4, <1>5, ReplacedBreaks
<1>7. b = 0 => p.heap[0].expires <= p.heap[i].expires
  <2>1. CASE i = 0
    BY <1>1, <2>1
  <2>2. CASE i # 0
    BY <1>1, <2>2
  <2>3. QED
    BY <2>1, <2>2
<1>8. /\ Indexed(q, n)
      /\ Ordered(q.heap, n, b)
      /\ i > 0 => q.heap[0] = p.heap[0]
  BY <1>1, <1>3, <1>5, <1>6, <1>7, SiftRestores
<1>9. QED
  BY <1>1, <1>8 DEF i

(* adjust() of a timer that is there. *)
LEMMA AdjustKeeps ==
  ASSUME NEW r, NEW n \in Nat, NEW b \in Nat, b <= 1 \/ b >= n,
         NEW id \in DOMAIN r.ref, NEW t \in Nat, time \in Nat,
         Indexed(r, n), Ordered(r.heap, n, b),
         b < n => r.heap[r.ref[id]].expires <= time + t
  PROVE  /\ Indexed(adjust(r, id, t), n)
         /\ Ordered(adjust(r, id, t).heap, n, b)
         /\ r.ref[id] # 0 => adjust(r, id, t).heap[0] = r.heap[0]
<1> DEFINE p == Renew(r, id, t)
           i == r.ref[id]
           q == adjust(r, id, t)
<1>1. /\ Indexed(p, n)
      /\ i \in 0 .. n - 1
      /\ p.heap[i].expires = time + t
      /\ \A k \in 0 .. n - 1 : k # i => p.heap[k] = r.heap[k]
  BY RenewIndexed
<1>2. Size(r.heap) = n
  BY SizeOf DEF Indexed
<1>3. q = Sink(p, i, n)
  BY <1>2 DEF adjust
<1> HIDE DEF p, i, q
<1>4. r.heap \in [0 .. n - 1 -> Nodes] /\ p.heap \in [0 .. n - 1 -> Nodes]
  BY <1>1 DEF Indexed
<1>5. n \in 0 .. n
  OBVIOUS
<1>6. BrokenAt(p.heap, i, n, b)
  BY <1>1, <1>4, <1>5, ReplacedBreaks
<1>7. ASSUME i > 0, Parent(i) >= b
      PROVE  p.heap[Parent(i)].expires <= p.heap[i].expires
  <2>1. Parent(i) \in 0 .. n - 1 /\ Parent(i) < i
    BY <1>1, <1>7, ParentOf
  <2>2. r.heap[Parent(i)].expires <= r.heap[i].expires
    BY <1>1, <1>7 DEF Ordered, Edge
  <2>3. r.heap[i].expires <= time + t
    BY <1>1, <1>7, <2>1 DEF i
  <2>4. p.heap[Parent(i)] = r.heap[Parent(i)]
    BY <1>1, <2>1
  <2>5. r.heap[i].expires \in Nat /\ r.heap[Parent(i)].expires \in Nat
    BY <1>1, <1>4, <2>1, NodeFields
  <2>6. QED
    BY <1>1, <2>2, <2>3, <2>4, <2>5
<1>8. SinksFrom(p.heap, i, n, b)
  BY <1>6, <1>7 DEF SinksFrom, Edge
<1>9. /\ Indexed(q, n)
      /\ Ordered(q.heap, n, b)
      /\ \A k \in 0 .. n - 1 : k < i \/ k >= n => q.heap[k] = p.heap[k]
  BY <1>1, <1>3, <1>5, <1>8, SinkRestores
<1>10. i # 0 => q.heap[0] = r.heap[0]
  BY <1>1, <1>9
<1>11. QED
  BY <1>9, <1>10 DEF i, q

(* The last node dropped. *)
LEMMA DropIndexed ==
  ASSUME NEW r, NEW n \in Nat, Indexed(r, n + 1)
  PROVE  /\ Indexed(Drop(r), n)
         /\ \A k \in 0 .. n - 1 : Drop(r).heap[k] = r.heap[k]
         /\ DOMAIN Drop(r).ref = DOMAIN r.ref \ {r.heap[n].id}
         /\ Drop(r).alive = r.alive
<1> DEFINE p == Drop(r)
           a == r.heap[n].id
<1>1. 0 .. (n + 1) - 1 = 0 .. n
  OBVIOUS
<1>2. /\ r.heap \in [0 .. n -> Nodes]
      /\ r.alive \in BOOLEAN
      /\ DOMAIN r.ref = {r.heap[k].id : k \in 0 .. n}
      /\ \A k \in 0 .. n : r.ref[r.heap[k].id] = k
  BY <1>1 DEF Indexed
<1>3. Size(r.heap) - 1 = n
  <2>1. Size(r.heap) = n + 1
    BY <1>1, <1>2, SizeOf
  <2>2. QED
    BY <2>1
<1>4. /\ p.heap = [k \in 0 .. n - 1 |-> r.heap[k]]
      /\ p.ref = [x \in DOMAIN r.ref \ {a} |-> r.ref[x]]
      /\ p.alive = r.alive
  BY <1>3 DEF Drop, Restrict
<1> HIDE DEF p, a
<1>5. n \in 0 .. n /\ \A k \in 0 .. n - 1 : k \in 0 .. n /\ k # n
  OBVIOUS
<1>6. /\ p.heap \in [0 .. n - 1 -> Nodes]
      /\ \A k \in 0 .. n - 1 : p.heap[k] = r.heap[k]
  BY <1>2, <1>4, <1>5
<1>7. \A k \in 0 .. n - 1 : r.heap[k].id # a /\ r.heap[k].id \in DOMAIN r.ref
  BY <1>2, <1>5 DEF a
<1>8. DOMAIN p.ref = {p.heap[k].id : k \in 0 .. n - 1}
  <2>1. DOMAIN p.ref = DOMAIN r.ref \ {a}
    BY <1>4
  <2>2. \A k \in 0 .. n : k = n \/ k \in 0 .. n - 1
    OBVIOUS
  <2>3. ASSUME NEW x \in DOMAIN r.ref, x # a
        PROVE  \E k \in 0 .. n - 1 : x = p.heap[k].id
    BY <1>2, <1>6, <2>2, <2>3 DEF a
  <2>4. ASSUME NEW k \in 0 .. n - 1
        PROVE  p.heap[k].id \in DOMAIN r.ref \ {a}
    BY <1>6, <1>7
  <2>5. QED
    BY <2>1, <2>3, <2>4
<1>9. ASSUME NEW k \in 0 .. n - 1 PROVE p.ref[p.heap[k].id] = k
  BY <1>2, <1>4, <1>5, <1>6, <1>7
<1>10. Indexed(p, n)
  BY <1>2, <1>4, <1>6, <1>8, <1>9 DEF Indexed
<1>11. DOMAIN p.ref = DOMAIN r.ref \ {a}
  BY <1>4
<1>12. QED
  BY <1>4, <1>6, <1>10, <1>11 DEF p, a

(* del_(): the timer at place i leaves, unless an assertion fails. *)
LEMMA DelKeeps ==
  ASSUME NEW r, NEW n \in Nat, NEW b \in Nat, b <= 1 \/ b >= n + 1,
         Indexed(r, n + 1), Ordered(r.heap, n + 1, b),
         NEW i \in 0 .. n, NEW q \in del_(r, i)
  PROVE  /\ Indexed(q, n) \/ (Indexed(q, n + 1) /\ ~q.alive)
         /\ q.alive => /\ Indexed(q, n)
                       /\ Ordered(q.heap, n, b)
                       /\ DOMAIN q.ref = DOMAIN r.ref \ {r.heap[i].id}
<1>1. 0 .. (n + 1) - 1 = 0 .. n
  OBVIOUS
<1>2. r.heap \in [0 .. n -> Nodes] /\ DOMAIN r.heap = 0 .. n
  BY <1>1 DEF Indexed
<1>3. Size(r.heap) - 1 = n
  <2>1. Size(r.heap) = n + 1
    BY <1>1, <1>2, SizeOf
  <2>2. QED
    BY <2>1
<1>4. ASSUME NEW p, Indexed(p, n + 1), Ordered(p.heap, n, b)
      PROVE  Indexed(Drop(p), n) /\ Ordered(Drop(p).heap, n, b)
  <2>1. /\ Indexed(Drop(p), n)
        /\ \A k \in 0 .. n - 1 : Drop(p).heap[k] = p.heap[k]
    BY <1>4, DropIndexed
  <2>2. ASSUME NEW k \in 1 .. n - 1 PROVE Edge(Drop(p).heap, k, b)
    <3>1. Parent(k) \in 0 .. n - 1
      BY ParentOf
    <3>2. Edge(p.heap, k, b)
      BY <1>4 DEF Ordered
    <3>3. QED
      BY <2>1, <3>1, <3>2 DEF Edge
  <2>3. QED
    BY <2>1, <2>2 DEF Ordered
<1>5. CASE i = n
  <2>1. q = Drop(r)
    BY <1>2, <1>3, <1>5 DEF del_
  <2>2. Ordered(r.heap, n, b)
    BY DEF Ordered
  <2>3. Indexed(q, n) /\ Ordered(q.heap, n, b)
    BY <1>4, <2>1, <2>2
  <2>4. DOMAIN q.ref = DOMAIN r.ref \ {r.heap[i].id}
    BY <1>5, <2>1, DropIndexed
  <2>5. QED
    BY <2>3, <2>4
<1>6. CASE i # n
  <2> DEFINE p == SwapNode_(r, i, n)
  <2>1. i \in 0 .. n - 1 /\ n \in 0 .. n + 1 /\ n + 1 \in Nat /\ n \in 0 .. n
    BY <1>6
  <2>2. PICK z \in Sift(p, i, n) : q = IF z.alive THEN Drop(z) ELSE z
    BY <1>2, <1>3, <1>6 DEF del_
  <2>3. Indexed(p, n + 1)
    BY <1>1, <2>1, SwapIndexed
  <2>4. /\ p.heap \in [0 .. n -> Nodes]
        /\ p.heap[i] = r.heap[n] /\ p.heap[n] = r.heap[i]
        /\ \A k \in 0 .. n : k # i /\ k # n => p.heap[k] = r.heap[k]
        /\ DOMAIN p.ref = DOMAIN r.ref
    BY <1>2, <2>1 DEF SwapNode_
  <2> HIDE DEF p
  <2>5. BrokenAt(p.heap, i, n, b)
    <3>1. Ordered(r.heap, n, b)
      BY DEF Ordered
    <3>2. \A k \in 0 .. n - 1 : k # i => p.heap[k] = r.heap[k]
      BY <2>4
    <3>3. QED
      BY <1>1, <1>2, <2>1, <2>4, <3>1, <3>2, ReplacedBreaks
  <2>6. b = 0 => p.heap[0].expires <= p.heap[i].expires
    <3>1. CASE i = 0
      <4>1. p.heap[0].expires \in Nat
        BY <2>4, NodeFields
      <4>2. QED
        BY <3>1, <4>1
    <3>2. CASE i # 0
      <4>1. SUFFICES ASSUME b = 0 PROVE p.heap[0].expires <= p.heap[i].expires
        OBVIOUS
      <4>2. \A k \in 0 .. (n + 1) - 1 : r.heap[0].expires <= r.heap[k].expires
        <5>1. n + 1 \in 0 .. n + 1 /\ r.heap \in [0 .. (n + 1) - 1 -> Nodes]
          BY <1>1, <1>2
        <5>2. Ordered(r.heap, n + 1, 0)
          BY <4>1
        <5>3. QED
          BY <2>1, <5>1, <5>2, RootIsFirst
      <4>3. r.heap[0].expires <= r.heap[n].expires
        BY <4>2
      <4>4. p.heap[0] = r.heap[0]
        BY <2>1, <2>4, <3>2
      <4>5. QED
        BY <2>4, <4>3, <4>4
    <3>3. QED
      BY <3>1, <3>2
  <2>7. /\ Indexed(z, n + 1)
        /\ DOMAIN z.ref = DOMAIN p.ref
        /\ Ordered(z.heap, n, b)
        /\ \A k \in n .. (n + 1) - 1 : z.heap[k] = p.heap[k]
    BY <2>1, <2>2, <2>3, <2>5, <2>6, SiftRestores
  <2>8. z.heap[n] = r.heap[i]
    BY <2>4, <2>7
  <2>9. CASE z.alive
    <3>1. q = Drop(z)
      BY <2>2, <2>9
    <3>2. Indexed(q, n) /\ Ordered(q.heap, n, b)
      BY <1>4, <2>7, <3>1
    <3>3. DOMAIN q.ref = DOMAIN z.ref \ {r.heap[i].id}
      BY <2>7, <2>8, <3>1, DropIndexed
    <3>4. DOMAIN z.ref = DOMAIN r.ref
      BY <2>4, <2>7
    <3>5. QED
      BY <3>2, <3>3, <3>4
  <2>10. CASE ~z.alive
    <3>1. q = z
      BY <2>2, <2>10
    <3>2. QED
      BY <2>7, <2>10, <3>1
  <2>11. QED
    BY <2>9, <2>10
<1>7. QED
  BY <1>5, <1>6

(* add(), of either kind. *)
LEMMA AddKeeps ==
  ASSUME NEW r, NEW n \in Nat, NEW b \in Nat, b <= 1 \/ b >= n + 1,
         NEW id \in Ids, NEW t \in Nat, time \in Nat,
         Indexed(r, n), Ordered(r.heap, n, b),
         b = 0 => \A k \in 0 .. n - 1 : r.heap[k].expires <= time + t,
         NEW q \in add(r, id, t), NEW m, m = IF id \in DOMAIN r.ref THEN n ELSE n + 1
  PROVE  /\ Indexed(q, m)
         /\ Ordered(q.heap, m, b)
         /\ n > 0 /\ r.heap[0].id # id => q.heap[0] = r.heap[0]
<1>1. CASE id \in DOMAIN r.ref
  <2>1. q \in AddAgain(r, id, t) /\ m = n
    BY <1>1 DEF add
  <2>2. /\ Indexed(q, n)
        /\ Ordered(q.heap, n, b)
        /\ r.ref[id] # 0 => q.heap[0] = r.heap[0]
    BY <1>1, <2>1, AddAgainKeeps
  <2>3. r.heap[r.ref[id]].id = id
    BY <1>1, RenewIndexed
  <2>4. QED
    BY <2>1, <2>2, <2>3
<1>2. CASE id \notin DOMAIN r.ref
  <2>1. q \in AddNew(r, id, t) /\ m = n + 1
    BY <1>2 DEF add
  <2>2. /\ Indexed(q, n + 1)
        /\ Ordered(q.heap, n + 1, b)
        /\ n > 0 => q.heap[0] = r.heap[0]
    BY <1>2, <2>1, AddNewKeeps
  <2>3. QED
    BY <2>1, <2>2
<1>3. QED
  BY <1>1, <1>2

(* Beyond the size of the heap, the order asks nothing. *)
LEMMA OrderedNowhere ==
  ASSUME NEW n \in Nat, NEW b \in Nat, b >= n, NEW h
  PROVE  Ordered(h, n, b)
<1>1. \A k \in 1 .. n - 1 : Parent(k) \in Nat /\ Parent(k) < k
  BY ParentOf
<1>2. \A k \in 1 .. n - 1 : ~(Parent(k) >= b)
  BY <1>1
<1>3. QED
  BY <1>2 DEF Ordered, Edge

-----------------------------------------------------------------------------
(* The inductive invariant. *)

DataInv ==
  /\ time \in 0 .. MaxTime
  /\ inOrder \in BOOLEAN /\ forward \in BOOLEAN
  /\ touched \subseteq Ids
  /\ Size(s.heap) \in Nat
  /\ Indexed(s, Size(s.heap))

(* Until an assertion fails, the order holds that the history allows. *)
OrderInv ==
  s.alive =>
    /\ ~forward => Ordered(s.heap, Size(s.heap), 1)
    /\ inOrder => Ordered(s.heap, Size(s.heap), 0)

(* The timer whose callback runs is where the member function that waits    *)
(* for it will delete: as long as the callback did not set it again, in     *)
(* tick(), or set any, in doWork().                                         *)
CallbackInv ==
  s.alive =>
    /\ running = Idle \/ running.in \in {"tick", "doWork"}
    /\ running.in = "tick" =>
         /\ running.at = 0
         /\ running.id \notin touched => Size(s.heap) > 0 /\ s.heap[0].id = running.id
    /\ running.in = "doWork" /\ touched = {} =>
         running.at \in DOMAIN s.heap /\ s.heap[running.at].id = running.id

TimerIndInv == DataInv /\ OrderInv /\ CallbackInv

(* What DataInv says, for a heap whose size has a name. *)
LEMMA DataFacts ==
  ASSUME DataInv
  PROVE  /\ time \in Nat
         /\ DOMAIN s.heap = 0 .. Size(s.heap) - 1
         /\ \A t \in Timeouts : t \in Nat
         /\ s.alive \in BOOLEAN
         /\ \A id \in DOMAIN s.ref : id \in Ids /\ s.heap[s.ref[id]].id = id
                                   /\ s.ref[id] \in DOMAIN s.heap
<1>1. time \in Nat /\ \A t \in Timeouts : t \in Nat
  BY HeapTimerAssumption DEF DataInv
<1>2. DOMAIN s.heap = 0 .. Size(s.heap) - 1 /\ s.alive \in BOOLEAN
  BY DEF DataInv, Indexed
<1>3. ASSUME NEW id \in DOMAIN s.ref
      PROVE  id \in Ids /\ s.heap[s.ref[id]].id = id /\ s.ref[id] \in DOMAIN s.heap
  <2>1. PICK k \in 0 .. Size(s.heap) - 1 : id = s.heap[k].id
    BY <1>3 DEF DataInv, Indexed
  <2>2. s.ref[id] = k
    BY <2>1 DEF DataInv, Indexed
  <2>3. s.heap[k] \in Nodes
    BY <2>1 DEF DataInv, Indexed
  <2>4. QED
    BY <1>2, <2>1, <2>2, <2>3, NodeFields
<1>4. QED
  BY <1>1, <1>2, <1>3

(* The invariant holds at the start, and of an empty heap. *)
LEMMA EmptyIndexed == Indexed(Empty, 0) /\ Size(Empty.heap) = 0
<1>1. DOMAIN Empty.heap = 0 .. 0 - 1 /\ DOMAIN Empty.ref = {} /\ Empty.alive = TRUE
  BY DEF Empty
<1>2. Size(Empty.heap) = 0
  BY <1>1, SizeOf
<1>3. Empty.heap \in [0 .. 0 - 1 -> Nodes]
  BY DEF Empty
<1>4. 0 .. 0 - 1 = {} /\ Empty.alive \in BOOLEAN
  <2>1. 0 .. 0 - 1 = {}
    OBVIOUS
  <2>2. Empty.alive \in BOOLEAN
    BY DEF Empty
  <2>3. QED
    BY <2>1, <2>2
<1>5. DOMAIN Empty.ref = {Empty.heap[i].id : i \in 0 .. 0 - 1}
  BY <1>1, <1>4
<1>6. \A i \in 0 .. 0 - 1 : Empty.ref[Empty.heap[i].id] = i
  BY <1>4
<1>7. QED
  BY <1>2, <1>3, <1>4, <1>5, <1>6 DEF Indexed

LEMMA TimerInit == Init => TimerIndInv
<1> SUFFICES ASSUME Init PROVE TimerIndInv
  OBVIOUS
<1>1. s = Empty /\ Indexed(s, 0) /\ Size(s.heap) = 0
  BY EmptyIndexed DEF Init
<1>2. DataInv
  <2>1. inOrder \in BOOLEAN /\ forward \in BOOLEAN
    BY DEF Init
  <2>2. time \in 0 .. MaxTime /\ touched \subseteq Ids
    BY HeapTimerAssumption DEF Init
  <2>3. Size(s.heap) \in Nat /\ Indexed(s, Size(s.heap))
    BY <1>1
  <2>4. QED
    BY <2>1, <2>2, <2>3 DEF DataInv
<1>3. OrderInv
  BY <1>1 DEF OrderInv, Ordered
<1>4. CallbackInv
  BY DEF CallbackInv, Init, Idle
<1>5. QED
  BY <1>2, <1>3, <1>4 DEF TimerIndInv

(* What a client or a callback asks of the timer. *)
LEMMA StepAdd ==
  ASSUME TimerIndInv, s.alive, NEW id \in Ids, NEW t \in Timeouts, Add(id, t)
  PROVE  TimerIndInv'
<1> DEFINE n == Size(s.heap)
           m == IF id \in DOMAIN s.ref THEN n ELSE n + 1
           Late == \A i \in DOMAIN s.heap : s.heap[i].expires <= time + t
<1>1. /\ n \in Nat /\ Indexed(s, n) /\ time \in Nat /\ t \in Nat
      /\ DOMAIN s.heap = 0 .. n - 1
  BY DataFacts DEF TimerIndInv, DataInv
<1>2. /\ s' \in add(s, id, t)
      /\ inOrder' = (inOrder /\ Late)
      /\ touched' = IF running = Idle THEN {} ELSE touched \cup {id}
      /\ UNCHANGED <<time, running, forward>>
  BY DEF Add, Note
<1>3. m \in Nat /\ m = IF id \in DOMAIN s.ref THEN n ELSE n + 1
  BY <1>1
<1> HIDE DEF n, m
<1>4. ASSUME NEW b \in Nat, b <= 1 \/ b >= n + 1, Ordered(s.heap, n, b), b = 0 => Late
      PROVE  /\ Indexed(s', m)
             /\ Ordered(s'.heap, m, b)
             /\ n > 0 /\ s.heap[0].id # id => s'.heap[0] = s.heap[0]
  <2>1. b = 0 => \A k \in 0 .. n - 1 : s.heap[k].expires <= time + t
    BY <1>1, <1>4
  <2> HIDE DEF Late
  <2>2. QED
    BY <1>1, <1>2, <1>3, <1>4, <2>1, AddKeeps
<1>5. /\ Indexed(s', m)
      /\ n > 0 /\ s.heap[0].id # id => s'.heap[0] = s.heap[0]
  <2>1. n + 1 \in Nat /\ n + 1 >= n /\ n + 1 >= n + 1 /\ n + 1 # 0
    BY <1>1
  <2>2. Ordered(s.heap, n, n + 1)
    BY <1>1, <2>1, OrderedNowhere
  <2> HIDE DEF Late
  <2>3. QED
    BY <1>4, <2>1, <2>2
<1>6. Size(s'.heap) = m
  BY <1>3, <1>5, SizeOf DEF Indexed
<1>7. DataInv'
  <2>1. inOrder' \in BOOLEAN /\ forward' \in BOOLEAN
    BY <1>2 DEF TimerIndInv, DataInv
  <2>2. touched' \subseteq Ids
    BY <1>2 DEF TimerIndInv, DataInv
  <2>3. time' \in 0 .. MaxTime
    BY <1>2 DEF TimerIndInv, DataInv
  <2>4. QED
    BY <1>3, <1>5, <1>6, <2>1, <2>2, <2>3 DEF DataInv
<1>8. OrderInv'
  <2>1. ASSUME ~forward PROVE Ordered(s'.heap, m, 1)
    <3>1. Ordered(s.heap, n, 1)
      BY <2>1 DEF TimerIndInv, OrderInv, n
    <3> HIDE DEF Late
    <3>2. QED
      BY <1>4, <3>1
  <2>2. ASSUME inOrder' PROVE Ordered(s'.heap, m, 0)
    <3>1. Ordered(s.heap, n, 0) /\ Late
      BY <1>2, <2>2 DEF TimerIndInv, OrderInv, n
    <3> HIDE DEF Late
    <3>2. QED
      BY <1>4, <3>1
  <2>3. QED
    BY <1>2, <1>6, <2>1, <2>2 DEF OrderInv
<1>9. CallbackInv'
  <2>1. running' = running
    BY <1>2
  <2>2. running = Idle \/ running.in \in {"tick", "doWork"}
    BY DEF TimerIndInv, CallbackInv
  <2>3. ASSUME running.in = "tick"
        PROVE  running.at = 0 /\ (running.id \notin touched' => m > 0 /\ s'.heap[0].id = running.id)
    <3>1. running.at = 0 /\ (running.id \notin touched => n > 0 /\ s.heap[0].id = running.id)
      BY <2>3 DEF TimerIndInv, CallbackInv, n
    <3>2. running # Idle
      BY <2>3 DEF Idle
    <3>3. running.id \notin touched' => running.id \notin touched /\ running.id # id
      BY <1>2, <3>2
    <3>4. m >= n
      BY <1>1, <1>3
    <3>5. QED
      BY <1>1, <1>3, <1>5, <3>1, <3>3, <3>4
  <2>4. running.in = "doWork" => touched' # {}
    <3>1. running.in = "doWork" => running # Idle
      BY DEF Idle
    <3>2. QED
      BY <1>2, <3>1
  <2>5. QED
    BY <1>6, <2>1, <2>2, <2>3, <2>4 DEF CallbackInv
<1>10. QED
  BY <1>7, <1>8, <1>9 DEF TimerIndInv

LEMMA StepAdjust ==
  ASSUME TimerIndInv, s.alive, NEW id \in Ids, NEW t \in Timeouts, Adjust(id, t)
  PROVE  TimerIndInv'
<1> DEFINE n == Size(s.heap)
           Late == \A i \in DOMAIN s.heap : s.heap[i].expires <= time + t
           old == s.heap[s.ref[id]].expires
<1>1. /\ n \in Nat /\ Indexed(s, n) /\ time \in Nat /\ t \in Nat
      /\ DOMAIN s.heap = 0 .. n - 1
      /\ id \in DOMAIN s.ref /\ s.ref[id] \in DOMAIN s.heap /\ s.heap[s.ref[id]].id = id
  BY DataFacts DEF TimerIndInv, DataInv, Adjust
<1>2. /\ s' = adjust(s, id, t)
      /\ inOrder' = (inOrder /\ Late)
      /\ touched' = IF running = Idle THEN {} ELSE touched \cup {id}
      /\ forward' = (forward \/ time + t < old)
      /\ UNCHANGED <<time, running>>
  BY DEF Adjust, Note
<1>3. old \in Nat
  BY <1>1, NodeFields DEF Indexed
<1> HIDE DEF n
<1>4. ASSUME NEW b \in Nat, b <= 1 \/ b >= n, Ordered(s.heap, n, b), b < n => old <= time + t
      PROVE  /\ Indexed(s', n)
             /\ Ordered(s'.heap, n, b)
             /\ s.heap[0].id # id => s'.heap[0] = s.heap[0]
  <2>1. /\ Indexed(s', n)
        /\ Ordered(s'.heap, n, b)
        /\ s.ref[id] # 0 => s'.heap[0] = s.heap[0]
    BY <1>1, <1>2, <1>4, AdjustKeeps
  <2>2. QED
    BY <1>1, <2>1
<1>5. /\ Indexed(s', n)
      /\ s.heap[0].id # id => s'.heap[0] = s.heap[0]
  <2>1. n >= n /\ ~(n < n)
    BY <1>1
  <2>2. Ordered(s.heap, n, n)
    BY <1>1, <2>1, OrderedNowhere
  <2> HIDE DEF old
  <2>3. QED
    BY <1>1, <1>4, <2>1, <2>2
<1>6. Size(s'.heap) = n
  BY <1>1, <1>5, SizeOf DEF Indexed
<1>7. DataInv'
  <2>1. inOrder' \in BOOLEAN /\ forward' \in BOOLEAN
    BY <1>2 DEF TimerIndInv, DataInv
  <2>2. touched' \subseteq Ids
    BY <1>2 DEF TimerIndInv, DataInv
  <2>3. time' \in 0 .. MaxTime
    BY <1>2 DEF TimerIndInv, DataInv
  <2>4. QED
    BY <1>1, <1>5, <1>6, <2>1, <2>2, <2>3 DEF DataInv
<1>8. OrderInv'
  <2>1. ASSUME ~forward' PROVE Ordered(s'.heap, n, 1)
    <3>1. ~forward /\ ~(time + t < old)
      BY <1>2, <2>1
    <3>2. Ordered(s.heap, n, 1)
      BY <3>1 DEF TimerIndInv, OrderInv, n
    <3>3. old <= time + t
      BY <1>1, <1>3, <3>1
    <3> HIDE DEF old
    <3>4. QED
      BY <1>4, <3>2, <3>3
  <2>2. ASSUME inOrder' PROVE Ordered(s'.heap, n, 0)
    <3>1. Ordered(s.heap, n, 0) /\ Late
      BY <1>2, <2>2 DEF TimerIndInv, OrderInv, n
    <3>2. old <= time + t
      BY <1>1, <3>1
    <3> HIDE DEF old
    <3>3. QED
      BY <1>4, <3>1, <3>2
  <2>3. QED
    BY <1>6, <2>1, <2>2 DEF OrderInv
<1>9. CallbackInv'
  <2>1. running' = running
    BY <1>2
  <2>2. running = Idle \/ running.in \in {"tick", "doWork"}
    BY DEF TimerIndInv, CallbackInv
  <2>3. ASSUME running.in = "tick"
        PROVE  running.at = 0 /\ (running.id \notin touched' => n > 0 /\ s'.heap[0].id = running.id)
    <3>1. running.at = 0 /\ (running.id \notin touched => n > 0 /\ s.heap[0].id = running.id)
      BY <2>3 DEF TimerIndInv, CallbackInv, n
    <3>2. running # Idle
      BY <2>3 DEF Idle
    <3>3. running.id \notin touched' => running.id \notin touched /\ running.id # id
      BY <1>2, <3>2
    <3>4. QED
      BY <1>5, <3>1, <3>3
  <2>4. running.in = "doWork" => touched' # {}
    <3>1. running.in = "doWork" => running # Idle
      BY DEF Idle
    <3>2. QED
      BY <1>2, <3>1
  <2>5. QED
    BY <1>6, <2>1, <2>2, <2>3, <2>4 DEF CallbackInv
<1>10. QED
  BY <1>7, <1>8, <1>9 DEF TimerIndInv

(* A timer deleted: whatever running then is, the heap and its order stand. *)
LEMMA StepDel ==
  ASSUME DataInv, OrderInv, s.alive, NEW i, s' \in del_(s, i),
         time' = time, inOrder' = inOrder, forward' = forward, touched' \subseteq Ids
  PROVE  /\ DataInv' /\ OrderInv'
         /\ s'.alive => i \in DOMAIN s.heap /\ DOMAIN s'.ref = DOMAIN s.ref \ {s.heap[i].id}
<1> DEFINE n == Size(s.heap) - 1
<1>1. /\ Size(s.heap) \in Nat /\ Indexed(s, Size(s.heap))
      /\ DOMAIN s.heap = 0 .. Size(s.heap) - 1
  BY DataFacts DEF DataInv
<1>2. /\ time' \in 0 .. MaxTime /\ inOrder' \in BOOLEAN /\ forward' \in BOOLEAN
      /\ touched' \subseteq Ids
  BY DEF DataInv
<1>3. CASE i \notin DOMAIN s.heap
  <2>1. s' = Abort(s)
    BY <1>3 DEF del_
  <2>2. s'.heap = s.heap /\ s'.ref = s.ref /\ s'.alive = FALSE
    BY <2>1 DEF Abort
  <2>3. s'.alive \in BOOLEAN
    BY <2>2
  <2>4. Indexed(s', Size(s.heap))
    BY <1>1, <2>2, <2>3 DEF Indexed
  <2>5. DataInv'
    BY <1>1, <1>2, <2>2, <2>4 DEF DataInv
  <2>6. QED
    BY <2>2, <2>5, Zenon DEF OrderInv
<1>4. CASE i \in DOMAIN s.heap
  <2>1. n \in Nat /\ Size(s.heap) = n + 1 /\ i \in 0 .. n
    BY <1>1, <1>4
  <2> HIDE DEF n
  <2>2. ASSUME NEW b \in Nat, b <= 1 \/ b >= n + 1, Ordered(s.heap, n + 1, b)
        PROVE  /\ Indexed(s', n) \/ (Indexed(s', n + 1) /\ ~s'.alive)
               /\ s'.alive => /\ Indexed(s', n)
                              /\ Ordered(s'.heap, n, b)
                              /\ DOMAIN s'.ref = DOMAIN s.ref \ {s.heap[i].id}
    BY <1>1, <2>1, <2>2, DelKeeps
  <2>3. /\ Indexed(s', n) \/ (Indexed(s', n + 1) /\ ~s'.alive)
        /\ s'.alive => Indexed(s', n) /\ DOMAIN s'.ref = DOMAIN s.ref \ {s.heap[i].id}
    <3>1. n + 1 \in Nat /\ n + 1 >= n + 1
      BY <2>1
    <3>2. Ordered(s.heap, n + 1, n + 1)
      BY <3>1, OrderedNowhere
    <3>3. QED
      BY <2>2, <3>1, <3>2
  <2>4. ASSUME NEW k \in Nat, Indexed(s', k)
        PROVE  Size(s'.heap) = k
    BY <2>4, SizeOf DEF Indexed
  <2>5. Size(s'.heap) \in Nat /\ Indexed(s', Size(s'.heap))
    <3>1. n + 1 \in Nat
      BY <2>1
    <3>2. QED
      BY <2>1, <2>3, <2>4, <3>1
  <2>6. DataInv'
    BY <1>2, <2>5 DEF DataInv
  <2>7. ASSUME s'.alive, ~forward' PROVE Ordered(s'.heap, Size(s'.heap), 1)
    <3>1. Ordered(s.heap, n + 1, 1)
      BY <2>1, <2>7 DEF OrderInv
    <3>2. Ordered(s'.heap, n, 1) /\ Indexed(s', n)
      BY <2>2, <2>7, <3>1
    <3>3. QED
      BY <2>1, <2>4, <3>2
  <2>8. ASSUME s'.alive, inOrder' PROVE Ordered(s'.heap, Size(s'.heap), 0)
    <3>1. Ordered(s.heap, n + 1, 0)
      BY <2>1, <2>8 DEF OrderInv
    <3>2. Ordered(s'.heap, n, 0) /\ Indexed(s', n)
      BY <2>2, <2>8, <3>1
    <3>3. QED
      BY <2>1, <2>4, <3>2
  <2>9. OrderInv'
    BY <2>7, <2>8 DEF OrderInv
  <2>10. QED
    BY <1>4, <2>3, <2>6, <2>9
<1>5. QED
  BY <1>3, <1>4

(* What the loop of tick() does next. *)
LEMMA LoopFacts ==
  ASSUME NEW h
  PROVE  \/ Loop(h) = Idle /\ ~(Size(h) > 0 /\ h[0].expires <= time)
         \/ /\ Loop(h).in = "tick" /\ Loop(h).at = 0 /\ Loop(h) # Idle
            /\ Size(h) > 0 /\ h[0].id = Loop(h).id
<1>1. CASE Size(h) > 0 /\ h[0].expires <= time
  <2>1. Loop(h) = [in |-> "tick", id |-> h[0].id, at |-> 0]
    BY <1>1 DEF Loop
  <2>2. Loop(h).in = "tick" /\ Idle.in = "none"
    BY <2>1 DEF Idle
  <2>3. QED
    BY <1>1, <2>1, <2>2
<1>2. CASE ~(Size(h) > 0 /\ h[0].expires <= time)
  BY <1>2 DEF Loop
<1>3. QED
  BY <1>1, <1>2

(* A callback returns. *)
LEMMA StepReturns ==
  ASSUME TimerIndInv, s.alive, CallbackReturns
  PROVE  TimerIndInv'
<1>1. /\ s' \in del_(s, running.at) /\ touched' = {}
      /\ time' = time /\ inOrder' = inOrder /\ forward' = forward
      /\ running' = IF running.in = "tick" THEN Loop(s'.heap) ELSE Idle
  BY DEF CallbackReturns
<1>2. DataInv' /\ OrderInv'
  <2>1. touched' \subseteq Ids
    BY <1>1
  <2>2. QED
    BY <1>1, <2>1, StepDel DEF TimerIndInv
<1>3. CallbackInv'
  <2>1. CASE running' = Idle
    BY <2>1 DEF CallbackInv, Idle
  <2>2. CASE running' # Idle
    <3>1. running' = Loop(s'.heap)
      BY <1>1, <2>2
    <3>2. /\ running'.in = "tick" /\ running'.at = 0
          /\ Size(s'.heap) > 0 /\ s'.heap[0].id = running'.id
      BY <2>2, <3>1, LoopFacts
    <3>3. QED
      BY <3>2 DEF CallbackInv
  <2>3. QED
    BY <2>1, <2>2
<1>4. QED
  BY <1>2, <1>3 DEF TimerIndInv

(* The steps of a client that may only be taken while no callback runs. *)
LEMMA StepTick ==
  ASSUME TimerIndInv, s.alive, Tick
  PROVE  TimerIndInv'
<1>1. running' = Loop(s.heap) /\ UNCHANGED <<time, s, inOrder, forward, touched>>
  BY DEF Tick
<1>2. DataInv' /\ OrderInv'
  BY <1>1 DEF TimerIndInv, DataInv, OrderInv
<1>3. CallbackInv'
  <2>1. CASE running' = Idle
    BY <2>1 DEF CallbackInv, Idle
  <2>2. CASE running' # Idle
    <3>1. /\ running'.in = "tick" /\ running'.at = 0
          /\ Size(s'.heap) > 0 /\ s'.heap[0].id = running'.id
      BY <1>1, <2>2, LoopFacts
    <3>2. QED
      BY <3>1 DEF CallbackInv
  <2>3. QED
    BY <2>1, <2>2
<1>4. QED
  BY <1>2, <1>3 DEF TimerIndInv

LEMMA StepDoWork ==
  ASSUME TimerIndInv, s.alive, NEW id \in Ids, DoWork(id)
  PROVE  TimerIndInv'
<1>1. /\ running' = [in |-> "doWork", id |-> id, at |-> s.ref[id]] /\ id \in DOMAIN s.ref
      /\ UNCHANGED <<time, s, inOrder, forward, touched>>
  BY DEF DoWork
<1>2. DataInv' /\ OrderInv'
  BY <1>1 DEF TimerIndInv, DataInv, OrderInv
<1>3. running'.in = "doWork" /\ running'.id = id /\ running'.at = s.ref[id]
  BY <1>1
<1>4. s.heap[s.ref[id]].id = id /\ s.ref[id] \in DOMAIN s.heap
  BY <1>1, DataFacts DEF TimerIndInv
<1>5. CallbackInv'
  BY <1>1, <1>3, <1>4 DEF CallbackInv
<1>6. QED
  BY <1>2, <1>5 DEF TimerIndInv

LEMMA StepPop ==
  ASSUME TimerIndInv, s.alive, Pop
  PROVE  TimerIndInv'
<1>1. /\ s' \in del_(s, 0) /\ running = Idle /\ touched' \subseteq Ids
      /\ time' = time /\ inOrder' = inOrder /\ forward' = forward /\ running' = running
  BY DEF Pop, TimerIndInv, DataInv
<1>2. DataInv' /\ OrderInv'
  BY <1>1, StepDel DEF TimerIndInv
<1>3. CallbackInv'
  BY <1>1 DEF CallbackInv, Idle
<1>4. QED
  BY <1>2, <1>3 DEF TimerIndInv

LEMMA StepClear ==
  ASSUME TimerIndInv, s.alive, Clear
  PROVE  TimerIndInv'
<1>1. /\ s' = Empty /\ running' = Idle /\ inOrder' = TRUE /\ forward' = FALSE
      /\ time' = time /\ touched' = touched
  BY DEF Clear
<1>2. Indexed(s', 0) /\ Size(s'.heap) = 0
  BY <1>1, EmptyIndexed
<1>3. DataInv'
  <2>1. inOrder' \in BOOLEAN /\ forward' \in BOOLEAN
    BY <1>1
  <2>2. time' \in 0 .. MaxTime /\ touched' \subseteq Ids
    BY <1>1 DEF TimerIndInv, DataInv
  <2>3. QED
    BY <1>2, <2>1, <2>2 DEF DataInv
<1>4. OrderInv'
  BY <1>2 DEF OrderInv, Ordered
<1>5. CallbackInv'
  BY <1>1 DEF CallbackInv, Idle
<1>6. QED
  BY <1>3, <1>4, <1>5 DEF TimerIndInv

LEMMA StepTimePasses ==
  ASSUME TimerIndInv, TimePasses
  PROVE  TimerIndInv'
<1>1. time < MaxTime /\ time' = time + 1 /\ UNCHANGED <<s, running, inOrder, forward, touched>>
  BY DEF TimePasses
<1>2. time' \in 0 .. MaxTime
  BY <1>1, HeapTimerAssumption DEF TimerIndInv, DataInv
<1>3. QED
  BY <1>1, <1>2 DEF TimerIndInv, DataInv, OrderInv, CallbackInv

(* Every step keeps the invariant. *)
LEMMA TimerStep == TimerIndInv /\ [Next]_vars => TimerIndInv'
<1> SUFFICES ASSUME TimerIndInv, [Next]_vars PROVE TimerIndInv'
  OBVIOUS
<1>1. CASE UNCHANGED vars
  BY <1>1 DEF vars, TimerIndInv, DataInv, OrderInv, CallbackInv
<1>2. CASE Next
  <2>1. s.alive
    BY <1>2 DEF Next
  <2>2. CASE TimePasses
    BY <2>2, StepTimePasses
  <2>3. CASE Tick
    BY <2>1, <2>3, StepTick
  <2>4. CASE CallbackReturns
    BY <2>1, <2>4, StepReturns
  <2>5. CASE Pop
    BY <2>1, <2>5, StepPop
  <2>6. CASE Clear
    BY <2>1, <2>6, StepClear
  <2>7. ASSUME NEW id \in Ids, DoWork(id) PROVE TimerIndInv'
    BY <2>1, <2>7, StepDoWork
  <2>8. ASSUME NEW id \in Ids, NEW t \in Timeouts, Add(id, t) PROVE TimerIndInv'
    BY <2>1, <2>8, StepAdd
  <2>9. ASSUME NEW id \in Ids, NEW t \in Timeouts, Adjust(id, t) PROVE TimerIndInv'
    BY <2>1, <2>9, StepAdjust
  <2>10. QED
    BY <1>2, <2>2, <2>3, <2>4, <2>5, <2>6, <2>7, <2>8, <2>9 DEF Next
<1>3. QED
  BY <1>1, <1>2

(* The invariant holds of every state of every behaviour. *)
LEMMA TimerIndInvHolds == Spec => []TimerIndInv
<1>1. QED
  BY TimerInit, TimerStep, PTL DEF Spec

-----------------------------------------------------------------------------
(* ref_ finds every timer in the heap, in its place, and nothing else, as   *)
(* long as no assertion has failed: no swap, append, erasure or change of   *)
(* an expiry leaves an id twice or a place stale (heaptimer.cpp).           *)
THEOREM IndexIsKept == Spec => []TimerInv
<1>1. ASSUME TimerIndInv PROVE TimerInv
  <2>1. /\ DOMAIN s.heap = 0 .. Size(s.heap) - 1
        /\ \A i \in DOMAIN s.heap : s.heap[i].id \in Ids /\ s.heap[i].expires \in Nat
        /\ IndexAgrees
    <3>1. Indexed(s, Size(s.heap))
      BY <1>1 DEF TimerIndInv, DataInv
    <3>2. DOMAIN s.heap = 0 .. Size(s.heap) - 1
      BY <3>1 DEF Indexed
    <3>3. \A i \in DOMAIN s.heap : s.heap[i] \in Nodes
      BY <3>1 DEF Indexed
    <3>4. IndexAgrees
      BY <3>1, <3>2 DEF Indexed, IndexAgrees
    <3>5. QED
      BY <3>2, <3>3, <3>4, NodeFields
  <2>2. {s.alive, inOrder, forward} \subseteq BOOLEAN
    BY <1>1, DataFacts DEF TimerIndInv, DataInv
  <2>3. QED
    BY <1>1, <2>1, <2>2 DEF TimerInv, TypeOK, TimerIndInv, DataInv
<1>2. QED
  BY <1>1, TimerIndInvHolds, PTL

(* siftup_() and siftdown_() restore the order of the heap after every      *)
(* operation: below the children of the root unless adjust() has brought a  *)
(* timer forward, and at the root while expiries are set in order.          *)
THEOREM OrderIsRestored == Spec => []HeapOrder
<1>1. ASSUME TimerIndInv PROVE HeapOrder
  <2> SUFFICES ASSUME s.alive, NEW i \in DOMAIN s.heap \ {0}
               PROVE  /\ Parent(i) > 0 /\ ~forward => s.heap[Parent(i)].expires <= s.heap[i].expires
                      /\ inOrder => s.heap[Parent(i)].expires <= s.heap[i].expires
    BY DEF HeapOrder
  <2>1. i \in 1 .. Size(s.heap) - 1 /\ i \in Nat \ {0} /\ Size(s.heap) \in Nat
    BY <1>1, DataFacts DEF TimerIndInv, DataInv
  <2>2. Parent(i) \in Nat
    BY <2>1, ParentOf
  <2>3. ~forward => Edge(s.heap, i, 1)
    BY <1>1, <2>1 DEF TimerIndInv, OrderInv, Ordered
  <2>4. inOrder => Edge(s.heap, i, 0)
    BY <1>1, <2>1 DEF TimerIndInv, OrderInv, Ordered
  <2>5. QED
    BY <2>2, <2>3, <2>4 DEF Edge
<1>2. QED
  BY <1>1, TimerIndInvHolds, PTL

(* When tick() returns, no timer is due, if expiries were set in order: the *)
(* loop ends at the first timer that is not due, and no other is earlier.   *)
THEOREM NothingDueIsLeft == Spec => TickLeavesNothingDue
<1>1. ASSUME TimerIndInv, TimerIndInv', [Next]_vars
      PROVE  [running'.in = "none" /\ (Tick \/ running.in = "tick") /\ inOrder /\ s'.alive =>
                \A i \in DOMAIN s'.heap : s'.heap[i].expires > time]_vars
  <2> SUFFICES ASSUME running'.in = "none", Tick \/ running.in = "tick", inOrder, s'.alive, Next,
                      NEW i \in DOMAIN s'.heap
               PROVE  s'.heap[i].expires > time
    BY <1>1 DEF vars
  <2>1. running' = Loop(s'.heap) /\ inOrder' = inOrder
    <3>1. CASE Tick
      BY <3>1 DEF Tick
    <3>2. CASE ~Tick /\ running.in = "tick"
      <4>1. running # Idle /\ running' # running
        BY <3>2 DEF Idle
      <4>2. CallbackReturns
        BY <3>2, <4>1 DEF Next, TimePasses, Pop, Clear, DoWork, Add, Adjust
      <4>3. QED
        BY <3>2, <4>2 DEF CallbackReturns
    <3>3. QED
      BY <3>1, <3>2
  <2>2. /\ Size(s'.heap) \in Nat /\ s'.heap \in [0 .. Size(s'.heap) - 1 -> Nodes]
        /\ Ordered(s'.heap, Size(s'.heap), 0) /\ time \in Nat
    BY <1>1, <2>1, DataFacts DEF TimerIndInv, DataInv, OrderInv, Indexed
  <2>3. i \in 0 .. Size(s'.heap) - 1 /\ Size(s'.heap) > 0
    BY <2>2
  <2>4. ~(s'.heap[0].expires <= time)
    BY <2>1, <2>3, LoopFacts
  <2>5. s'.heap[0].expires <= s'.heap[i].expires
    <3>1. Size(s'.heap) \in 0 .. Size(s'.heap)
      BY <2>2
    <3>2. QED
      BY <2>2, <2>3, <3>1, RootIsFirst
  <2>6. s'.heap[0].expires \in Nat /\ s'.heap[i].expires \in Nat
    BY <2>2, <2>3, NodeFields
  <2>7. QED
    BY <2>2, <2>4, <2>5, <2>6
<1>2. QED
  BY <1>1, TimerIndInvHolds, PTL DEF Spec, TickLeavesNothingDue

(* The timer whose callback has run is the one deleted: by tick() unless    *)
(* the callback sets that very timer again, by doWork(), which looks the    *)
(* place up before the call, unless the callback sets any.                  *)
THEOREM RightOneLeaves == Spec => RightTimerLeaves
<1>1. ASSUME TimerIndInv, [Next]_vars
      PROVE  [CallbackReturns /\ s'.alive
              /\ (IF running.in = "tick" THEN running.id \notin touched ELSE touched = {})
              => DOMAIN s'.ref = DOMAIN s.ref \ {running.id}]_vars
  <2> SUFFICES ASSUME CallbackReturns, s'.alive, s.alive,
                      IF running.in = "tick" THEN running.id \notin touched ELSE touched = {}
               PROVE  DOMAIN s'.ref = DOMAIN s.ref \ {running.id}
    BY <1>1 DEF Next, vars
  <2>1. /\ s' \in del_(s, running.at) /\ touched' \subseteq Ids /\ running # Idle
        /\ time' = time /\ inOrder' = inOrder /\ forward' = forward
    BY DEF CallbackReturns
  <2>2. running.at \in DOMAIN s.heap /\ DOMAIN s'.ref = DOMAIN s.ref \ {s.heap[running.at].id}
    BY <1>1, <2>1, StepDel DEF TimerIndInv
  <2>3. s.heap[running.at].id = running.id
    BY <1>1, <2>1 DEF TimerIndInv, CallbackInv
  <2>4. QED
    BY <2>2, <2>3
<1>2. QED
  BY <1>1, TimerIndInvHolds, PTL DEF Spec, RightTimerLeaves
=============================================================================
