------------------------- MODULE DefaultAllocProofs -------------------------
(***************************************************************************)
(* Proofs about DefaultAlloc, for any sizes and however many calls: no     *)
(* byte is handed out twice, no piece is forgotten, and allocate() gives   *)
(* up only when nothing that would do is left.                             *)
(***************************************************************************)
EXTENDS DefaultAlloc, FiniteSetTheorems, FunctionTheorems, TLAPS

(* Multiplication, for which the solvers need to be told each step. *)
LEMMA Monotone ==
  ASSUME NEW a \in Int, NEW b \in Int, NEW c \in Nat, a <= b
  PROVE  a * c <= b * c
<1>1. b * c = a * c + (b - a) * c /\ (b - a) * c >= 0
  OBVIOUS
<1>2. QED
  BY <1>1

LEMMA Cancel ==
  ASSUME NEW a \in Int, NEW b \in Int, NEW c \in Nat \ {0}, a * c < b * c
  PROVE  a < b
<1>1. b <= a => b * c <= a * c
  BY Monotone
<1>2. a * c \in Int /\ b * c \in Int
  OBVIOUS
<1>3. QED
  BY <1>1, <1>2

LEMMA Smaller ==
  ASSUME NEW a \in Nat, NEW b \in Nat, NEW c \in Nat \ {0}, a < b
  PROVE  a * c < b * c
<1>1. (a + 1) * c <= b * c
  BY Monotone
<1>2. (a + 1) * c = a * c + c /\ a * c \in Nat /\ b * c \in Nat
  OBVIOUS
<1>3. QED
  BY <1>1, <1>2

LEMMA DivMod ==
  ASSUME NEW a \in Nat, NEW b \in Nat \ {0}
  PROVE  /\ a \div b \in Nat /\ (a \div b) * b <= a /\ a < (a \div b) * b + b
OBVIOUS

LEMMA ModZero ==
  ASSUME NEW a \in Nat, NEW b \in Nat \ {0}, a % b = 0
  PROVE  a = (a \div b) * b
BY Z3

(* Sizes that lists have: the multiples of Align. *)
Multiple(n) == \E m \in Nat : n = m * Align

LEMMA MaxMultiple == MaxBytes = (MaxBytes \div Align) * Align /\ MaxBytes \div Align \in Nat
BY DefaultAllocAssumption, ModZero, DivMod

LEMMA Sums ==
  ASSUME NEW m, NEW n, Multiple(m), Multiple(n)
  PROVE  /\ m \in Nat /\ n \in Nat /\ Multiple(m + n) /\ (n <= m => Multiple(m - n))
         /\ \A k \in Nat : Multiple(k * n)
<1>1. PICK i \in Nat, j \in Nat : m = i * Align /\ n = j * Align
  BY DEF Multiple
<1>2. m \in Nat /\ n \in Nat
  BY <1>1, DefaultAllocAssumption
<1>3. m + n = (i + j) * Align
  BY <1>1, DefaultAllocAssumption
<1>4. ASSUME n <= m PROVE Multiple(m - n)
  <2>1. m - n = (i - j) * Align
    BY <1>1, DefaultAllocAssumption
  <2>2. j <= i
    <3>1. i < j => m < n
      <4>1. ASSUME i < j PROVE (i + 1) * Align <= j * Align
        BY <4>1, Monotone, DefaultAllocAssumption
      <4>2. (i + 1) * Align = i * Align + Align
        BY DefaultAllocAssumption
      <4>3. QED
        BY <1>1, <1>2, <4>1, <4>2, DefaultAllocAssumption
    <3>2. QED
      BY <1>2, <1>4, <3>1
  <2>3. QED
    BY <2>1, <2>2 DEF Multiple
<1>5. ASSUME NEW k \in Nat PROVE Multiple(k * n)
  <2>1. k * n = (k * j) * Align
    BY <1>1, DefaultAllocAssumption
  <2>2. QED
    BY <2>1 DEF Multiple
<1>6. QED
  BY <1>2, <1>3, <1>4, <1>5 DEF Multiple

(* Rounding up: the size of the list, never less than the request. *)
LEMMA Rounding ==
  ASSUME NEW n \in Nat \ {0}
  PROVE  /\ ROUND_UP(n) \in Nat \ {0} /\ Multiple(ROUND_UP(n)) /\ n <= ROUND_UP(n)
         /\ ROUND_UP(n) = (FREELIST_INDEX(n) + 1) * Align /\ FREELIST_INDEX(n) \in Nat
         /\ Length(FREELIST_INDEX(n)) = ROUND_UP(n)
         /\ ROUND_UP(n) < n + Align
<1> DEFINE a == n + Align - 1
<1>1. a \in Nat /\ a \div Align \in Nat /\ (a \div Align) * Align <= a /\ a < (a \div Align) * Align + Align
  BY DivMod, DefaultAllocAssumption
<1>2. ROUND_UP(n) = (a \div Align) * Align /\ FREELIST_INDEX(n) = a \div Align - 1
  BY DEF ROUND_UP, FREELIST_INDEX
<1> HIDE DEF a
<1>3. a \div Align # 0
  BY <1>1, DefaultAllocAssumption DEF a
<1>4. (a \div Align) * Align \in Nat
  BY <1>1, DefaultAllocAssumption
<1>5. n <= (a \div Align) * Align /\ (a \div Align) * Align < n + Align
  BY <1>1, <1>4, DefaultAllocAssumption DEF a
<1>6. FREELIST_INDEX(n) \in Nat /\ FREELIST_INDEX(n) + 1 = a \div Align
  BY <1>1, <1>2, <1>3
<1>7. QED
  BY <1>1, <1>2, <1>4, <1>5, <1>6 DEF Multiple, Length

(* The list of a length. *)
LEMMA RoundMultiple ==
  ASSUME NEW n \in Nat \ {0}, Multiple(n)
  PROVE  ROUND_UP(n) = n
<1>1. PICK m \in Nat : n = m * Align
  BY DEF Multiple
<1>2. PICK k \in Nat : ROUND_UP(n) = k * Align
  BY Rounding DEF Multiple
<1>3. m * Align <= k * Align /\ k * Align < m * Align + Align
  BY <1>1, <1>2, Rounding
<1>4. (m + 1) * Align = m * Align + Align /\ k * Align \in Nat /\ m * Align \in Nat
  BY DefaultAllocAssumption
<1>5. k < m + 1
  BY <1>3, <1>4, Cancel, DefaultAllocAssumption
<1>6. m <= k
  <2>1. k < m => k * Align < m * Align
    <3>1. ASSUME k < m PROVE (k + 1) * Align <= m * Align
      BY <3>1, Monotone, DefaultAllocAssumption
    <3>2. (k + 1) * Align = k * Align + Align
      BY DefaultAllocAssumption
    <3>3. QED
      BY <1>4, <3>1, <3>2, DefaultAllocAssumption
  <2>2. QED
    BY <1>3, <1>4, <2>1
<1>7. k = m
  BY <1>5, <1>6
<1>8. QED
  BY <1>1, <1>2, <1>7

(* No two lists have blocks of one length. *)
LEMMA LengthOf ==
  ASSUME NEW i \in Lists
  PROVE  /\ i \in Nat /\ Length(i) \in Nat \ {0} /\ Multiple(Length(i))
         /\ \A j \in Lists : Length(i) = Length(j) => i = j
<1>1. i \in Nat
  BY MaxMultiple DEF Lists
<1>2. (i + 1) * Align = i * Align + Align /\ i * Align \in Nat
  BY <1>1, DefaultAllocAssumption
<1>3. Length(i) \in Nat \ {0} /\ Multiple(Length(i))
  BY <1>1, <1>2, DefaultAllocAssumption DEF Length, Multiple
<1>4. ASSUME NEW j \in Lists, Length(i) = Length(j) PROVE i = j
  <2>1. j \in Nat
    BY MaxMultiple DEF Lists
  <2>2. ASSUME NEW k \in Nat, NEW l \in Nat, k < l PROVE (k + 1) * Align < (l + 1) * Align
    <3>1. (k + 2) * Align <= (l + 1) * Align
      BY <2>2, Monotone, DefaultAllocAssumption
    <3>2. (k + 2) * Align = (k + 1) * Align + Align /\ (k + 1) * Align \in Nat /\ (l + 1) * Align \in Nat
      BY DefaultAllocAssumption
    <3>3. QED
      BY <3>1, <3>2, DefaultAllocAssumption
  <2>3. (i + 1) * Align \in Nat /\ (j + 1) * Align \in Nat
    BY <1>1, <2>1, DefaultAllocAssumption
  <2>4. ~(i < j) /\ ~(j < i)
    BY <1>1, <1>4, <2>1, <2>2, <2>3 DEF Length
  <2>5. QED
    BY <1>1, <2>1, <2>4
<1>5. QED
  BY <1>1, <1>3, <1>4

(* A small size has a list, of blocks no longer than MaxBytes. *)
LEMMA SmallSize ==
  ASSUME NEW n \in Nat \ {0}, n <= MaxBytes
  PROVE  FREELIST_INDEX(n) \in Lists /\ ROUND_UP(n) <= MaxBytes
<1> DEFINE M == MaxBytes \div Align
           i == FREELIST_INDEX(n)
<1>1. /\ M \in Nat /\ MaxBytes = M * Align /\ i \in Nat
      /\ ROUND_UP(n) = (i + 1) * Align /\ ROUND_UP(n) < n + Align
      /\ ROUND_UP(n) \in Nat
  BY MaxMultiple, Rounding
<1>2. (M + 1) * Align = M * Align + Align /\ M * Align \in Nat
  BY <1>1, DefaultAllocAssumption
<1>3. (i + 1) * Align < (M + 1) * Align
  BY <1>1, <1>2, DefaultAllocAssumption
<1>4. i + 1 < M + 1
  BY <1>1, <1>3, Cancel, DefaultAllocAssumption
<1>5. (i + 1) * Align <= M * Align
  BY <1>1, <1>4, Monotone, DefaultAllocAssumption
<1>6. QED
  BY <1>1, <1>4, <1>5 DEF Lists

-----------------------------------------------------------------------------
(* The largest and the smallest of finitely many numbers. *)

LEMMA FiniteMax ==
  ASSUME NEW S, IsFiniteSet(S), S # {}, S \subseteq Nat
  PROVE  Max(S) \in S /\ \A y \in S : y <= Max(S)
<1> DEFINE Topped(T) == \E x \in T : \A y \in T : x >= y
           Bad == {T \in SUBSET S : T # {} /\ ~Topped(T)}
<1>1. Bad = {}
  <2> SUFFICES ASSUME Bad # {} PROVE FALSE
    OBVIOUS
  <2>1. Bad \subseteq FiniteSubsetsOf(S)
    BY FS_FiniteSubsetsOfFinite
  <2>2. PICK T \in Bad : \A U \in Bad : ~(<<U, T>> \in StrictSubsetOrdering(S))
    <3> HIDE DEF Bad
    <3>1. IsWellFoundedOn(StrictSubsetOrdering(S), FiniteSubsetsOf(S))
      BY FS_StrictSubsetOrderingWellFounded
    <3>2. QED
      BY <2>1, <3>1, WFMin
  <2>3. PICK x \in T : TRUE
    OBVIOUS
  <2>4. CASE T = {x}
    BY <2>4
  <2>5. CASE T # {x}
    <3> DEFINE U == T \ {x}
    <3>1. U # {} /\ U \subseteq S /\ U \subseteq T /\ U # T
      BY <2>3, <2>5
    <3>2. <<U, T>> \in StrictSubsetOrdering(S)
      BY <3>1 DEF StrictSubsetOrdering
    <3>3. PICK m \in U : \A y \in U : m >= y
      BY <2>2, <3>1, <3>2
    <3>4. m \in Nat /\ x \in Nat /\ \A y \in T : y \in Nat
      OBVIOUS
    <3>5. \A y \in T : y = x \/ m >= y
      BY <3>3
    <3>6. CASE x >= m
      BY <3>4, <3>5, <3>6
    <3>7. CASE m >= x
      BY <3>4, <3>5, <3>7
    <3>8. QED
      BY <3>4, <3>6, <3>7
  <2>6. QED
    BY <2>4, <2>5
<1>2. Topped(S)
  BY <1>1
<1>3. Max(S) \in S /\ \A y \in S : Max(S) >= y
  BY <1>2 DEF Max
<1>4. QED
  BY <1>3

LEMMA IntervalMin ==
  ASSUME NEW S, NEW M \in Nat, S \subseteq 0 .. M, S # {}
  PROVE  Min(S) \in S /\ \A y \in S : Min(S) <= y
<1> DEFINE R == {M - y : y \in S}
<1>1. R # {} /\ R \subseteq 0 .. M
  <2>1. \A y \in S : M - y \in 0 .. M
    OBVIOUS
  <2>2. PICK y \in S : TRUE
    OBVIOUS
  <2>3. M - y \in R
    OBVIOUS
  <2>4. QED
    BY <2>1, <2>3
<1>2. IsFiniteSet(R)
  <2> HIDE DEF R
  <2>1. IsFiniteSet(0 .. M)
    BY FS_Interval
  <2>2. QED
    BY <1>1, <2>1, FS_Subset
<1>3. R \subseteq Nat
  <2> HIDE DEF R
  <2>1. 0 .. M \subseteq Nat
    OBVIOUS
  <2>2. QED
    BY <1>1, <2>1
<1>4. Max(R) \in R /\ \A y \in R : y <= Max(R)
  <2> HIDE DEF R
  <2> QED
    BY <1>1, <1>2, <1>3, FiniteMax
<1>5. PICK x \in S : Max(R) = M - x
  BY <1>4
<1>6. \A y \in S : x <= y
  <2>1. TAKE y \in S
  <2>2. M - y \in R
    OBVIOUS
  <2>3. M - y <= M - x
    BY <1>4, <1>5, <2>2
  <2>4. QED
    BY <2>3
<1>7. QED
  BY <1>6 DEF Min

LEMMA MinOfTwo ==
  ASSUME NEW a \in Nat, NEW b \in Nat
  PROVE  Min({a, b}) \in Nat /\ Min({a, b}) <= a /\ Min({a, b}) <= b /\ Min({a, b}) \in {a, b}
<1>1. \E x \in {a, b} : \A y \in {a, b} : x =< y
  OBVIOUS
<1>2. Min({a, b}) \in {a, b} /\ \A y \in {a, b} : Min({a, b}) =< y
  BY <1>1 DEF Min
<1>3. QED
  BY <1>2

-----------------------------------------------------------------------------
(* Lists of addresses. *)

Elements(q) == {q[k] : k \in 1 .. Len(q)}
Distinct(q) == \A j, k \in 1 .. Len(q) : q[j] = q[k] => j = k

LEMMA EmptyElements == Elements(<<>>) = {} /\ Distinct(<<>>)
BY DEF Elements, Distinct

(* A new first element, and the others without the first. *)
LEMMA ConsElements ==
  ASSUME NEW q \in Seq(Nat), NEW v \in Nat
  PROVE  /\ <<v>> \o q \in Seq(Nat) /\ <<v>> \o q # <<>>
         /\ Elements(<<v>> \o q) = Elements(q) \cup {v}
         /\ Distinct(q) /\ v \notin Elements(q) => Distinct(<<v>> \o q)
<1> DEFINE r == <<v>> \o q
<1>1. r \in Seq(Nat) /\ Len(q) \in Nat /\ Len(r) = Len(q) + 1 /\ r[1] = v
      /\ \A k \in 2 .. Len(q) + 1 : r[k] = q[k - 1]
  OBVIOUS
<1> HIDE DEF r
<1>2. \A k \in 1 .. Len(q) : k + 1 \in 2 .. Len(q) + 1 /\ r[k + 1] = q[k]
  BY <1>1
<1>3. \A x : x \in Elements(r) <=> x = v \/ \E k \in 2 .. Len(q) + 1 : x = r[k]
  <2>1. 1 .. Len(r) = {1} \cup 2 .. Len(q) + 1
    BY <1>1
  <2>2. QED
    BY <1>1, <2>1 DEF Elements
<1>4. \A x : (\E k \in 2 .. Len(q) + 1 : x = r[k]) <=> x \in Elements(q)
  <2>1. \A k \in 2 .. Len(q) + 1 : k - 1 \in 1 .. Len(q)
    BY <1>1
  <2>2. QED
    BY <1>1, <1>2, <2>1 DEF Elements
<1>5. Elements(r) = Elements(q) \cup {v}
  BY <1>3, <1>4
<1>6. ASSUME Distinct(q), v \notin Elements(q) PROVE Distinct(r)
  <2>1. \A k \in 1 .. Len(q) : q[k] # v
    BY <1>6 DEF Elements
  <2>2. \A k \in 2 .. Len(q) + 1 : k - 1 \in 1 .. Len(q)
    BY <1>1
  <2>3. \A k \in 2 .. Len(q) + 1 : r[k] # v
    BY <1>1, <2>1, <2>2
  <2>4. \A j, k \in 2 .. Len(q) + 1 : r[j] = r[k] => j = k
    <3>1. ASSUME NEW j \in 2 .. Len(q) + 1, NEW k \in 2 .. Len(q) + 1, r[j] = r[k] PROVE j = k
      <4>1. q[j - 1] = q[k - 1]
        BY <1>1, <3>1
      <4>2. j - 1 = k - 1
        BY <1>6, <2>2, <4>1 DEF Distinct
      <4>3. QED
        BY <1>1, <4>2
    <3>2. QED
      BY <3>1
  <2>5. \A k \in 1 .. Len(r) : k = 1 \/ k \in 2 .. Len(q) + 1
    BY <1>1
  <2>6. QED
    BY <1>1, <2>3, <2>4, <2>5 DEF Distinct
<1>7. r # <<>>
  BY <1>1
<1>8. QED
  BY <1>1, <1>5, <1>6, <1>7 DEF r

LEMMA TailElements ==
  ASSUME NEW q \in Seq(Nat), q # <<>>
  PROVE  /\ Head(q) \in Nat /\ Tail(q) \in Seq(Nat) /\ Head(q) \in Elements(q)
         /\ Distinct(q) => Elements(Tail(q)) = Elements(q) \ {Head(q)} /\ Distinct(Tail(q))
<1>1. /\ Len(q) \in Nat \ {0} /\ Len(Tail(q)) = Len(q) - 1 /\ Head(q) = q[1]
      /\ \A i \in 1 .. Len(q) - 1 : Tail(q)[i] = q[i + 1]
      /\ Head(q) \in Nat /\ Tail(q) \in Seq(Nat)
  OBVIOUS
<1>2. Head(q) \in Elements(q)
  BY <1>1 DEF Elements
<1>3. ASSUME Distinct(q) PROVE Elements(Tail(q)) = Elements(q) \ {Head(q)} /\ Distinct(Tail(q))
  <2>1. Distinct(Tail(q))
    BY <1>1, <1>3 DEF Distinct
  <2>2. \A y : y \in Elements(Tail(q)) <=> \E i \in 2 .. Len(q) : y = q[i]
    <3>1. ASSUME NEW i \in 2 .. Len(q) PROVE q[i] \in Elements(Tail(q))
      <4>1. i - 1 \in 1 .. Len(q) - 1 /\ Tail(q)[i - 1] = q[i]
        BY <1>1
      <4>2. QED
        BY <1>1, <4>1 DEF Elements
    <3>2. ASSUME NEW i \in 1 .. Len(q) - 1 PROVE i + 1 \in 2 .. Len(q) /\ Tail(q)[i] = q[i + 1]
      BY <1>1
    <3>3. QED
      BY <1>1, <3>1, <3>2 DEF Elements
  <2>3. \A i \in 1 .. Len(q) : i \in 2 .. Len(q) <=> q[i] # Head(q)
    BY <1>1, <1>3 DEF Distinct
  <2>4. \A i \in 2 .. Len(q) : i \in 1 .. Len(q)
    BY <1>1
  <2>5. \A y : y \in Elements(q) <=> \E i \in 1 .. Len(q) : y = q[i]
    BY DEF Elements
  <2>6. QED
    BY <2>1, <2>2, <2>3, <2>4, <2>5
<1>4. QED
  BY <1>1, <1>2, <1>3

-----------------------------------------------------------------------------
(* Pieces of memory. *)

Pieces == [at : Nat, n : Nat \ {0}]
Off(x, y) == End(x) <= y.at \/ End(y) <= x.at
Within(x, G) == \E g \in G : g.at <= x.at /\ End(x) <= End(g)

(* The pieces of T and the pool from a to b do not overlap and lie in G.    *)
(* Only the first byte of the last unit counts as taken when e is Align - 1 *)
(* and all bytes do when e is 0: a block that was cut down to a size which  *)
(* is no multiple of Align is shorter than its list says, so what lies      *)
(* behind it may start in its last unit.                                    *)
Slack == 0 .. Align - 1

Pool(a, b, e) == Piece(a, b - a - e)

Clear(T, a, b, G, e) ==
  /\ T \subseteq Pieces /\ G \subseteq Pieces /\ a \in Nat /\ b \in Nat
  /\ \A x, y \in T : x # y => Off(x, y)
  /\ \A x \in T : Within(x, G)
  /\ a + e < b => Within(Pool(a, b, e), G) /\ \A x \in T : Off(x, Pool(a, b, e))

LEMMA SamePiece ==
  ASSUME NEW x \in Pieces, NEW y \in Pieces
  PROVE  /\ x.at \in Nat /\ x.n \in Nat \ {0} /\ End(x) \in Nat /\ x.at < End(x)
         /\ x = Piece(x.at, x.n)
         /\ x.at = y.at /\ x.n = y.n => x = y
         /\ ~Off(x, x)
BY DEF Pieces, Piece, End, Off

LEMMA IsPiece ==
  ASSUME NEW a \in Nat, NEW n \in Nat \ {0}
  PROVE  /\ Piece(a, n) \in Pieces /\ Piece(a, n).at = a /\ Piece(a, n).n = n /\ End(Piece(a, n)) = a + n
BY DEF Pieces, Piece, End

(* The area x lies behind all others. *)
Behind(x, G) == \A g \in G : End(g) <= x.at

(* Pieces that lie between a and c. *)
Strip(V, a, c, e) ==
  /\ V \subseteq Pieces
  /\ \A x \in V : a <= x.at /\ End(x) + e <= c
  /\ \A x, y \in V : x # y => Off(x, y)

LEMMA IsPool ==
  ASSUME NEW a \in Nat, NEW b \in Nat, NEW e \in Nat, a + e < b
  PROVE  Pool(a, b, e) \in Pieces /\ Pool(a, b, e).at = a /\ End(Pool(a, b, e)) + e = b
<1>1. b - a - e \in Nat \ {0} /\ a + (b - a - e) + e = b
  OBVIOUS
<1>2. QED
  BY <1>1, IsPiece DEF Pool

(* Pieces are cut off the front of the pool, up to c. *)
LEMMA ClearCut ==
  ASSUME NEW e \in Nat, NEW T, NEW a, NEW b, NEW c \in Nat, NEW G, Clear(T, a, b, G, e),
         a + e < b, a <= c, c <= b, NEW V, Strip(V, a, c, e)
  PROVE  Clear(T \cup V, c, b, G, e) /\ V \cap T = {}
<1> DEFINE pool == Pool(a, b, e)
<1>1. /\ a \in Nat /\ b \in Nat /\ pool \in Pieces /\ pool.at = a /\ End(pool) + e = b
      /\ T \subseteq Pieces /\ G \subseteq Pieces
  BY IsPool DEF Clear
<1>0. /\ V \subseteq Pieces /\ \A x \in V : a <= x.at /\ End(x) + e <= c
      /\ \A x, y \in V : x # y => Off(x, y)
  BY DEF Strip
<1>2. Within(pool, G) /\ \A x \in T : Off(x, pool)
  BY DEF Clear
<1> HIDE DEF pool
<1>3. \A x \in V : Within(x, G)
  BY <1>1, <1>0, <1>2, SamePiece DEF Within
<1>4. \A x \in T, y \in V : Off(x, y) /\ Off(y, x)
  BY <1>1, <1>0, <1>2, SamePiece DEF Off
<1>5. V \cap T = {}
  BY <1>1, <1>0, <1>4, SamePiece
<1>6. ASSUME c + e < b PROVE Within(Pool(c, b, e), G) /\ \A x \in T \cup V : Off(x, Pool(c, b, e))
  <2>1. Pool(c, b, e) \in Pieces /\ Pool(c, b, e).at = c /\ End(Pool(c, b, e)) + e = b
    BY <1>1, <1>6, IsPool
  <2>2. Within(Pool(c, b, e), G)
    BY <1>1, <1>2, <2>1, SamePiece DEF Within
  <2>3. \A x \in T \cup V : Off(x, Pool(c, b, e))
    BY <1>1, <1>0, <1>2, <2>1, SamePiece DEF Off
  <2>4. QED
    BY <2>2, <2>3
<1>7. \A x, y \in T \cup V : x # y => Off(x, y)
  BY <1>0, <1>4 DEF Clear
<1>8. \A x \in T \cup V : Within(x, G)
  BY <1>3 DEF Clear
<1>9. QED
  BY <1>1, <1>0, <1>5, <1>6, <1>7, <1>8 DEF Clear

(* A piece becomes the pool. *)
LEMMA ClearSalvage ==
  ASSUME NEW e \in Nat, NEW T, NEW c, NEW G, Clear(T, c, c, G, e), NEW x \in T
  PROVE  Clear(T \ {x}, x.at, End(x) + e, G, e)
<1>1. x \in Pieces /\ x.at \in Nat /\ End(x) \in Nat
  BY SamePiece DEF Clear
<1>2. End(x) + e - x.at - e = x.n
  BY <1>1 DEF Pieces, End
<1>3. Pool(x.at, End(x) + e, e) = x
  BY <1>1, <1>2, SamePiece DEF Pool
<1>4. QED
  BY <1>1, <1>3 DEF Clear

(* A new area serves as the pool, or as a piece. *)
LEMMA ClearFresh ==
  ASSUME NEW e \in Nat, NEW T, NEW a, NEW b, NEW G, Clear(T, a, b, G, e),
         NEW x \in Pieces, Behind(x, G)
  PROVE  /\ Clear(T \cup {x}, a, b, G \cup {x}, e) /\ x \notin T
         /\ Clear(T, x.at, End(x), G \cup {x}, e)
<1>1. x.at \in Nat /\ End(x) \in Nat /\ \A g \in G : End(g) <= x.at
  BY SamePiece DEF Behind
<1>2. T \subseteq Pieces /\ G \subseteq Pieces /\ a \in Nat /\ b \in Nat
  BY DEF Clear
<1>3. \A y : Within(y, G) => Within(y, G \cup {x})
  BY DEF Within
<1>4. Within(x, G \cup {x})
  BY <1>1, <1>2, SamePiece DEF Within
<1>5. \A y \in T : Off(y, x) /\ Off(x, y)
  <2>1. \A y \in T : Within(y, G)
    BY DEF Clear
  <2>2. QED
    BY <1>1, <1>2, <2>1, SamePiece DEF Within, Off
<1>6. a + e < b => Off(x, Pool(a, b, e))
  <2>1. SUFFICES ASSUME a + e < b PROVE Off(x, Pool(a, b, e))
    OBVIOUS
  <2>2. Within(Pool(a, b, e), G) /\ Pool(a, b, e) \in Pieces
    BY <1>2, <2>1, IsPool DEF Clear
  <2>3. QED
    BY <1>1, <1>2, <2>2, SamePiece DEF Within, Off
<1>7. x \notin T
  BY <1>2, <1>5, SamePiece
<1>8. Clear(T \cup {x}, a, b, G \cup {x}, e)
  BY <1>2, <1>3, <1>4, <1>5, <1>6 DEF Clear
<1>9. ASSUME x.at + e < End(x)
      PROVE  Within(Pool(x.at, End(x), e), G \cup {x}) /\ \A y \in T : Off(y, Pool(x.at, End(x), e))
  <2> DEFINE z == Pool(x.at, End(x), e)
  <2>1. z \in Pieces /\ z.at = x.at /\ End(z) <= End(x)
    <3>1. z \in Pieces /\ z.at = x.at /\ End(z) + e = End(x)
      BY <1>1, <1>9, IsPool
    <3>2. QED
      BY <1>1, <3>1, SamePiece
  <2> HIDE DEF z
  <2>2. Within(z, G \cup {x})
    BY <1>1, <2>1 DEF Within
  <2>3. \A y \in T : Off(y, z)
    BY <1>1, <1>2, <1>5, <2>1, SamePiece DEF Off
  <2>4. QED
    BY <2>2, <2>3 DEF z
<1>10. Clear(T, x.at, End(x), G \cup {x}, e)
  BY <1>1, <1>2, <1>3, <1>9 DEF Clear
<1>11. QED
  BY <1>7, <1>8, <1>10

(* Whatever does not overlap x is not in the area x. *)
LEMMA NotWithin ==
  ASSUME NEW x \in Pieces, NEW y \in Pieces, NEW G, G \subseteq Pieces, Within(y, G), Off(x, y)
  PROVE  Within(y, G \ {x})
BY SamePiece DEF Within, Off

(* A piece and its area are given back, or cut down. *)
LEMMA ClearFree ==
  ASSUME NEW e \in Nat, NEW T, NEW a, NEW b, NEW G, Clear(T, a, b, G, e), NEW x \in T
  PROVE  Clear(T \ {x}, a, b, G \ {x}, e)
<1>1. T \subseteq Pieces /\ G \subseteq Pieces /\ a \in Nat /\ b \in Nat
  BY DEF Clear
<1>2. \A y \in T \ {x} : Within(y, G \ {x})
  BY <1>1, NotWithin DEF Clear
<1>3. ASSUME a + e < b PROVE Within(Pool(a, b, e), G \ {x})
  <2>1. Pool(a, b, e) \in Pieces
    BY <1>1, <1>3, IsPool
  <2>2. Within(Pool(a, b, e), G) /\ Off(x, Pool(a, b, e)) /\ x \in Pieces
    BY <1>1, <1>3 DEF Clear
  <2>3. QED
    BY <1>1, <2>1, <2>2, NotWithin
<1>4. QED
  BY <1>1, <1>2, <1>3 DEF Clear

LEMMA ClearCutDown ==
  ASSUME NEW e \in Nat, NEW T, NEW a, NEW b, NEW G, Clear(T, a, b, G, e), NEW x \in T,
         NEW y \in Pieces, y.at = x.at, y.n < x.n, NEW z \in Pieces, z.at = y.at, z.n <= y.n
  PROVE  Clear((T \ {x}) \cup {z}, a, b, (G \ {x}) \cup {y}, e) /\ z \notin T
<1>1. T \subseteq Pieces /\ G \subseteq Pieces /\ a \in Nat /\ b \in Nat
  BY DEF Clear
<1>2. Clear(T \ {x}, a, b, G \ {x}, e)
  BY ClearFree
<1>3. End(y) <= End(x) /\ End(z) <= End(y) /\ z.at = x.at /\ x \in Pieces /\ z.n < x.n
  BY <1>1 DEF End, Pieces
<1>4. \A v \in T \ {x} : Off(v, x) /\ Off(x, v)
  BY DEF Clear
<1>5. \A v \in T \ {x} : Off(v, z) /\ Off(z, v)
  BY <1>1, <1>3, <1>4, SamePiece DEF Off
<1>6. a + e < b => Off(z, Pool(a, b, e))
  <2>1. SUFFICES ASSUME a + e < b PROVE Off(z, Pool(a, b, e))
    OBVIOUS
  <2>2. Off(x, Pool(a, b, e)) /\ Pool(a, b, e) \in Pieces
    BY <1>1, <2>1, IsPool DEF Clear
  <2>3. QED
    BY <1>3, <2>2, SamePiece DEF Off
<1>7. z \notin T
  BY <1>1, <1>3, <1>5, SamePiece
<1>8. \A v : Within(v, G \ {x}) => Within(v, (G \ {x}) \cup {y})
  BY DEF Within
<1>9. Within(z, (G \ {x}) \cup {y})
  BY <1>3, SamePiece DEF Within
<1>10. QED
  BY <1>1, <1>2, <1>5, <1>6, <1>7, <1>8, <1>9 DEF Clear

-----------------------------------------------------------------------------
(* Blocks in lists and in the hands of clients. *)

FreeLists == [Lists -> Seq(Nat)]

Blocks(fl, e) == UNION {{Piece(a, Length(i) - e) : a \in Elements(fl[i])} : i \in Lists}

(* What a block takes: a small one as much as the blocks of its list. *)
Extent(x, e) == IF x.n <= MaxBytes THEN ROUND_UP(x.n) - e ELSE x.n
Home(x, e) == Piece(x.at, Extent(x, e))
Homes(L, e) == {Home(x, e) : x \in L}

(* Nobody has what somebody else has, nor what is in a list or in the pool. *)
Sound(fl, L, a, b, G, e) ==
  /\ \A x, y \in L : Home(x, e) = Home(y, e) => x = y
  /\ \A i \in Lists : Distinct(fl[i])
  /\ Homes(L, e) \cap Blocks(fl, e) = {}
  /\ Clear(Homes(L, e) \cup Blocks(fl, e), a, b, G, e)

LEMMA SlackType ==
  ASSUME NEW e \in Slack
  PROVE  /\ e \in Nat /\ e < Align
         /\ \A i \in Lists : Length(i) - e \in Nat \ {0}
         /\ \A i, j \in Lists : Length(i) - e = Length(j) - e => i = j
         /\ \A n : Multiple(n) /\ 0 < n => e < n
<1>1. e \in Nat /\ e < Align
  BY DefaultAllocAssumption DEF Slack
<1>2. ASSUME NEW n, Multiple(n), 0 < n PROVE e < n /\ n \in Nat
  <2>1. PICK m \in Nat : n = m * Align
    BY <1>2 DEF Multiple
  <2>2. m # 0
    BY <1>2, <2>1, DefaultAllocAssumption
  <2>3. 1 * Align <= m * Align
    BY <2>2, Monotone, DefaultAllocAssumption
  <2>4. m * Align \in Nat
    BY DefaultAllocAssumption
  <2>5. QED
    BY <1>1, <2>1, <2>3, <2>4, DefaultAllocAssumption
<1>3. \A i \in Lists : Length(i) \in Nat \ {0} /\ e < Length(i)
  BY <1>2, LengthOf
<1>4. \A i \in Lists : Length(i) - e \in Nat \ {0}
  BY <1>1, <1>3
<1>5. ASSUME NEW i \in Lists, NEW j \in Lists, Length(i) - e = Length(j) - e PROVE i = j
  <2>1. Length(i) = Length(j)
    BY <1>1, <1>3, <1>5
  <2>2. QED
    BY <2>1, LengthOf
<1>6. QED
  BY <1>1, <1>2, <1>4, <1>5

LEMMA BlocksIff ==
  ASSUME NEW fl, NEW e
  PROVE  \A z : z \in Blocks(fl, e)
                  <=> \E i \in Lists : \E a \in Elements(fl[i]) : z = Piece(a, Length(i) - e)
BY DEF Blocks

LEMMA EqualPieces ==
  ASSUME NEW a, NEW m, NEW b, NEW n, Piece(a, m) = Piece(b, n)
  PROVE  a = b /\ m = n
BY DEF Piece

LEMMA BlocksAdd ==
  ASSUME NEW e, NEW fl \in FreeLists, NEW i \in Lists, NEW s, NEW v, Elements(s) = Elements(fl[i]) \cup {v}
  PROVE  Blocks([fl EXCEPT ![i] = s], e) = Blocks(fl, e) \cup {Piece(v, Length(i) - e)}
<1> DEFINE g == [fl EXCEPT ![i] = s]
           z(a, j) == Piece(a, Length(j) - e)
<1>1. g[i] = s /\ \A j \in Lists : j # i => g[j] = fl[j]
  BY DEF FreeLists
<1>2. \A y : y \in Blocks(fl, e) <=> \E j \in Lists : \E a \in Elements(fl[j]) : y = z(a, j)
  BY BlocksIff
<1> HIDE DEF g
<1>3. \A y : y \in Blocks(g, e) <=> \E j \in Lists : \E a \in Elements(g[j]) : y = z(a, j)
  BY BlocksIff
<1> HIDE DEF z
<1>4. \A y : y \in Blocks(g, e) <=> y \in Blocks(fl, e) \/ y = z(v, i)
  BY <1>1, <1>2, <1>3
<1>5. QED
  BY <1>4 DEF g, z

LEMMA BlocksDrop ==
  ASSUME NEW e \in Slack, NEW fl \in FreeLists, NEW i \in Lists, NEW s, NEW v \in Elements(fl[i]),
         Elements(s) = Elements(fl[i]) \ {v}
  PROVE  /\ Blocks([fl EXCEPT ![i] = s], e) = Blocks(fl, e) \ {Piece(v, Length(i) - e)}
         /\ Piece(v, Length(i) - e) \in Blocks(fl, e)
<1> DEFINE g == [fl EXCEPT ![i] = s]
           z(a, j) == Piece(a, Length(j) - e)
<1>1. g[i] = s /\ \A j \in Lists : j # i => g[j] = fl[j]
  BY DEF FreeLists
<1>2. \A y : y \in Blocks(fl, e) <=> \E j \in Lists : \E a \in Elements(fl[j]) : y = z(a, j)
  BY BlocksIff
<1>4. \A j \in Lists : \A a : z(a, j) = z(v, i) => j = i /\ a = v
  <2>1. SUFFICES ASSUME NEW j \in Lists, NEW a, z(a, j) = z(v, i) PROVE j = i /\ a = v
    OBVIOUS
  <2>2. a = v /\ Length(j) - e = Length(i) - e
    BY <2>1, EqualPieces
  <2>3. QED
    BY <2>2, SlackType
<1> HIDE DEF g
<1>3. \A y : y \in Blocks(g, e) <=> \E j \in Lists : \E a \in Elements(g[j]) : y = z(a, j)
  BY BlocksIff
<1> HIDE DEF z
<1>5. \A y : y \in Blocks(g, e) <=> y \in Blocks(fl, e) /\ y # z(v, i)
  BY <1>1, <1>2, <1>3, <1>4
<1>6. QED
  BY <1>2, <1>5 DEF g, z

LEMMA BlocksTail ==
  ASSUME NEW e \in Slack, NEW fl \in FreeLists, NEW i \in Lists, fl[i] # <<>>, Distinct(fl[i])
  PROVE  /\ Blocks([fl EXCEPT ![i] = Tail(@)], e) = Blocks(fl, e) \ {Piece(Head(fl[i]), Length(i) - e)}
         /\ Piece(Head(fl[i]), Length(i) - e) \in Blocks(fl, e)
<1>1. Head(fl[i]) \in Elements(fl[i]) /\ Elements(Tail(fl[i])) = Elements(fl[i]) \ {Head(fl[i])}
  BY TailElements DEF FreeLists
<1>2. QED
  BY <1>1, BlocksDrop

(* A large block is its own home; a small one has that of its list. *)
LEMMA HomeType ==
  ASSUME NEW e \in Slack, NEW x \in Pieces
  PROVE  /\ Home(x, e) \in Pieces /\ Home(x, e).at = x.at /\ x.n <= Home(x, e).n + e
         /\ x.n > MaxBytes => Home(x, e) = x
         /\ x.n <= MaxBytes => /\ FREELIST_INDEX(x.n) \in Lists
                               /\ Home(x, e) = Piece(x.at, Length(FREELIST_INDEX(x.n)) - e)
<1>1. x.at \in Nat /\ x.n \in Nat \ {0} /\ x = Piece(x.at, x.n) /\ MaxBytes \in Nat /\ e \in Nat
  BY SamePiece, DefaultAllocAssumption, SlackType
<1>2. CASE x.n <= MaxBytes
  <2>1. Extent(x, e) = ROUND_UP(x.n) - e /\ ROUND_UP(x.n) \in Nat \ {0} /\ x.n <= ROUND_UP(x.n)
        /\ ROUND_UP(x.n) = Length(FREELIST_INDEX(x.n)) /\ FREELIST_INDEX(x.n) \in Lists
    BY <1>1, <1>2, Rounding, SmallSize DEF Extent
  <2>2. Extent(x, e) \in Nat \ {0}
    BY <2>1, SlackType
  <2>3. Home(x, e) \in Pieces /\ Home(x, e).at = x.at /\ Home(x, e).n = Extent(x, e)
    BY <1>1, <2>2, IsPiece DEF Home
  <2>4. Home(x, e) = Piece(x.at, Length(FREELIST_INDEX(x.n)) - e)
    BY <2>1 DEF Home
  <2>5. x.n <= Extent(x, e) + e
    BY <1>1, <2>1
  <2>6. QED
    BY <1>1, <1>2, <2>1, <2>3, <2>4, <2>5
<1>3. CASE x.n > MaxBytes
  <2>1. Extent(x, e) = x.n
    BY <1>1, <1>3 DEF Extent
  <2>2. Home(x, e) = x
    BY <1>1, <2>1 DEF Home
  <2>3. QED
    BY <1>1, <1>3, <2>1, <2>2
<1>4. QED
  BY <1>1, <1>2, <1>3

LEMMA HomesAdd ==
  ASSUME NEW e, NEW L, NEW x
  PROVE  Homes(L \cup {x}, e) = Homes(L, e) \cup {Home(x, e)}
BY DEF Homes

LEMMA HomesDrop ==
  ASSUME NEW e, NEW L, NEW x \in L, \A y, z \in L : Home(y, e) = Home(z, e) => y = z
  PROVE  Homes(L \ {x}, e) = Homes(L, e) \ {Home(x, e)} /\ Home(x, e) \in Homes(L, e)
BY DEF Homes

LEMMA DistinctExcept ==
  ASSUME NEW fl \in FreeLists, \A j \in Lists : Distinct(fl[j]), NEW i \in Lists, NEW s, Distinct(s)
  PROVE  \A j \in Lists : Distinct([fl EXCEPT ![i] = s][j])
<1>1. [fl EXCEPT ![i] = s][i] = s /\ \A j \in Lists : j # i => [fl EXCEPT ![i] = s][j] = fl[j]
  BY DEF FreeLists
<1>2. QED
  BY <1>1

-----------------------------------------------------------------------------
(* What the operations do to them. *)

(* The first block of a list goes to a client. *)
LEMMA SoundTake ==
  ASSUME NEW e \in Slack, NEW fl \in FreeLists, NEW L, NEW a, NEW b, NEW G, Sound(fl, L, a, b, G, e),
         NEW n \in Nat \ {0}, n <= MaxBytes, NEW i \in Lists, i = FREELIST_INDEX(n), fl[i] # <<>>
  PROVE  Sound([fl EXCEPT ![i] = Tail(@)], L \cup {Piece(Head(fl[i]), n)}, a, b, G, e)
<1> DEFINE x == Piece(Head(fl[i]), n)
           z == Piece(Head(fl[i]), Length(i) - e)
           g == [fl EXCEPT ![i] = Tail(@)]
<1>1. fl[i] \in Seq(Nat) /\ Distinct(fl[i])
  BY DEF FreeLists, Sound
<1>2. /\ Head(fl[i]) \in Nat /\ Head(fl[i]) \in Elements(fl[i])
      /\ Elements(Tail(fl[i])) = Elements(fl[i]) \ {Head(fl[i])} /\ Distinct(Tail(fl[i]))
  BY <1>1, TailElements
<1>3. Home(x, e) = z
  <2>1. x \in Pieces /\ x.at = Head(fl[i]) /\ x.n = n
    BY <1>2, IsPiece
  <2>2. QED
    BY <2>1, HomeType
<1>4. Blocks(g, e) = Blocks(fl, e) \ {z} /\ z \in Blocks(fl, e)
  BY <1>1, BlocksTail
<1>5. \A j \in Lists : Distinct(g[j])
  BY <1>2, DistinctExcept DEF Sound
<1> HIDE DEF x, z, g
<1>6. Homes(L \cup {x}, e) = Homes(L, e) \cup {z}
  BY <1>3, HomesAdd
<1>7. z \notin Homes(L, e)
  BY <1>4 DEF Sound
<1>8. \A y, w \in L \cup {x} : Home(y, e) = Home(w, e) => y = w
  BY <1>3, <1>7 DEF Sound, Homes
<1>9. Homes(L \cup {x}, e) \cup Blocks(g, e) = Homes(L, e) \cup Blocks(fl, e)
  BY <1>4, <1>6
<1>10. Homes(L \cup {x}, e) \cap Blocks(g, e) = {}
  BY <1>4, <1>6 DEF Sound
<1>11. Sound(g, L \cup {x}, a, b, G, e)
  BY <1>5, <1>8, <1>9, <1>10 DEF Sound
<1>12. QED
  BY <1>11 DEF g, x

(* A block goes back to its list. *)
LEMMA SoundReturn ==
  ASSUME NEW e \in Slack, NEW fl \in FreeLists, NEW L, L \subseteq Pieces, NEW a, NEW b, NEW G,
         Sound(fl, L, a, b, G, e), NEW x \in L, x.n <= MaxBytes
  PROVE  Sound([fl EXCEPT ![FREELIST_INDEX(x.n)] = <<x.at>> \o @], L \ {x}, a, b, G, e)
<1> DEFINE i == FREELIST_INDEX(x.n)
           g == [fl EXCEPT ![i] = <<x.at>> \o @]
<1>1. x \in Pieces /\ x.at \in Nat /\ i \in Lists /\ Home(x, e) = Piece(x.at, Length(i) - e)
  BY HomeType, SamePiece
<1>2. fl[i] \in Seq(Nat) /\ Distinct(fl[i])
  BY <1>1 DEF FreeLists, Sound
<1>3. Homes(L \ {x}, e) = Homes(L, e) \ {Home(x, e)} /\ Home(x, e) \in Homes(L, e)
  BY HomesDrop DEF Sound
<1>4. x.at \notin Elements(fl[i])
  <2>1. Home(x, e) \notin Blocks(fl, e)
    BY <1>3 DEF Sound
  <2>2. QED
    BY <1>1, <2>1, BlocksIff
<1>5. Elements(<<x.at>> \o fl[i]) = Elements(fl[i]) \cup {x.at} /\ Distinct(<<x.at>> \o fl[i])
  BY <1>1, <1>2, <1>4, ConsElements
<1>6. Blocks(g, e) = Blocks(fl, e) \cup {Piece(x.at, Length(i) - e)}
  <2> DEFINE s == <<x.at>> \o fl[i]
             v == x.at
  <2>1. i \in Lists /\ Elements(s) = Elements(fl[i]) \cup {v}
    BY <1>1, <1>5
  <2> HIDE DEF i, s, v
  <2>2. Blocks([fl EXCEPT ![i] = s], e) = Blocks(fl, e) \cup {Piece(v, Length(i) - e)}
    BY <2>1, BlocksAdd
  <2>3. QED
    BY <2>2 DEF s, v
<1>7. Blocks(g, e) = Blocks(fl, e) \cup {Home(x, e)}
  BY <1>1, <1>6
<1>8. \A j \in Lists : Distinct(g[j])
  BY <1>1, <1>5, DistinctExcept DEF Sound
<1> HIDE DEF g
<1>9. Homes(L \ {x}, e) \cup Blocks(g, e) = Homes(L, e) \cup Blocks(fl, e)
  BY <1>3, <1>7
<1>10. Homes(L \ {x}, e) \cap Blocks(g, e) = {}
  BY <1>3, <1>7 DEF Sound
<1>11. Sound(g, L \ {x}, a, b, G, e)
  BY <1>8, <1>9, <1>10 DEF Sound
<1>12. QED
  BY <1>11 DEF g

(* What is left of the pool goes to a list. *)
LEMMA SoundShelve ==
  ASSUME NEW e \in Slack, NEW fl \in FreeLists, NEW L, NEW a, NEW b, NEW G, Sound(fl, L, a, b, G, e),
         a < b, NEW i \in Lists, b - a = Length(i)
  PROVE  Sound([fl EXCEPT ![i] = <<a>> \o @], L, b, b, G, e)
<1> DEFINE g == [fl EXCEPT ![i] = <<a>> \o @]
           z == Piece(a, Length(i) - e)
           T == Homes(L, e) \cup Blocks(fl, e)
<1>1. /\ a \in Nat /\ b \in Nat /\ e \in Nat /\ Clear(T, a, b, G, e) /\ Length(i) - e \in Nat \ {0}
      /\ a + (Length(i) - e) + e = b /\ a <= b /\ a + e < b
  <2>1. a \in Nat /\ b \in Nat /\ e \in Nat /\ Clear(T, a, b, G, e)
    BY SlackType DEF Sound, Clear
  <2>2. Length(i) - e \in Nat \ {0} /\ Length(i) \in Nat
    BY SlackType, LengthOf
  <2>3. QED
    BY <2>1, <2>2
<1>2. fl[i] \in Seq(Nat) /\ Distinct(fl[i])
  BY DEF FreeLists, Sound
<1>3. z \in Pieces /\ z.at = a /\ End(z) + e = b
  BY <1>1, IsPiece
<1>4. Clear(T \cup {z}, b, b, G, e) /\ {z} \cap T = {}
  <2> HIDE DEF z, T, g
  <2>1. {z} \subseteq Pieces /\ \A x \in {z} : a <= x.at /\ End(x) + e <= b
    BY <1>1, <1>3
  <2>2. Strip({z}, a, b, e)
    BY <2>1 DEF Strip
  <2>3. b \in Nat /\ e \in Nat /\ a + e < b /\ a <= b /\ b <= b /\ Clear(T, a, b, G, e)
    BY <1>1
  <2>4. QED
    BY <2>2, <2>3, ClearCut
<1>5. a \notin Elements(fl[i])
  BY <1>4, BlocksIff
<1>6. Elements(<<a>> \o fl[i]) = Elements(fl[i]) \cup {a} /\ Distinct(<<a>> \o fl[i])
  BY <1>1, <1>2, <1>5, ConsElements
<1>7. Blocks(g, e) = Blocks(fl, e) \cup {z}
  <2> DEFINE s == <<a>> \o fl[i]
  <2>1. Elements(s) = Elements(fl[i]) \cup {a}
    BY <1>6
  <2> HIDE DEF s
  <2>2. Blocks([fl EXCEPT ![i] = s], e) = Blocks(fl, e) \cup {Piece(a, Length(i) - e)}
    BY <2>1, BlocksAdd
  <2>3. QED
    BY <2>2 DEF s
<1>9. \A j \in Lists : Distinct(g[j])
  BY <1>6, DistinctExcept DEF Sound
<1> HIDE DEF g, z
<1>10. Homes(L, e) \cup Blocks(g, e) = T \cup {z} /\ Homes(L, e) \cap Blocks(g, e) = {}
  BY <1>4, <1>7 DEF Sound
<1>11. Sound(g, L, b, b, G, e)
  BY <1>4, <1>9, <1>10 DEF Sound
<1>12. QED
  BY <1>11 DEF g

(* The first block of a list becomes the pool. *)
LEMMA SoundSalvage ==
  ASSUME NEW e \in Slack, NEW fl \in FreeLists, NEW L, NEW c, NEW G, Sound(fl, L, c, c, G, e),
         NEW i \in Lists, fl[i] # <<>>
  PROVE  Sound([fl EXCEPT ![i] = Tail(@)], L, Head(fl[i]), Head(fl[i]) + Length(i), G, e)
<1> DEFINE z == Piece(Head(fl[i]), Length(i) - e)
           g == [fl EXCEPT ![i] = Tail(@)]
           T == Homes(L, e) \cup Blocks(fl, e)
<1>1. /\ fl[i] \in Seq(Nat) /\ Distinct(fl[i]) /\ e \in Nat
      /\ Length(i) - e \in Nat \ {0} /\ Length(i) \in Nat
  BY LengthOf, SlackType DEF FreeLists, Sound
<1>2. /\ Head(fl[i]) \in Nat /\ Head(fl[i]) \in Elements(fl[i])
      /\ Elements(Tail(fl[i])) = Elements(fl[i]) \ {Head(fl[i])} /\ Distinct(Tail(fl[i]))
  BY <1>1, TailElements
<1>3. Blocks(g, e) = Blocks(fl, e) \ {z} /\ z \in Blocks(fl, e)
  BY <1>2, BlocksDrop
<1>4. \A j \in Lists : Distinct(g[j])
  BY <1>2, DistinctExcept DEF Sound
<1>5. z.at = Head(fl[i]) /\ End(z) + e = Head(fl[i]) + Length(i)
  <2>1. z.at = Head(fl[i]) /\ End(z) = Head(fl[i]) + (Length(i) - e)
    BY <1>1, <1>2, IsPiece
  <2>2. QED
    BY <1>1, <1>2, <2>1
<1> HIDE DEF z, g
<1>6. Clear(T \ {z}, z.at, End(z) + e, G, e)
  BY <1>1, <1>3, ClearSalvage DEF Sound
<1>7. Homes(L, e) \cup Blocks(g, e) = T \ {z} /\ Homes(L, e) \cap Blocks(g, e) = {}
  BY <1>3 DEF Sound
<1>8. Sound(g, L, z.at, End(z) + e, G, e)
  BY <1>4, <1>6, <1>7 DEF Sound
<1>9. QED
  BY <1>5, <1>8 DEF g

(* malloc(): a new pool, a large block; free() and realloc() of one. *)
LEMMA SoundGrow ==
  ASSUME NEW e \in Slack, NEW fl, NEW L, NEW c, NEW G, Sound(fl, L, c, c, G, e),
         NEW x \in Pieces, Behind(x, G)
  PROVE  Sound(fl, L, x.at, End(x), G \cup {x}, e)
<1> DEFINE T == Homes(L, e) \cup Blocks(fl, e)
<1>1. Clear(T, c, c, G, e) /\ e \in Nat
  BY SlackType DEF Sound
<1> HIDE DEF T
<1>2. Clear(T, x.at, End(x), G \cup {x}, e)
  BY <1>1, ClearFresh
<1>3. QED
  BY <1>2 DEF Sound, T

LEMMA SoundLarge ==
  ASSUME NEW e \in Slack, NEW fl, NEW L, NEW a, NEW b, NEW G, Sound(fl, L, a, b, G, e),
         NEW x \in Pieces, x.n > MaxBytes, Behind(x, G)
  PROVE  Sound(fl, L \cup {x}, a, b, G \cup {x}, e)
<1> DEFINE T == Homes(L, e) \cup Blocks(fl, e)
<1>0. Clear(T, a, b, G, e) /\ e \in Nat /\ Home(x, e) = x
  BY HomeType, SlackType DEF Sound
<1>1. Clear(T \cup {x}, a, b, G \cup {x}, e) /\ x \notin T /\ Home(x, e) = x
  <2> HIDE DEF T
  <2> QED
    BY <1>0, ClearFresh
<1>2. Homes(L \cup {x}, e) = Homes(L, e) \cup {x}
  BY <1>1, HomesAdd
<1>3. Homes(L \cup {x}, e) \cup Blocks(fl, e) = T \cup {x} /\ Homes(L \cup {x}, e) \cap Blocks(fl, e) = {}
  BY <1>1, <1>2 DEF Sound
<1>4. \A y, w \in L \cup {x} : Home(y, e) = Home(w, e) => y = w
  BY <1>1 DEF Sound, Homes
<1>5. QED
  BY <1>1, <1>3, <1>4 DEF Sound

LEMMA SoundFree ==
  ASSUME NEW e \in Slack, NEW fl, NEW L, L \subseteq Pieces, NEW a, NEW b, NEW G,
         Sound(fl, L, a, b, G, e), NEW x \in L, x.n > MaxBytes
  PROVE  Sound(fl, L \ {x}, a, b, G \ {x}, e)
<1> DEFINE T == Homes(L, e) \cup Blocks(fl, e)
<1>1. Home(x, e) = x
  BY HomeType
<1>a. \A v, w \in L : Home(v, e) = Home(w, e) => v = w
  BY DEF Sound
<1>2. Homes(L \ {x}, e) = Homes(L, e) \ {x} /\ x \in Homes(L, e)
  <2>1. Homes(L \ {x}, e) = Homes(L, e) \ {Home(x, e)} /\ Home(x, e) \in Homes(L, e)
    BY <1>a, HomesDrop
  <2>2. QED
    BY <1>1, <2>1
<1>3. Homes(L \ {x}, e) \cup Blocks(fl, e) = T \ {x} /\ Homes(L \ {x}, e) \cap Blocks(fl, e) = {}
  BY <1>2 DEF Sound
<1>4. Clear(T \ {x}, a, b, G \ {x}, e)
  BY <1>2, ClearFree, SlackType DEF Sound
<1>5. QED
  BY <1>3, <1>4 DEF Sound

LEMMA SoundCutDown ==
  ASSUME NEW e \in Slack, NEW fl, NEW L, L \subseteq Pieces, NEW a, NEW b, NEW G,
         Sound(fl, L, a, b, G, e), NEW x \in L, x.n > MaxBytes,
         NEW y \in Pieces, y.at = x.at, y.n < x.n, Home(y, e).n <= y.n
  PROVE  Sound(fl, (L \ {x}) \cup {y}, a, b, (G \ {x}) \cup {y}, e)
<1> DEFINE T == Homes(L, e) \cup Blocks(fl, e)
           M == (L \ {x}) \cup {y}
           z == Home(y, e)
<1>1. Home(x, e) = x /\ z \in Pieces /\ z.at = y.at /\ z.n <= y.n
  BY HomeType
<1>a. \A v, w \in L : Home(v, e) = Home(w, e) => v = w
  BY DEF Sound
<1>2. Homes(L \ {x}, e) = Homes(L, e) \ {x} /\ x \in Homes(L, e)
  <2>1. Homes(L \ {x}, e) = Homes(L, e) \ {Home(x, e)} /\ Home(x, e) \in Homes(L, e)
    BY <1>a, HomesDrop
  <2>2. QED
    BY <1>1, <2>1
<1>3. Homes(M, e) = (Homes(L, e) \ {x}) \cup {z}
  BY <1>2, HomesAdd
<1> HIDE DEF z
<1>4. Clear((T \ {x}) \cup {z}, a, b, (G \ {x}) \cup {y}, e) /\ z \notin T
  BY <1>1, <1>2, ClearCutDown, SlackType DEF Sound
<1>5. Homes(M, e) \cup Blocks(fl, e) = (T \ {x}) \cup {z} /\ Homes(M, e) \cap Blocks(fl, e) = {}
  BY <1>2, <1>3, <1>4 DEF Sound
<1>6. \A v, w \in M : Home(v, e) = Home(w, e) => v = w
  BY <1>4 DEF Sound, Homes, z
<1>7. QED
  BY <1>4, <1>5, <1>6 DEF Sound

(* The pool is cut into m blocks: one for the client, the others for the list. *)
LEMMA BlocksFill ==
  ASSUME NEW e, NEW fl \in FreeLists, NEW i \in Lists, NEW s, fl[i] = <<>>
  PROVE  Blocks([fl EXCEPT ![i] = s], e) = Blocks(fl, e) \cup {Piece(v, Length(i) - e) : v \in Elements(s)}
<1> DEFINE g == [fl EXCEPT ![i] = s]
           z(a, j) == Piece(a, Length(j) - e)
<1>1. g[i] = s /\ \A j \in Lists : j # i => g[j] = fl[j]
  BY DEF FreeLists
<1>2. \A y : y \in Blocks(fl, e) <=> \E j \in Lists : \E a \in Elements(fl[j]) : y = z(a, j)
  BY BlocksIff
<1> HIDE DEF g
<1>3. \A y : y \in Blocks(g, e) <=> \E j \in Lists : \E a \in Elements(g[j]) : y = z(a, j)
  BY BlocksIff
<1>4. Elements(fl[i]) = {}
  BY EmptyElements
<1> HIDE DEF z
<1>5. \A y : y \in Blocks(g, e) <=> y \in Blocks(fl, e) \/ \E v \in Elements(s) : y = z(v, i)
  BY <1>1, <1>2, <1>3, <1>4
<1>6. Blocks(g, e) = Blocks(fl, e) \cup {z(v, i) : v \in Elements(s)}
  BY <1>5
<1>7. QED
  BY <1>6 DEF g, z

(* m blocks of one size, one behind the other from a on. *)
LEMMA Row ==
  ASSUME NEW a \in Nat, NEW size \in Nat \ {0}, NEW m \in Nat
  PROVE  /\ a + m * size \in Nat
         /\ \A k \in 0 .. m - 1 : /\ a + k * size \in Nat /\ a <= a + k * size
                                  /\ a + k * size + size <= a + m * size
         /\ \A k, l \in 0 .. m - 1 : k < l => a + k * size + size <= a + l * size
<1>1. \A k \in Nat : k * size \in Nat /\ (k + 1) * size = k * size + size
  OBVIOUS
<1>2. \A k, l \in Nat : k < l => k * size + size <= l * size
  <2>1. ASSUME NEW k \in Nat, NEW l \in Nat, k < l PROVE k * size + size <= l * size
    <3>1. (k + 1) * size <= l * size
      BY <2>1, Monotone
    <3>2. QED
      BY <1>1, <3>1
  <2>2. QED
    BY <2>1
<1>3. \A k \in 0 .. m - 1 : k \in Nat /\ k < m
  OBVIOUS
<1>4. QED
  BY <1>1, <1>2, <1>3

LEMMA SoundCut ==
  ASSUME NEW e \in Slack, NEW fl \in FreeLists, NEW L, NEW a, NEW b, NEW G, Sound(fl, L, a, b, G, e),
         NEW n \in Nat \ {0}, n <= MaxBytes, NEW i \in Lists, i = FREELIST_INDEX(n), fl[i] = <<>>,
         NEW m \in Nat \ {0}, a + m * Length(i) <= b
  PROVE  Sound([fl EXCEPT ![i] = [k \in 1 .. m - 1 |-> a + k * Length(i)]],
               L \cup {Piece(a, n)}, a + m * Length(i), b, G, e)
<1> DEFINE size == Length(i)
           s == [k \in 1 .. m - 1 |-> a + k * size]
           f == size - e
           V == {Piece(a + k * size, f) : k \in 0 .. m - 1}
           x == Piece(a, n)
           c == a + m * size
           g == [fl EXCEPT ![i] = s]
           T == Homes(L, e) \cup Blocks(fl, e)
<1>1. /\ a \in Nat /\ b \in Nat /\ size \in Nat \ {0} /\ Clear(T, a, b, G, e)
      /\ e \in Nat /\ f \in Nat \ {0} /\ f + e = size
  <2>1. a \in Nat /\ b \in Nat /\ Clear(T, a, b, G, e)
    BY DEF Sound, Clear
  <2>2. size \in Nat \ {0} /\ e \in Nat /\ f \in Nat \ {0}
    BY LengthOf, SlackType
  <2>3. QED
    BY <2>1, <2>2
<1>2. Home(x, e) = Piece(a, f)
  <2>1. x \in Pieces /\ x.at = a /\ x.n = n
    BY <1>1, IsPiece
  <2>2. QED
    BY <2>1, HomeType
<1>3. c <= b
  OBVIOUS
<1>4. Elements(s) = {a + k * size : k \in 1 .. m - 1} /\ Len(s) = m - 1
  <2>1. Len(s) = m - 1 /\ \A k \in 1 .. m - 1 : s[k] = a + k * size
    OBVIOUS
  <2>2. QED
    BY <2>1 DEF Elements
<1>5. \A k \in 1 .. Len(s) : s[k] = a + k * size
  BY <1>4
<1> HIDE DEF size, s, x, f
<1>6. /\ c \in Nat /\ a <= c
      /\ \A k \in 0 .. m - 1 : /\ a + k * size \in Nat /\ a <= a + k * size
                               /\ a + k * size + size <= c
      /\ \A k, l \in 0 .. m - 1 : k < l => a + k * size + size <= a + l * size
  BY <1>1, Row
<1> HIDE DEF c
<1>a. a + e < b
  <2>1. 0 \in 0 .. m - 1 /\ a + 0 * size = a
    BY <1>1
  <2>2. a + size <= c
    BY <1>6, <2>1
  <2>3. QED
    BY <1>1, <1>3, <1>6, <2>2
<1>7. \A k \in 0 .. m - 1 : LET z == Piece(a + k * size, f)
                            IN  z \in Pieces /\ z.at = a + k * size /\ End(z) + e = a + k * size + size
                                /\ End(z) <= a + k * size + size
  <2>1. SUFFICES ASSUME NEW k \in 0 .. m - 1, NEW u, u = a + k * size
                 PROVE  LET z == Piece(u, f)
                        IN  z \in Pieces /\ z.at = u /\ End(z) + e = u + size /\ End(z) <= u + size
    OBVIOUS
  <2>2. u \in Nat
    BY <1>6, <2>1
  <2>3. Piece(u, f) \in Pieces /\ Piece(u, f).at = u /\ End(Piece(u, f)) = u + f
    BY <1>1, <2>2, IsPiece
  <2>4. u + f + e = u + size /\ u + f <= u + size
    BY <1>1, <2>2
  <2>5. QED
    BY <2>3, <2>4
<1>8. V \subseteq Pieces /\ \A z \in V : a <= z.at /\ End(z) + e <= c
  BY <1>6, <1>7
<1>9. \A k, l \in 0 .. m - 1 : k # l => Off(Piece(a + k * size, f), Piece(a + l * size, f))
  <2>1. \A k, l \in 0 .. m - 1 : k # l => k < l \/ l < k
    OBVIOUS
  <2> DEFINE v(k) == a + k * size
             z(k) == Piece(v(k), f)
  <2>2. /\ \A k, l \in 0 .. m - 1 : k < l => v(k) + size <= v(l)
        /\ \A k \in 0 .. m - 1 : /\ v(k) \in Nat /\ z(k) \in Pieces /\ z(k).at = v(k)
                                 /\ End(z(k)) <= v(k) + size
    BY <1>6, <1>7
  <2>3. \A k \in 0 .. m - 1 : End(z(k)) \in Nat
    BY <2>2, SamePiece
  <2> HIDE DEF v, z
  <2>4. \A k, l \in 0 .. m - 1 : k < l => End(z(k)) <= z(l).at
    <3>1. SUFFICES ASSUME NEW k \in 0 .. m - 1, NEW l \in 0 .. m - 1, k < l PROVE End(z(k)) <= v(l)
      BY <2>2
    <3>2. v(k) + size <= v(l) /\ End(z(k)) <= v(k) + size
      BY <2>2, <3>1
    <3>3. v(k) + size \in Nat /\ v(l) \in Nat /\ End(z(k)) \in Nat
      BY <1>1, <2>2, <2>3
    <3>4. QED
      BY <3>2, <3>3
  <2>a. \A k, l \in 0 .. m - 1 : k # l => Off(z(k), z(l))
    BY <2>1, <2>4 DEF Off
  <2>5. QED
    BY <2>a DEF z, v
<1>10. \A y, z \in V : y # z => Off(y, z)
  BY <1>9
<1>11. \A k, l \in 0 .. m - 1 : a + k * size = a + l * size => k = l
  <2>1. ASSUME NEW k \in 0 .. m - 1, NEW l \in 0 .. m - 1, k < l
        PROVE  a + k * size < a + l * size
    <3>1. a + k * size \in Nat /\ a + l * size \in Nat /\ a + k * size + size <= a + l * size
      BY <1>6, <2>1
    <3>2. QED
      BY <1>1, <3>1
  <2>2. \A k, l \in 0 .. m - 1 : k # l => k < l \/ l < k
    OBVIOUS
  <2>3. \A k \in 0 .. m - 1 : a + k * size \in Nat
    BY <1>6
  <2> DEFINE v(k) == a + k * size
  <2>4. /\ \A k, l \in 0 .. m - 1 : k < l => v(k) < v(l)
        /\ \A k \in 0 .. m - 1 : v(k) \in Nat
    BY <2>1, <2>3
  <2> HIDE DEF v
  <2>5. \A k, l \in 0 .. m - 1 : v(k) = v(l) => k = l
    BY <2>2, <2>4
  <2>6. QED
    BY <2>5 DEF v
<1>12. Clear(T \cup V, c, b, G, e) /\ V \cap T = {}
  <2>1. /\ Clear(T, a, b, G, e) /\ a + e < b /\ a <= c /\ c <= b /\ c \in Nat /\ e \in Nat
        /\ Strip(V, a, c, e)
    BY <1>1, <1>3, <1>6, <1>a, <1>8, <1>10 DEF Strip
  <2> HIDE DEF V, T, g
  <2>2. QED
    BY <2>1, ClearCut
<1>13. Distinct(s)
  BY <1>4, <1>5, <1>11 DEF Distinct
<1>14. \A z : z \in Blocks(g, e) <=> z \in Blocks(fl, e) \/ \E v \in Elements(s) : z = Piece(v, f)
  <2> HIDE DEF g
  <2>1. fl[i] = <<>> /\ f = Length(i) - e
    BY DEF size, f
  <2>2. Blocks([fl EXCEPT ![i] = s], e) = Blocks(fl, e) \cup {Piece(v, Length(i) - e) : v \in Elements(s)}
    BY <2>1, BlocksFill
  <2>3. QED
    BY <2>1, <2>2 DEF g
<1>15. \A z : z \in V <=> z = Piece(a, f) \/ \E v \in Elements(s) : z = Piece(v, f)
  <2>1. 0 .. m - 1 = {0} \cup 1 .. m - 1 /\ a + 0 * size = a
    BY <1>1
  <2>2. QED
    BY <1>4, <2>1
<1>16. \A v \in Elements(s) : Piece(v, f) # Piece(a, f)
  <2>1. 0 \in 0 .. m - 1 /\ a + 0 * size = a /\ \A k \in 1 .. m - 1 : k \in 0 .. m - 1 /\ k # 0
    BY <1>1
  <2>2. \A v \in Elements(s) : v # a
    BY <1>4, <1>11, <2>1
  <2>3. QED
    BY <2>2, EqualPieces
<1>17. \A j \in Lists : Distinct(g[j])
  BY <1>13, DistinctExcept DEF Sound
<1> HIDE DEF g, V
<1>18. Homes(L \cup {x}, e) = Homes(L, e) \cup {Piece(a, f)}
  BY <1>2, HomesAdd
<1>19. Homes(L \cup {x}, e) \cup Blocks(g, e) = T \cup V
  BY <1>14, <1>15, <1>18
<1>20. Homes(L \cup {x}, e) \cap Blocks(g, e) = {}
  BY <1>12, <1>14, <1>15, <1>16, <1>18 DEF Sound
<1>21. \A y, w \in L \cup {x} : Home(y, e) = Home(w, e) => y = w
  <2>1. Home(x, e) \notin Homes(L, e)
    BY <1>2, <1>12, <1>15
  <2>2. QED
    BY <2>1 DEF Sound, Homes
<1>22. Sound(g, L \cup {x}, c, b, G, e)
  BY <1>12, <1>17, <1>19, <1>20, <1>21 DEF Sound
<1>23. QED
  BY <1>22 DEF g, x, c, s, size, f

-----------------------------------------------------------------------------
(* Counting units of Align bytes: nothing is lost when the units of the     *)
(* blocks, the lists and the pool stay what they are.                       *)

(* The addresses of the units of a piece. *)
Grid(z) == {u \in Nat : z.at <= u /\ u < End(z) /\ Multiple(u - z.at)}

Cover(S) == UNION {Grid(z) : z \in S}

Small(L) == {x \in L : x.n <= MaxBytes}

Rest(a, b) == {z \in {Piece(a, b - a)} : a < b}

(* The small blocks, the lists and the pool. *)
Cells(fl, L, a, b) == (Homes(Small(L), 0) \cup Blocks(fl, 0)) \cup Rest(a, b)

Counted(fl, L, a, b, m) ==
  IsFiniteSet(Cover(Cells(fl, L, a, b))) /\ m = Align * Cardinality(Cover(Cells(fl, L, a, b)))

LEMMA Zero == 0 \in Slack /\ Align - 1 \in Slack /\ \A i \in Lists : Length(i) - 0 = Length(i)
<1>1. \A i \in Lists : Length(i) \in Nat
  BY LengthOf
<1>2. QED
  BY <1>1, DefaultAllocAssumption DEF Slack

LEMMA CoverIff ==
  ASSUME NEW S
  PROVE  \A u : u \in Cover(S) <=> \E z \in S : u \in Grid(z)
BY DEF Cover

LEMMA CoverAdd ==
  ASSUME NEW S, NEW T
  PROVE  Cover(S \cup T) = Cover(S) \cup Cover(T)
BY DEF Cover

LEMMA CoverOne ==
  ASSUME NEW z
  PROVE  Cover({z}) = Grid(z)
BY DEF Cover

(* A multiple that is less than another is so by a unit. *)
LEMMA Gap ==
  ASSUME NEW d, Multiple(d), NEW n, Multiple(n), d < n
  PROVE  d + Align <= n
<1>1. d \in Nat /\ n \in Nat /\ Multiple(n - d)
  BY Sums
<1>2. PICK m \in Nat : n - d = m * Align
  BY <1>1 DEF Multiple
<1>3. m # 0
  BY <1>1, <1>2, DefaultAllocAssumption
<1>4. 1 * Align <= m * Align
  BY <1>3, Monotone, DefaultAllocAssumption
<1>5. m * Align \in Nat /\ Align \in Nat
  BY DefaultAllocAssumption
<1>6. QED
  BY <1>1, <1>2, <1>4, <1>5

(* The units are numbered. *)
LEMMA GridIs ==
  ASSUME NEW z \in Pieces, NEW m \in Nat, z.n = m * Align
  PROVE  /\ \A k \in 0 .. m - 1 : z.at + k * Align \in Grid(z)
         /\ \A u \in Grid(z) : \E k \in 0 .. m - 1 : u = z.at + k * Align
<1>1. z.at \in Nat /\ End(z) = z.at + m * Align /\ m * Align \in Nat
  BY SamePiece, DefaultAllocAssumption DEF End
<1>2. ASSUME NEW k \in 0 .. m - 1 PROVE z.at + k * Align \in Grid(z)
  <2>1. k \in Nat /\ k * Align \in Nat /\ (k + 1) * Align = k * Align + Align
    BY DefaultAllocAssumption
  <2>2. (k + 1) * Align <= m * Align
    BY Monotone, DefaultAllocAssumption
  <2>3. k * Align < m * Align
    BY <1>1, <2>1, <2>2, DefaultAllocAssumption
  <2>4. Multiple(z.at + k * Align - z.at)
    <3>1. z.at + k * Align - z.at = k * Align
      BY <1>1, <2>1
    <3>2. QED
      BY <2>1, <3>1 DEF Multiple
  <2>5. QED
    BY <1>1, <2>1, <2>3, <2>4 DEF Grid
<1>3. ASSUME NEW u \in Grid(z) PROVE \E k \in 0 .. m - 1 : u = z.at + k * Align
  <2>1. u \in Nat /\ z.at <= u /\ u < End(z) /\ Multiple(u - z.at)
    BY DEF Grid
  <2>2. PICK k \in Nat : u - z.at = k * Align
    BY <2>1 DEF Multiple
  <2>3. k * Align < m * Align
    BY <1>1, <2>1, <2>2
  <2>4. k < m
    BY <2>3, Cancel, DefaultAllocAssumption
  <2>5. QED
    BY <1>1, <2>1, <2>2, <2>4
<1>4. QED
  BY <1>2, <1>3

LEMMA GridCount ==
  ASSUME NEW z \in Pieces, Multiple(z.n)
  PROVE  IsFiniteSet(Grid(z)) /\ z.n = Align * Cardinality(Grid(z))
<1>1. PICK m \in Nat : z.n = m * Align
  BY DEF Multiple
<1> DEFINE f == [k \in 0 .. m - 1 |-> z.at + k * Align]
<1>2. z.at \in Nat
  BY SamePiece
<1>3. /\ \A k \in 0 .. m - 1 : f[k] \in Grid(z)
      /\ \A u \in Grid(z) : \E k \in 0 .. m - 1 : u = f[k]
  BY <1>1, GridIs
<1>4. \A k, l \in 0 .. m - 1 : f[k] = f[l] => k = l
  <2>1. ASSUME NEW k \in 0 .. m - 1, NEW l \in 0 .. m - 1, f[k] = f[l] PROVE k = l
    <3>1. k * Align = l * Align
      <4>1. k * Align \in Nat /\ l * Align \in Nat
        BY DefaultAllocAssumption
      <4>2. QED
        BY <1>2, <2>1, <4>1
    <3>2. \A i, j \in Nat : i < j => ~(i * Align = j * Align)
      <4>1. SUFFICES ASSUME NEW i \in Nat, NEW j \in Nat, i < j PROVE i * Align < j * Align
        BY DefaultAllocAssumption
      <4>2. (i + 1) * Align <= j * Align
        BY <4>1, Monotone, DefaultAllocAssumption
      <4>3. (i + 1) * Align = i * Align + Align /\ i * Align \in Nat /\ j * Align \in Nat
        BY DefaultAllocAssumption
      <4>4. QED
        BY <4>2, <4>3, DefaultAllocAssumption
    <3>3. QED
      BY <3>1, <3>2
  <2>2. QED
    BY <2>1
<1>5. f \in Bijection(0 .. m - 1, Grid(z))
  <2>1. DOMAIN f = 0 .. m - 1 /\ f \in [0 .. m - 1 -> Grid(z)]
    BY <1>3
  <2> HIDE DEF f
  <2>2. QED
    BY <1>3, <1>4, <2>1 DEF Bijection, Injection, Surjection, IsInjective
<1>6. IsFiniteSet(0 .. m - 1) /\ Cardinality(0 .. m - 1) = m
  BY FS_Interval
<1>7. IsFiniteSet(Grid(z)) /\ Cardinality(Grid(z)) = m
  BY <1>5, <1>6, FS_Bijection DEF ExistsBijection
<1>8. QED
  BY <1>1, <1>7, DefaultAllocAssumption

(* A new piece is counted, when it has no unit that is there already. *)
LEMMA CountMore ==
  ASSUME NEW S, IsFiniteSet(Cover(S)), NEW m, m = Align * Cardinality(Cover(S)),
         NEW z \in Pieces, Multiple(z.n), Cover(S) \cap Grid(z) = {}
  PROVE  IsFiniteSet(Cover(S \cup {z})) /\ m + z.n = Align * Cardinality(Cover(S \cup {z}))
<1>1. Cover(S \cup {z}) = Cover(S) \cup Grid(z)
  <2>1. Cover(S \cup {z}) = Cover(S) \cup Cover({z})
    BY CoverAdd
  <2>2. QED
    BY <2>1, CoverOne
<1>2. IsFiniteSet(Grid(z)) /\ z.n = Align * Cardinality(Grid(z))
  BY GridCount
<1> DEFINE a == Cardinality(Cover(S))
           b == Cardinality(Grid(z))
           c == Cardinality(Cover(S \cup {z}))
<1>3. IsFiniteSet(Cover(S \cup {z})) /\ a \in Nat /\ b \in Nat /\ c = a + b - 0
  <2>1. a \in Nat /\ b \in Nat
    BY <1>2, FS_CardinalityType
  <2>2. /\ IsFiniteSet(Cover(S) \cup Grid(z))
        /\ Cardinality(Cover(S) \cup Grid(z)) = a + b - Cardinality(Cover(S) \cap Grid(z))
    BY <1>2, FS_Union
  <2>3. Cardinality(Cover(S) \cap Grid(z)) = 0
    BY FS_EmptySet
  <2>4. QED
    BY <1>1, <2>1, <2>2, <2>3
<1> HIDE DEF a, b, c
<1>4. c = a + b
  BY <1>3
<1>5. Align * c = Align * a + Align * b
  BY <1>3, <1>4, DefaultAllocAssumption
<1>6. QED
  BY <1>2, <1>3, <1>5 DEF a, b, c

-----------------------------------------------------------------------------
(* What the operations do to the cells. *)

LEMMA SmallOnes ==
  ASSUME NEW L, NEW x, x.n \in Nat
  PROVE  /\ x.n <= MaxBytes => Small(L \cup {x}) = Small(L) \cup {x} /\ Small(L \ {x}) = Small(L) \ {x}
         /\ x.n > MaxBytes => Small(L \cup {x}) = Small(L) /\ Small(L \ {x}) = Small(L)
         /\ x \in L /\ x.n <= MaxBytes => x \in Small(L)
<1>1. x.n <= MaxBytes <=> ~(x.n > MaxBytes)
  BY DefaultAllocAssumption
<1>2. QED
  BY <1>1 DEF Small

LEMMA RestIs ==
  ASSUME NEW a \in Nat, NEW b \in Nat
  PROVE  Rest(b, b) = {} /\ (a < b => Rest(a, b) = {Piece(a, b - a)})
BY DEF Rest

LEMMA CellsTake ==
  ASSUME NEW fl \in FreeLists, NEW L, NEW a, NEW b, NEW n \in Nat \ {0}, n <= MaxBytes,
         NEW i \in Lists, i = FREELIST_INDEX(n), fl[i] # <<>>, Distinct(fl[i])
  PROVE  Cells([fl EXCEPT ![i] = Tail(@)], L \cup {Piece(Head(fl[i]), n)}, a, b) = Cells(fl, L, a, b)
<1> DEFINE x == Piece(Head(fl[i]), n)
           z == Piece(Head(fl[i]), Length(i) - 0)
           g == [fl EXCEPT ![i] = Tail(@)]
<1>1. x \in Pieces /\ x.n = n /\ x.at = Head(fl[i])
  <2>1. Head(fl[i]) \in Nat
    BY TailElements DEF FreeLists
  <2>2. QED
    BY <2>1, IsPiece
<1>2. Home(x, 0) = z
  BY <1>1, Zero, HomeType
<1>3. Blocks(g, 0) = Blocks(fl, 0) \ {z} /\ z \in Blocks(fl, 0)
  BY Zero, BlocksTail
<1> HIDE DEF x, z, g
<1>4. Small(L \cup {x}) = Small(L) \cup {x}
  BY <1>1, SmallOnes
<1>5. Homes(Small(L \cup {x}), 0) = Homes(Small(L), 0) \cup {z}
  BY <1>2, <1>4, HomesAdd
<1>6. Cells(g, L \cup {x}, a, b) = Cells(fl, L, a, b)
  BY <1>3, <1>5 DEF Cells
<1>7. QED
  BY <1>6 DEF g, x

LEMMA CellsReturn ==
  ASSUME NEW fl \in FreeLists, NEW L, NEW a, NEW b, NEW x \in L, x \in Pieces, x.n <= MaxBytes
  PROVE  Cells([fl EXCEPT ![FREELIST_INDEX(x.n)] = <<x.at>> \o @], L \ {x}, a, b) = Cells(fl, L, a, b)
<1> DEFINE i == FREELIST_INDEX(x.n)
           s == <<x.at>> \o fl[i]
           g == [fl EXCEPT ![i] = s]
           v == x.at
<1>1. v \in Nat /\ x.n \in Nat /\ i \in Lists /\ Home(x, 0) = Piece(v, Length(i) - 0)
  BY HomeType, SamePiece, Zero
<1>2. Elements(s) = Elements(fl[i]) \cup {v}
  BY <1>1, ConsElements DEF FreeLists
<1>3. [fl EXCEPT ![FREELIST_INDEX(x.n)] = <<x.at>> \o @] = g
  BY <1>1 DEF FreeLists
<1> HIDE DEF i, s, v
<1>4. Blocks(g, 0) = Blocks(fl, 0) \cup {Home(x, 0)}
  BY <1>1, <1>2, BlocksAdd
<1> HIDE DEF g
<1>5. Homes(Small(L \ {x}), 0) \cup {Home(x, 0)} = Homes(Small(L), 0)
  <2>1. Small(L \ {x}) = Small(L) \ {x} /\ x \in Small(L)
    BY <1>1, SmallOnes
  <2>2. (Small(L) \ {x}) \cup {x} = Small(L)
    BY <2>1
  <2>3. Homes((Small(L) \ {x}) \cup {x}, 0) = Homes(Small(L) \ {x}, 0) \cup {Home(x, 0)}
    BY HomesAdd
  <2>4. QED
    BY <2>1, <2>2, <2>3
<1>6. Cells(g, L \ {x}, a, b) = Cells(fl, L, a, b)
  BY <1>4, <1>5 DEF Cells
<1>7. QED
  BY <1>3, <1>6

LEMMA CellsShelve ==
  ASSUME NEW fl \in FreeLists, NEW L, NEW a \in Nat, NEW b \in Nat, a < b,
         NEW i \in Lists, b - a = Length(i)
  PROVE  Cells([fl EXCEPT ![i] = <<a>> \o @], L, b, b) = Cells(fl, L, a, b)
<1> DEFINE s == <<a>> \o fl[i]
           g == [fl EXCEPT ![i] = s]
<1>1. Elements(s) = Elements(fl[i]) \cup {a}
  BY ConsElements DEF FreeLists
<1>2. [fl EXCEPT ![i] = <<a>> \o @] = g
  BY DEF FreeLists
<1> HIDE DEF s
<1>3. Blocks(g, 0) = Blocks(fl, 0) \cup {Piece(a, Length(i) - 0)}
  <2> DEFINE v == a
  <2>1. Elements(s) = Elements(fl[i]) \cup {v}
    BY <1>1
  <2> HIDE DEF v
  <2>2. Blocks([fl EXCEPT ![i] = s], 0) = Blocks(fl, 0) \cup {Piece(v, Length(i) - 0)}
    BY <2>1, BlocksAdd
  <2>3. QED
    BY <2>2 DEF v
<1> HIDE DEF g
<1>4. Rest(b, b) = {} /\ Rest(a, b) = {Piece(a, Length(i) - 0)}
  BY RestIs, Zero
<1>5. Cells(g, L, b, b) = Cells(fl, L, a, b)
  BY <1>3, <1>4 DEF Cells
<1>6. QED
  BY <1>2, <1>5

LEMMA CellsSalvage ==
  ASSUME NEW fl \in FreeLists, NEW L, NEW c \in Nat, NEW i \in Lists, fl[i] # <<>>, Distinct(fl[i])
  PROVE  Cells([fl EXCEPT ![i] = Tail(@)], L, Head(fl[i]), Head(fl[i]) + Length(i)) = Cells(fl, L, c, c)
<1> DEFINE a == Head(fl[i])
           b == Head(fl[i]) + Length(i)
           z == Piece(a, Length(i) - 0)
           g == [fl EXCEPT ![i] = Tail(@)]
<1>1. Blocks(g, 0) = Blocks(fl, 0) \ {z} /\ z \in Blocks(fl, 0)
  BY Zero, BlocksTail
<1>2. a \in Nat /\ Length(i) \in Nat \ {0}
  BY TailElements, LengthOf DEF FreeLists
<1>3. b \in Nat /\ a < b /\ b - a = Length(i) - 0
  BY <1>2
<1> HIDE DEF a, b, g
<1>4. Rest(c, c) = {} /\ Rest(a, b) = {z}
  BY <1>2, <1>3, RestIs
<1> HIDE DEF z
<1>5. Cells(g, L, a, b) = Cells(fl, L, c, c)
  BY <1>1, <1>4 DEF Cells
<1>6. QED
  BY <1>5 DEF a, b, g

LEMMA CellsLarge ==
  ASSUME NEW fl, NEW L, NEW a, NEW b, NEW x \in Pieces, x.n > MaxBytes
  PROVE  Cells(fl, L \cup {x}, a, b) = Cells(fl, L, a, b) /\ Cells(fl, L \ {x}, a, b) = Cells(fl, L, a, b)
BY SmallOnes, SamePiece DEF Cells

LEMMA CellsGrow ==
  ASSUME NEW fl, NEW L, NEW c \in Nat, NEW x \in Pieces
  PROVE  Cells(fl, L, x.at, End(x)) = Cells(fl, L, c, c) \cup {x}
<1>1. x.at \in Nat /\ End(x) \in Nat /\ x.at < End(x) /\ End(x) - x.at = x.n /\ x = Piece(x.at, x.n)
  <2>1. x.at \in Nat /\ End(x) \in Nat /\ x.at < End(x) /\ x.n \in Nat /\ x = Piece(x.at, x.n)
    BY SamePiece
  <2>2. QED
    BY <2>1 DEF End
<1>2. Rest(c, c) = {} /\ Rest(x.at, End(x)) = {x}
  BY <1>1, RestIs
<1>3. QED
  BY <1>2 DEF Cells

LEMMA CellsCutDown ==
  ASSUME NEW fl, NEW L, NEW a, NEW b, NEW x \in Pieces, x.n > MaxBytes, NEW y \in Pieces, y.n <= MaxBytes
  PROVE  Cells(fl, (L \ {x}) \cup {y}, a, b) = Cells(fl, L, a, b) \cup {Home(y, 0)}
<1>1. Small((L \ {x}) \cup {y}) = Small(L) \cup {y}
  <2>1. x.n \in Nat /\ y.n \in Nat
    BY SamePiece
  <2>2. Small(L \ {x}) = Small(L)
    BY <2>1, SmallOnes
  <2>3. Small((L \ {x}) \cup {y}) = Small(L \ {x}) \cup {y}
    BY <2>1, SmallOnes
  <2>4. QED
    BY <2>2, <2>3
<1>2. Homes(Small(L) \cup {y}, 0) = Homes(Small(L), 0) \cup {Home(y, 0)}
  BY HomesAdd
<1>3. QED
  BY <1>1, <1>2 DEF Cells

LEMMA GridIff ==
  ASSUME NEW a, NEW n
  PROVE  \A u : u \in Grid(Piece(a, n)) <=> u \in Nat /\ a <= u /\ u < a + n /\ Multiple(u - a)
BY DEF Grid, Piece, End

(* m blocks of one size, one behind the other from a on. *)
Slices(a, size, m) == {Piece(a + k * size, size) : k \in 0 .. m - 1}

(* A piece that is cut into them and a rest. *)
LEMMA GridRow ==
  ASSUME NEW a \in Nat, NEW b \in Nat, NEW size \in Nat \ {0}, Multiple(size), NEW m \in Nat,
         a + m * size <= b
  PROVE  Grid(Piece(a, b - a)) = Cover(Slices(a, size, m)) \cup Cover(Rest(a + m * size, b))
<1> DEFINE V == Slices(a, size, m)
           c == a + m * size
           at(k) == a + k * size
<1>1. /\ c \in Nat /\ a <= c /\ m * size \in Nat /\ c = a + m * size
      /\ \A k \in 0 .. m - 1 : at(k) \in Nat /\ a <= at(k) /\ at(k) + size <= c /\ k \in Nat
  BY Row
<1>c. c <= b
  OBVIOUS
<1> HIDE DEF c
<1>2. Multiple(m * size) /\ \A k \in 0 .. m - 1 : Multiple(k * size)
  <2>1. \A k \in Nat : Multiple(k * size)
    BY Sums
  <2>2. QED
    BY <1>1, <2>1
<1>3. \A u : u \in Grid(Piece(a, b - a)) <=> u \in Nat /\ a <= u /\ u < b /\ Multiple(u - a)
  <2>1. a + (b - a) = b
    OBVIOUS
  <2>2. QED
    BY <2>1, GridIff
<1>4. \A u : u \in Cover(Rest(c, b)) <=> u \in Nat /\ c <= u /\ u < b /\ Multiple(u - c)
  <2>1. c + (b - c) = b
    BY <1>1
  <2>2. \A u : u \in Grid(Piece(c, b - c)) <=> u \in Nat /\ c <= u /\ u < b /\ Multiple(u - c)
    BY <2>1, GridIff
  <2>3. CASE c < b
    <3>1. Cover(Rest(c, b)) = Grid(Piece(c, b - c))
      BY <1>1, <2>3, RestIs, CoverOne
    <3>2. QED
      BY <2>2, <3>1
  <2>4. CASE c = b
    <3>1. Rest(c, b) = {}
      BY <1>1, <2>4, RestIs
    <3>2. Cover(Rest(c, b)) = {}
      BY <3>1 DEF Cover
    <3>3. \A u \in Nat : ~(c <= u /\ u < b)
      BY <1>1, <2>4
    <3>4. QED
      BY <3>2, <3>3
  <2>5. QED
    BY <1>1, <2>3, <2>4
<1>5. \A u : u \in Cover(V) <=> \E k \in 0 .. m - 1 : u \in Nat /\ at(k) <= u /\ u < at(k) + size /\ Multiple(u - at(k))
  <2>1. \A u : u \in Cover(V) <=> \E z \in V : u \in Grid(z)
    BY CoverIff
  <2>2. \A u : u \in Cover(V) <=> \E k \in 0 .. m - 1 : u \in Grid(Piece(at(k), size))
    BY <2>1 DEF Slices
  <2>3. \A k \in 0 .. m - 1 : \A u : u \in Grid(Piece(at(k), size))
              <=> u \in Nat /\ at(k) <= u /\ u < at(k) + size /\ Multiple(u - at(k))
    BY GridIff
  <2> HIDE DEF at, V
  <2>4. QED
    BY <2>2, <2>3
<1>6. ASSUME NEW u \in Nat, a <= u, u < c, Multiple(u - a) PROVE u \in Cover(V)
  <2> DEFINE d == u - a
             k == d \div size
             r == d - k * size
  <2>1. d \in Nat /\ Multiple(d) /\ d < m * size /\ u = a + d
    BY <1>1, <1>6
  <2> HIDE DEF d
  <2>2. k \in Nat /\ k * size <= d /\ d < k * size + size
    BY <2>1, DivMod
  <2> HIDE DEF k
  <2>3. k * size \in Nat /\ k * size < m * size
    BY <1>1, <2>1, <2>2
  <2>4. k < m
    BY <2>2, <2>3, Cancel
  <2>5. Multiple(k * size)
    BY <2>2, Sums
  <2>6. Multiple(r)
    BY <2>1, <2>2, <2>5, Sums
  <2>7. k \in 0 .. m - 1 /\ at(k) <= u /\ u < at(k) + size /\ u - at(k) = r
    BY <2>1, <2>2, <2>3, <2>4
  <2> HIDE DEF at, r, V
  <2>8. QED
    BY <1>5, <1>6, <2>6, <2>7
<1>7. ASSUME NEW u \in Nat, c <= u, Multiple(u - a) PROVE Multiple(u - c)
  <2>1. m * size <= u - a /\ u - c = (u - a) - m * size
    BY <1>1, <1>7
  <2>2. QED
    BY <1>2, <1>7, <2>1, Sums
<1>8. ASSUME NEW u \in Nat, c <= u, Multiple(u - c) PROVE Multiple(u - a)
  <2>1. u - a = (u - c) + m * size
    BY <1>1, <1>8
  <2>2. QED
    BY <1>2, <1>8, <2>1, Sums
<1>9. ASSUME NEW u \in Cover(V) PROVE u \in Nat /\ a <= u /\ u < b /\ Multiple(u - a)
  <2>1. PICK k \in 0 .. m - 1 : u \in Nat /\ at(k) <= u /\ u < at(k) + size /\ Multiple(u - at(k))
    BY <1>5
  <2>2. Multiple(k * size) /\ k * size \in Nat
    BY <1>2, Sums
  <2>3. u - a = (u - at(k)) + k * size
    BY <2>1, <2>2
  <2>4. Multiple(u - a)
    BY <2>1, <2>2, <2>3, Sums
  <2>5. at(k) \in Nat /\ a <= at(k) /\ at(k) + size <= c
    BY <1>1
  <2> HIDE DEF at
  <2>6. a <= u /\ u < b
    BY <1>1, <2>1, <2>5
  <2>7. QED
    BY <2>1, <2>4, <2>6
<1> HIDE DEF V, at
<1>10. \A u : u \in Grid(Piece(a, b - a)) <=> u \in Cover(V) \/ u \in Cover(Rest(c, b))
  <2>1. ASSUME NEW u, u \in Grid(Piece(a, b - a)) PROVE u \in Cover(V) \/ u \in Cover(Rest(c, b))
    <3>1. u \in Nat /\ a <= u /\ u < b /\ Multiple(u - a)
      BY <1>3, <2>1
    <3>2. CASE u < c
      BY <1>6, <3>1, <3>2
    <3>3. CASE c <= u
      BY <1>4, <1>7, <3>1, <3>3
    <3>4. QED
      BY <1>1, <3>1, <3>2, <3>3
  <2>2. ASSUME NEW u, u \in Cover(Rest(c, b)) PROVE u \in Grid(Piece(a, b - a))
    <3>1. u \in Nat /\ c <= u /\ u < b /\ Multiple(u - c)
      BY <1>4, <2>2
    <3>2. a <= u /\ Multiple(u - a)
      BY <1>1, <1>8, <3>1
    <3>3. QED
      BY <1>3, <3>1, <3>2
  <2>3. QED
    BY <1>3, <1>9, <2>1, <2>2
<1>11. QED
  BY <1>10 DEF V, c

(* All blocks but the first, as a list.                                     *)
Others(a, size, m) == [k \in 1 .. m - 1 |-> a + k * size]

(* The pool is cut into blocks: its units are theirs. *)
LEMMA CellsCut ==
  ASSUME NEW fl \in FreeLists, NEW L, NEW a \in Nat, NEW b \in Nat,
         NEW n \in Nat \ {0}, n <= MaxBytes, NEW i \in Lists, i = FREELIST_INDEX(n), fl[i] = <<>>,
         NEW m \in Nat \ {0}, a + m * Length(i) <= b
  PROVE  Cover(Cells([fl EXCEPT ![i] = Others(a, Length(i), m)],
                     L \cup {Piece(a, n)}, a + m * Length(i), b)) = Cover(Cells(fl, L, a, b))
<1> DEFINE size == Length(i)
           s == Others(a, size, m)
           x == Piece(a, n)
           c == a + m * size
           g == [fl EXCEPT ![i] = s]
           V == Slices(a, size, m)
           old == Homes(Small(L), 0) \cup Blocks(fl, 0)
<1>1. size \in Nat \ {0} /\ Multiple(size) /\ Length(i) - 0 = size /\ 0 \in Slack
  BY LengthOf, Zero
<1>2. x \in Pieces /\ x.at = a /\ x.n = n
  BY IsPiece
<1>3. Home(x, 0) = Piece(a, size)
  BY <1>1, <1>2, HomeType
<1>4. Elements(s) = {a + k * size : k \in 1 .. m - 1}
  <2>1. Len(s) = m - 1 /\ \A k \in 1 .. m - 1 : s[k] = a + k * size
    BY DEF Others
  <2>2. QED
    BY <2>1 DEF Elements
<1>5. c <= b /\ a < b /\ c \in Nat
  <2>1. 1 * size <= m * size
    BY <1>1, Monotone
  <2>2. m * size \in Nat
    BY <1>1
  <2>3. QED
    BY <1>1, <2>1, <2>2
<1> HIDE DEF size, s, x, c
<1>6. Blocks(g, 0) = Blocks(fl, 0) \cup {Piece(v, size) : v \in Elements(s)}
  <2> HIDE DEF g
  <2>1. Blocks([fl EXCEPT ![i] = s], 0) = Blocks(fl, 0) \cup {Piece(v, Length(i) - 0) : v \in Elements(s)}
    BY BlocksFill
  <2>2. QED
    BY <1>1, <2>1 DEF g
<1> HIDE DEF g
<1>7. {Piece(a, size)} \cup {Piece(v, size) : v \in Elements(s)} = V
  <2>1. 0 .. m - 1 = {0} \cup 1 .. m - 1 /\ a + 0 * size = a
    BY <1>1
  <2>2. QED
    BY <1>4, <2>1 DEF Slices
<1>8. Homes(Small(L \cup {x}), 0) = Homes(Small(L), 0) \cup {Piece(a, size)}
  <2>1. Small(L \cup {x}) = Small(L) \cup {x}
    BY <1>2, SmallOnes
  <2>2. Homes(Small(L) \cup {x}, 0) = Homes(Small(L), 0) \cup {Home(x, 0)}
    BY HomesAdd
  <2>3. QED
    BY <1>3, <2>1, <2>2
<1> HIDE DEF V
<1>9. Cells(g, L \cup {x}, c, b) = (old \cup V) \cup Rest(c, b)
  BY <1>6, <1>7, <1>8 DEF Cells
<1>10. Cells(fl, L, a, b) = old \cup {Piece(a, b - a)}
  BY <1>5, RestIs DEF Cells
<1> HIDE DEF old
<1>11. Cover(Cells(g, L \cup {x}, c, b)) = (Cover(old) \cup Cover(V)) \cup Cover(Rest(c, b))
  <2>1. Cover((old \cup V) \cup Rest(c, b)) = Cover(old \cup V) \cup Cover(Rest(c, b))
    BY CoverAdd
  <2>2. Cover(old \cup V) = Cover(old) \cup Cover(V)
    BY CoverAdd
  <2>3. QED
    BY <1>9, <2>1, <2>2
<1>12. Cover(Cells(fl, L, a, b)) = Cover(old) \cup Grid(Piece(a, b - a))
  BY <1>10, CoverAdd, CoverOne
<1>13. Grid(Piece(a, b - a)) = Cover(V) \cup Cover(Rest(c, b))
  <2>1. a + m * size <= b /\ size \in Nat \ {0} /\ Multiple(size) /\ m \in Nat
    BY <1>1, <1>5 DEF c
  <2>2. Grid(Piece(a, b - a)) = Cover(Slices(a, size, m)) \cup Cover(Rest(a + m * size, b))
    BY <2>1, GridRow
  <2>3. QED
    BY <2>2 DEF V, c
<1>14. Cover(Cells(g, L \cup {x}, c, b)) = Cover(Cells(fl, L, a, b))
  BY <1>11, <1>12, <1>13
<1>15. QED
  BY <1>14 DEF g, x, c, s, size

-----------------------------------------------------------------------------
(* No unit is there twice. *)

(* A unit of a piece lies in what counts as taken of it. *)
LEMMA Foot ==
  ASSUME NEW v \in Nat, NEW n, Multiple(n), 0 < n, NEW u \in Grid(Piece(v, n))
  PROVE  /\ Piece(v, n - (Align - 1)) \in Pieces /\ Piece(v, n - (Align - 1)).at <= u
         /\ u < End(Piece(v, n - (Align - 1)))
<1> DEFINE e == Align - 1
<1>1. n \in Nat /\ Align \in Nat
  BY Sums, DefaultAllocAssumption
<1>2. u \in Nat /\ v <= u /\ u < v + n /\ Multiple(u - v)
  BY GridIff
<1>3. u - v < n
  BY <1>1, <1>2
<1>4. (u - v) + Align <= n
  BY <1>2, <1>3, Gap
<1>5. n - e \in Nat \ {0} /\ u < v + (n - e)
  BY <1>1, <1>2, <1>4
<1> HIDE DEF e
<1>6. Piece(v, n - e) \in Pieces /\ Piece(v, n - e).at = v /\ End(Piece(v, n - e)) = v + (n - e)
  BY <1>5, IsPiece
<1>7. QED
  BY <1>2, <1>5, <1>6 DEF e

(* It lies in an area got from malloc() and outside all large blocks. *)
Footing(u, L, G) ==
  \E w \in Pieces : /\ w.at <= u /\ u < End(w) /\ Within(w, G)
                    /\ \A x \in L : x.n > MaxBytes => Off(x, w)

LEMMA Footed ==
  ASSUME NEW fl \in FreeLists, NEW L, L \subseteq Pieces, NEW a, NEW b, NEW G,
         Sound(fl, L, a, b, G, Align - 1), Multiple(b - a), NEW u \in Cover(Cells(fl, L, a, b))
  PROVE  Footing(u, L, G)
<1> DEFINE e == Align - 1
           T == Homes(L, e) \cup Blocks(fl, e)
<1>1. /\ e \in Slack /\ a \in Nat /\ b \in Nat /\ Homes(L, e) \cap Blocks(fl, e) = {}
      /\ \A x, y \in L : Home(x, e) = Home(y, e) => x = y
      /\ \A x, y \in T : x # y => Off(x, y)
      /\ \A x \in T : Within(x, G)
      /\ a + e < b => Within(Pool(a, b, e), G) /\ \A x \in T : Off(x, Pool(a, b, e))
  BY Zero DEF Sound, Clear
<1>2. \A x \in L : x.n > MaxBytes => Home(x, e) = x
  BY <1>1, HomeType
<1>3. \A x \in L : Home(x, e) \in T
  BY DEF Homes
<1>4. ASSUME NEW v \in Nat, NEW n, Multiple(n), 0 < n, u \in Grid(Piece(v, n)), Within(Piece(v, n - e), G),
             \A x \in L : x.n > MaxBytes => Off(x, Piece(v, n - e))
      PROVE  Footing(u, L, G)
  <2>1. Piece(v, n - e) \in Pieces /\ Piece(v, n - e).at <= u /\ u < End(Piece(v, n - e))
    BY <1>4, Foot
  <2> HIDE DEF e
  <2>2. QED
    BY <1>4, <2>1 DEF Footing
<1> HIDE DEF e, T
<1>5. PICK z \in Cells(fl, L, a, b) : u \in Grid(z)
  BY CoverIff
<1>6. CASE z \in Homes(Small(L), 0)
  <2>1. PICK y \in Small(L) : z = Home(y, 0)
    BY <1>6 DEF Homes
  <2>2. y \in L /\ y.n <= MaxBytes /\ y \in Pieces /\ y.at \in Nat /\ y.n \in Nat
    BY SamePiece DEF Small
  <2> DEFINE i == FREELIST_INDEX(y.n)
  <2>3. i \in Lists /\ z = Piece(y.at, Length(i) - 0) /\ Home(y, e) = Piece(y.at, Length(i) - e)
    BY <1>1, <2>1, <2>2, Zero, HomeType
  <2> HIDE DEF i
  <2>4. Multiple(Length(i)) /\ 0 < Length(i) /\ Length(i) - 0 = Length(i)
    BY <2>3, LengthOf
  <2>5. Within(Piece(y.at, Length(i) - e), G)
    BY <1>1, <1>3, <2>2, <2>3
  <2>6. ASSUME NEW x \in L, x.n > MaxBytes PROVE Off(x, Piece(y.at, Length(i) - e))
    <3>1. x # y
      BY <2>2, <2>6, DefaultAllocAssumption
    <3>2. Home(x, e) # Home(y, e)
      BY <1>1, <2>2, <3>1
    <3>3. Off(Home(x, e), Home(y, e))
      BY <1>1, <1>3, <2>2, <3>2
    <3>4. QED
      BY <1>2, <2>3, <2>6, <3>3
  <2>7. u \in Grid(Piece(y.at, Length(i)))
    BY <1>5, <2>3, <2>4
  <2>8. QED
    BY <1>4, <2>2, <2>4, <2>5, <2>6, <2>7
<1>7. CASE z \in Blocks(fl, 0)
  <2>1. PICK i \in Lists : \E v \in Elements(fl[i]) : z = Piece(v, Length(i) - 0)
    BY <1>7, BlocksIff
  <2>2. PICK v \in Elements(fl[i]) : z = Piece(v, Length(i) - 0)
    BY <2>1
  <2>3. v \in Nat
    <3>1. fl[i] \in Seq(Nat)
      BY DEF FreeLists
    <3>2. QED
      BY <3>1 DEF Elements
  <2>4. Multiple(Length(i)) /\ 0 < Length(i) /\ Length(i) - 0 = Length(i)
    BY LengthOf
  <2> DEFINE w == Piece(v, Length(i) - e)
  <2>5. w \in Blocks(fl, e)
    BY BlocksIff
  <2>6. w \in T
    BY <2>5 DEF T
  <2> HIDE DEF w
  <2>7. Within(w, G)
    BY <1>1, <2>6
  <2>8. \A x \in L : x.n > MaxBytes => Off(x, w)
    <3>1. \A x \in L : Home(x, e) # w
      BY <1>1, <2>5 DEF Homes
    <3>2. QED
      BY <1>1, <1>2, <1>3, <2>6, <3>1
  <2>9. u \in Grid(Piece(v, Length(i)))
    BY <1>5, <2>2, <2>4
  <2>10. QED
    BY <1>4, <2>3, <2>4, <2>7, <2>8, <2>9 DEF w
<1>8. CASE z \in Rest(a, b)
  <2>1. a < b /\ z = Piece(a, b - a)
    BY <1>8 DEF Rest
  <2>2. 0 < b - a
    BY <1>1, <2>1
  <2>3. e < b - a
    BY <1>1, <2>2, SlackType
  <2>4. a + e < b
    BY <1>1, <2>3, SlackType
  <2>5. Within(Pool(a, b, e), G) /\ \A x \in L : x.n > MaxBytes => Off(x, Pool(a, b, e))
    BY <1>1, <1>2, <1>3, <2>4
  <2>6. u \in Grid(Piece(a, b - a))
    BY <1>5, <2>1
  <2>7. QED
    BY <1>1, <1>4, <2>2, <2>5, <2>6 DEF Pool
<1>9. QED
  BY <1>5, <1>6, <1>7, <1>8 DEF Cells

(* An area from malloc() has new units. *)
LEMMA FreshUnits ==
  ASSUME NEW fl \in FreeLists, NEW L, L \subseteq Pieces, NEW a, NEW b, NEW G, G \subseteq Pieces,
         Sound(fl, L, a, b, G, Align - 1), Multiple(b - a), NEW x \in Pieces, Behind(x, G)
  PROVE  Cover(Cells(fl, L, a, b)) \cap Grid(x) = {}
<1>1. SUFFICES ASSUME NEW u \in Cover(Cells(fl, L, a, b)), u \in Grid(x) PROVE FALSE
  OBVIOUS
<1>2. Footing(u, L, G)
  BY Footed
<1>3. PICK w \in Pieces : w.at <= u /\ u < End(w) /\ Within(w, G)
  BY <1>2 DEF Footing
<1>4. PICK g \in G : g.at <= w.at /\ End(w) <= End(g)
  BY <1>3 DEF Within
<1>5. End(g) <= x.at
  BY DEF Behind
<1>6. u \in Nat /\ x.at <= u
  BY <1>1 DEF Grid
<1>7. End(w) \in Nat /\ End(g) \in Nat /\ x.at \in Nat
  BY SamePiece
<1>8. QED
  BY <1>3, <1>4, <1>5, <1>6, <1>7

(* So has a block that was large, when it is cut down to a small size. *)
LEMMA CutDownUnits ==
  ASSUME NEW fl \in FreeLists, NEW L, L \subseteq Pieces, NEW a, NEW b, NEW G,
         Sound(fl, L, a, b, G, Align - 1), Multiple(b - a),
         NEW x \in L, x.n > MaxBytes, NEW y \in Pieces, y.at = x.at, y.n <= MaxBytes
  PROVE  Cover(Cells(fl, L, a, b)) \cap Grid(Home(y, 0)) = {}
<1>1. SUFFICES ASSUME NEW u \in Cover(Cells(fl, L, a, b)), u \in Grid(Home(y, 0)) PROVE FALSE
  OBVIOUS
<1>2. Footing(u, L, G)
  BY Footed
<1>3. PICK w \in Pieces : w.at <= u /\ u < End(w) /\ Off(x, w)
  BY <1>2 DEF Footing
<1>4. /\ x.at \in Nat /\ x.n \in Nat /\ y.n \in Nat \ {0} /\ End(w) \in Nat /\ w.at \in Nat
      /\ End(x) = x.at + x.n /\ MaxBytes \in Nat
  BY SamePiece, DefaultAllocAssumption DEF End
<1>5. ROUND_UP(y.n) \in Nat /\ ROUND_UP(y.n) <= MaxBytes
  BY <1>4, Rounding, SmallSize
<1>6. Home(y, 0) = Piece(x.at, ROUND_UP(y.n))
  BY <1>5 DEF Home, Extent
<1>7. u \in Nat /\ x.at <= u /\ u < x.at + ROUND_UP(y.n)
  BY <1>1, <1>6, GridIff
<1>8. u < End(x)
  BY <1>4, <1>5, <1>7
<1>9. QED
  BY <1>3, <1>4, <1>7, <1>8 DEF Off

-----------------------------------------------------------------------------
(* The allocator's records. *)

Pools == [free_lists : FreeLists, start_free : Nat, end_free : Nat, heap_size : Nat, got : SUBSET Pieces]

PoolOK(q) ==
  /\ q \in Pools
  /\ IsFiniteSet(q.got) /\ q.start_free <= q.end_free /\ Multiple(Left(q))

SoundPool(q, L, e) == Sound(q.free_lists, L, q.start_free, q.end_free, q.got, e)

(* What malloc() gave for pools, and h bytes more, is all there.            *)
CountedPool(q, L, h) == Counted(q.free_lists, L, q.start_free, q.end_free, q.heap_size + h)

LEMMA PoolType ==
  ASSUME NEW q, PoolOK(q)
  PROVE  /\ Left(q) \in Nat /\ q.start_free \in Nat /\ q.end_free \in Nat /\ q.heap_size \in Nat
         /\ q.end_free = q.start_free + Left(q) /\ q.free_lists \in FreeLists /\ q.got \subseteq Pieces
         /\ q \in Pools /\ IsFiniteSet(q.got) /\ Multiple(Left(q))
         /\ \A i \in Lists : q.free_lists[i] \in Seq(Nat)
<1>1. q.free_lists \in FreeLists /\ q.start_free \in Nat /\ q.end_free \in Nat /\ q.heap_size \in Nat
      /\ q.got \subseteq Pieces /\ q.start_free <= q.end_free
  BY DEF PoolOK, Pools
<1>2. Left(q) \in Nat /\ q.end_free = q.start_free + Left(q)
  BY <1>1 DEF Left
<1>3. QED
  BY <1>1, <1>2 DEF PoolOK, FreeLists

(* One list is another, and the pool is moved. *)
LEMMA ListSet ==
  ASSUME NEW q \in Pools, NEW i \in Lists, NEW s \in Seq(Nat)
  PROVE  LET r == [q EXCEPT !.free_lists[i] = s]
         IN  /\ r \in Pools /\ r.free_lists = [q.free_lists EXCEPT ![i] = s]
             /\ r.start_free = q.start_free /\ r.end_free = q.end_free /\ r.got = q.got
             /\ r.heap_size = q.heap_size
<1>1. [q.free_lists EXCEPT ![i] = s] \in FreeLists
  BY DEF Pools, FreeLists
<1>2. QED
  BY <1>1 DEF Pools

WithListAndPool(q, i, s, a, b) == [q EXCEPT !.free_lists[i] = s, !.start_free = a, !.end_free = b]
WithListAfter(q, i, s, c) == [q EXCEPT !.start_free = @ + c, !.free_lists[i] = s]
WithArea(q, a, b, n, G) == [q EXCEPT !.start_free = a, !.end_free = b, !.heap_size = n, !.got = G]
WithAreas(q, G) == [q EXCEPT !.got = G]

LEMMA ListAndPoolSet ==
  ASSUME NEW q \in Pools, NEW i \in Lists, NEW s \in Seq(Nat), NEW a \in Nat, NEW b \in Nat
  PROVE  LET r == WithListAndPool(q, i, s, a, b)
         IN  /\ r \in Pools /\ r.free_lists = [q.free_lists EXCEPT ![i] = s]
             /\ r.start_free = a /\ r.end_free = b /\ r.got = q.got /\ r.heap_size = q.heap_size
<1>1. [q.free_lists EXCEPT ![i] = s] \in FreeLists
  BY DEF Pools, FreeLists
<1>2. QED
  BY <1>1 DEF Pools, WithListAndPool

LEMMA PoolAdvanced ==
  ASSUME NEW q \in Pools, NEW i \in Lists, NEW c \in Nat, NEW s \in Seq(Nat)
  PROVE  LET r == WithListAfter(q, i, s, c)
         IN  /\ r \in Pools /\ r.free_lists = [q.free_lists EXCEPT ![i] = s]
             /\ r.start_free = q.start_free + c /\ r.end_free = q.end_free /\ r.got = q.got
             /\ r.heap_size = q.heap_size
<1> DEFINE u == [q EXCEPT !.start_free = q.start_free + c]
<1>1. q.start_free + c \in Nat
  BY DEF Pools
<1>2. WithListAfter(q, i, s, c) = [u EXCEPT !.free_lists[i] = s]
  BY DEF Pools, WithListAfter
<1>3. u \in Pools /\ u.free_lists = q.free_lists /\ u.start_free = q.start_free + c
      /\ u.end_free = q.end_free /\ u.got = q.got /\ u.heap_size = q.heap_size
  BY <1>1 DEF Pools
<1> HIDE DEF u
<1>4. QED
  BY <1>2, <1>3, ListSet

LEMMA PoolReplaced ==
  ASSUME NEW q \in Pools, NEW a \in Nat, NEW b \in Nat, NEW n \in Nat, NEW G \in SUBSET Pieces
  PROVE  LET r == WithArea(q, a, b, n, G)
         IN  /\ r \in Pools /\ r.free_lists = q.free_lists
             /\ r.start_free = a /\ r.end_free = b /\ r.got = G /\ r.heap_size = n
BY DEF Pools, WithArea

LEMMA GotSet ==
  ASSUME NEW q \in Pools, NEW G \in SUBSET Pieces
  PROVE  LET r == WithAreas(q, G)
         IN  /\ r \in Pools /\ r.free_lists = q.free_lists
             /\ r.start_free = q.start_free /\ r.end_free = q.end_free /\ r.got = G
             /\ r.heap_size = q.heap_size
BY DEF Pools, WithAreas

(* A block in front of a list. *)
LEMMA LinkFields ==
  ASSUME NEW q, PoolOK(q), NEW x \in Pieces, NEW i \in Lists, i = FREELIST_INDEX(x.n)
  PROVE  /\ PoolOK(Link(q, x))
         /\ Link(q, x).free_lists = [q.free_lists EXCEPT ![i] = <<x.at>> \o @]
         /\ Link(q, x).start_free = q.start_free /\ Link(q, x).end_free = q.end_free
         /\ Link(q, x).got = q.got /\ Link(q, x).heap_size = q.heap_size
         /\ \A j \in Lists : q.free_lists[j] # <<>> => Link(q, x).free_lists[j] # <<>>
<1> DEFINE s == <<x.at>> \o q.free_lists[i]
           r == Link(q, x)
<1>1. q \in Pools /\ q.free_lists \in FreeLists /\ q.free_lists[i] \in Seq(Nat) /\ x.at \in Nat
  BY PoolType, SamePiece
<1>2. s \in Seq(Nat) /\ s # <<>>
  BY <1>1, ConsElements
<1>3. r = [q EXCEPT !.free_lists[i] = s]
  BY DEF Link
<1>4. [q.free_lists EXCEPT ![i] = <<x.at>> \o @] = [q.free_lists EXCEPT ![i] = s]
  BY <1>1 DEF FreeLists
<1> HIDE DEF s, r
<1>5. /\ r \in Pools /\ r.free_lists = [q.free_lists EXCEPT ![i] = s]
      /\ r.start_free = q.start_free /\ r.end_free = q.end_free /\ r.got = q.got
      /\ r.heap_size = q.heap_size
  BY <1>1, <1>2, <1>3, ListSet
<1>6. \A j \in Lists : q.free_lists[j] # <<>> => r.free_lists[j] # <<>>
  BY <1>1, <1>2, <1>5 DEF FreeLists
<1>7. Left(r) = Left(q)
  BY <1>5 DEF Left
<1>8. PoolOK(r)
  BY <1>5, <1>7 DEF PoolOK
<1>9. QED
  BY <1>4, <1>5, <1>6, <1>8 DEF r

-----------------------------------------------------------------------------
(* The parts of allocate(). *)

LEMMA ShelveStep ==
  ASSUME NEW q, PoolOK(q), Left(q) <= MaxBytes
  PROVE  /\ PoolOK(Shelve(q)) /\ Shelve(q).got = q.got /\ Shelve(q).heap_size = q.heap_size
         /\ \A j \in Lists : Length(j) # Left(q) => Shelve(q).free_lists[j] = q.free_lists[j]
         /\ \A j \in Lists : q.free_lists[j] # <<>> => Shelve(q).free_lists[j] # <<>>
         /\ \A e \in Slack : \A L :
              SoundPool(q, L, e) => Sound(Shelve(q).free_lists, L, q.end_free, q.end_free, q.got, e)
         /\ \A L, m : Counted(q.free_lists, L, q.start_free, q.end_free, m)
                         => Counted(Shelve(q).free_lists, L, q.end_free, q.end_free, m)
<1>1. Left(q) \in Nat /\ q.start_free \in Nat /\ q.end_free \in Nat /\ q.free_lists \in FreeLists
      /\ q.end_free = q.start_free + Left(q) /\ Multiple(Left(q))
  BY PoolType
<1>2. CASE Left(q) = 0
  <2>1. Shelve(q) = q /\ q.start_free = q.end_free
    BY <1>1, <1>2 DEF Shelve
  <2>2. QED
    BY <2>1 DEF SoundPool
<1>3. CASE Left(q) > 0
  <2> DEFINE n == Left(q)
             a == q.start_free
             x == Piece(a, n)
             i == FREELIST_INDEX(n)
             r == Shelve(q)
  <2>1. n \in Nat \ {0} /\ a \in Nat /\ n <= MaxBytes /\ Multiple(n)
    BY <1>1, <1>3
  <2>2. r = Link(q, x)
    BY <1>3 DEF Shelve
  <2> HIDE DEF n, a, r
  <2>3. x \in Pieces /\ x.n = n /\ x.at = a
    BY <2>1, IsPiece
  <2>4. ROUND_UP(n) = n
    BY <2>1, RoundMultiple
  <2>5. i \in Lists /\ Length(i) = n
    BY <2>1, <2>4, SmallSize, Rounding
  <2>6. i = FREELIST_INDEX(x.n)
    BY <2>3
  <2> HIDE DEF x, i
  <2>7. /\ PoolOK(r) /\ r.got = q.got /\ r.heap_size = q.heap_size
        /\ r.free_lists = [q.free_lists EXCEPT ![i] = <<a>> \o @]
        /\ \A j \in Lists : q.free_lists[j] # <<>> => r.free_lists[j] # <<>>
    BY <2>2, <2>3, <2>5, <2>6, LinkFields
  <2>8. \A j \in Lists : Length(j) # n => r.free_lists[j] = q.free_lists[j]
    BY <1>1, <2>5, <2>7 DEF FreeLists
  <2>9. ASSUME NEW e \in Slack, NEW L, SoundPool(q, L, e)
        PROVE  Sound(r.free_lists, L, q.end_free, q.end_free, q.got, e)
    <3>1. a < q.end_free /\ q.end_free - a = Length(i)
      BY <1>1, <2>1, <2>5 DEF a, n
    <3>2. Sound(q.free_lists, L, a, q.end_free, q.got, e)
      BY <2>9 DEF SoundPool, a
    <3>3. Sound([q.free_lists EXCEPT ![i] = <<a>> \o @], L, q.end_free, q.end_free, q.got, e)
      BY <1>1, <2>5, <3>1, <3>2, SoundShelve
    <3>4. QED
      BY <2>7, <3>3
  <2>10. ASSUME NEW L, NEW m, Counted(q.free_lists, L, q.start_free, q.end_free, m)
         PROVE  Counted(r.free_lists, L, q.end_free, q.end_free, m)
    <3> DEFINE b == q.end_free
               fl == q.free_lists
    <3>1. a < b /\ b - a = Length(i) /\ b \in Nat /\ a \in Nat /\ fl \in FreeLists
      BY <1>1, <2>1, <2>5 DEF a, n
    <3>2. Counted(fl, L, a, b, m)
      BY <2>10 DEF a
    <3>3. r.free_lists = [fl EXCEPT ![i] = <<a>> \o @]
      BY <2>7
    <3> HIDE DEF b, fl
    <3>4. Cells([fl EXCEPT ![i] = <<a>> \o @], L, b, b) = Cells(fl, L, a, b)
      BY <2>5, <3>1, CellsShelve
    <3>5. QED
      BY <3>2, <3>3, <3>4 DEF Counted, b
  <2>11. QED
    BY <2>7, <2>8, <2>9, <2>10 DEF n, r
<1>4. QED
  BY <1>1, <1>2, <1>3

(* malloc() hands out what lies behind everything handed out before. *)
LEMMA FreshArea ==
  ASSUME NEW q, PoolOK(q), NEW n \in Nat \ {0}
  PROVE  /\ Fresh(q, n) \in Pieces /\ Fresh(q, n).n = n /\ Behind(Fresh(q, n), q.got)
         /\ Fresh(q, n).at \in Nat /\ End(Fresh(q, n)) = Fresh(q, n).at + n
<1> DEFINE S == {End(x) : x \in q.got}
           U == {Align} \cup S
           m == Max(U)
<1>1. q.got \subseteq Pieces /\ IsFiniteSet(q.got) /\ Align \in Nat
  BY PoolType, DefaultAllocAssumption
<1>2. S \subseteq Nat
  BY <1>1, SamePiece
<1>3. IsFiniteSet(S)
  <2> DEFINE f == [x \in q.got |-> End(x)]
  <2>1. f \in Surjection(q.got, S)
    BY DEF Surjection
  <2> HIDE DEF f, S
  <2>2. QED
    BY <1>1, <2>1, FS_Surjection
<1>4. \A g \in q.got : End(g) \in U
  OBVIOUS
<1>5. Fresh(q, n) = Piece(m, n)
  BY DEF Fresh
<1> HIDE DEF S
<1>6. IsFiniteSet(S \cup {Align}) /\ S \cup {Align} = U
  BY <1>3, FS_AddElement
<1>7. IsFiniteSet(U) /\ U # {} /\ U \subseteq Nat
  BY <1>1, <1>2, <1>6
<1> HIDE DEF U
<1>8. m \in U /\ \A y \in U : y <= m
  BY <1>7, FiniteMax
<1> HIDE DEF m
<1>9. m \in Nat
  BY <1>7, <1>8
<1>10. \A g \in q.got : End(g) <= m
  BY <1>4, <1>8
<1>11. Piece(m, n) \in Pieces /\ Piece(m, n).at = m /\ Piece(m, n).n = n /\ End(Piece(m, n)) = m + n
  BY <1>9, IsPiece
<1>12. QED
  BY <1>5, <1>9, <1>10, <1>11 DEF Behind

(* malloc() is asked for a multiple of Align. *)
LEMMA GrowSize ==
  ASSUME NEW h \in Nat, NEW size \in Nat \ {0}, Multiple(size)
  PROVE  LET n == 2 * size * Refill + ROUND_UP(h \div 16)
         IN  n \in Nat \ {0} /\ Multiple(n) /\ size <= n
<1> DEFINE u == 2 * size * Refill
           v == ROUND_UP(h \div 16)
<1>1. Multiple(v)
  <2> DEFINE k == h \div 16
             d == (k + Align - 1) \div Align
  <2>1. k \in Nat
    BY DivMod
  <2> HIDE DEF k
  <2>2. k + Align - 1 \in Nat
    BY <2>1, DefaultAllocAssumption
  <2>3. d \in Nat
    BY <2>2, DivMod, DefaultAllocAssumption
  <2>4. v = d * Align
    BY DEF ROUND_UP, k
  <2> HIDE DEF d
  <2>5. QED
    BY <2>3, <2>4 DEF Multiple
<1>2. Multiple(u) /\ size <= u
  <2> DEFINE t == 2 * Refill
  <2>1. t \in Nat /\ 1 <= t /\ u = t * size
    BY DefaultAllocAssumption
  <2> HIDE DEF t, u
  <2>2. 1 * size <= t * size
    BY <2>1, Monotone
  <2>3. Multiple(t * size)
    BY <2>1, Sums
  <2>4. QED
    BY <2>1, <2>2, <2>3
<1> HIDE DEF u, v
<1>3. u \in Nat /\ v \in Nat /\ Multiple(u + v)
  BY <1>1, <1>2, Sums
<1>4. u + v \in Nat \ {0} /\ size <= u + v
  BY <1>2, <1>3
<1>5. QED
  BY <1>3, <1>4 DEF u, v

(* The area that malloc() hands out as the new pool is long enough. *)
LEMMA GrowStep ==
  ASSUME NEW q, PoolOK(q), NEW size \in Nat \ {0}, Multiple(size)
  PROVE  /\ PoolOK(Grow(q, size)) /\ Enough(Grow(q, size), size)
         /\ Grow(q, size).free_lists = q.free_lists
         /\ \A e \in Slack : \A L, c :
              Sound(q.free_lists, L, c, c, q.got, e) => SoundPool(Grow(q, size), L, e)
         /\ \A L, c : \A h \in Nat :
              /\ L \subseteq Pieces /\ Sound(q.free_lists, L, c, c, q.got, Align - 1)
              /\ Counted(q.free_lists, L, c, c, q.heap_size + h)
              => CountedPool(Grow(q, size), L, h)
<1> DEFINE n == 2 * size * Refill + ROUND_UP(q.heap_size \div 16)
           x == Fresh(q, n)
           r == Grow(q, size)
<1>1. /\ q \in Pools /\ q.heap_size \in Nat /\ IsFiniteSet(q.got)
      /\ q.got \subseteq Pieces /\ q.free_lists \in FreeLists
  BY PoolType
<1>2. n \in Nat \ {0} /\ Multiple(n) /\ size <= n
  BY <1>1, GrowSize
<1>3. r = WithArea(q, x.at, End(x), q.heap_size + x.n, q.got \cup {x})
  BY DEF Grow, WithArea
<1> HIDE DEF n, r
<1>4. x \in Pieces /\ x.n = n /\ Behind(x, q.got) /\ x.at \in Nat /\ End(x) = x.at + n
  BY <1>2, FreshArea
<1> HIDE DEF x
<1>5. /\ r \in Pools /\ r.start_free = x.at /\ r.end_free = End(x)
      /\ r.got = q.got \cup {x} /\ r.free_lists = q.free_lists /\ r.heap_size = q.heap_size + x.n
  <2> DEFINE w == WithArea(q, x.at, End(x), q.heap_size + x.n, q.got \cup {x})
  <2>1. x.at \in Nat /\ End(x) \in Nat /\ q.heap_size + x.n \in Nat /\ q.got \cup {x} \in SUBSET Pieces
    BY <1>1, <1>2, <1>4 DEF Pools
  <2>2. /\ w \in Pools /\ w.free_lists = q.free_lists
        /\ w.start_free = x.at /\ w.end_free = End(x) /\ w.got = q.got \cup {x}
        /\ w.heap_size = q.heap_size + x.n
    BY <1>1, <2>1, PoolReplaced
  <2>3. QED
    BY <1>3, <2>2
<1>6. Left(r) = n /\ r.start_free <= r.end_free
  BY <1>2, <1>4, <1>5 DEF Left
<1>7. IsFiniteSet(r.got)
  BY <1>1, <1>5, FS_AddElement
<1>8. \A e \in Slack : \A L, c : Sound(q.free_lists, L, c, c, q.got, e) => SoundPool(r, L, e)
  BY <1>4, <1>5, SoundGrow DEF SoundPool
<1>9. PoolOK(r) /\ Enough(r, size)
  BY <1>2, <1>5, <1>6, <1>7 DEF PoolOK, Enough
<1>10. ASSUME NEW L, NEW c, NEW h \in Nat, L \subseteq Pieces,
              Sound(q.free_lists, L, c, c, q.got, Align - 1),
              Counted(q.free_lists, L, c, c, q.heap_size + h)
       PROVE  CountedPool(r, L, h)
  <2> DEFINE S == Cells(q.free_lists, L, c, c)
  <2>1. c \in Nat /\ Multiple(c - c)
    <3>1. c \in Nat
      BY <1>10 DEF Sound, Clear
    <3>2. Multiple(0)
      BY DefaultAllocAssumption DEF Multiple
    <3>3. QED
      BY <3>1, <3>2
  <2>2. Cover(S) \cap Grid(x) = {}
    BY <1>1, <1>4, <1>10, <2>1, FreshUnits
  <2>3. IsFiniteSet(Cover(S)) /\ q.heap_size + h = Align * Cardinality(Cover(S))
    BY <1>10 DEF Counted
  <2>4. Cells(q.free_lists, L, x.at, End(x)) = S \cup {x}
    <3> DEFINE fl == q.free_lists
    <3>1. x \in Pieces /\ c \in Nat
      BY <1>4, <2>1
    <3> HIDE DEF fl
    <3>2. Cells(fl, L, x.at, End(x)) = Cells(fl, L, c, c) \cup {x}
      BY <3>1, CellsGrow
    <3>3. QED
      BY <3>2 DEF fl
  <2> HIDE DEF S
  <2>5. Multiple(x.n)
    BY <1>2, <1>4
  <2>6. IsFiniteSet(Cover(S \cup {x})) /\ (q.heap_size + h) + x.n = Align * Cardinality(Cover(S \cup {x}))
    BY <1>4, <2>2, <2>3, <2>5, CountMore
  <2>7. (q.heap_size + h) + x.n = (q.heap_size + x.n) + h
    BY <1>1, <1>2, <1>4
  <2>8. Counted(q.free_lists, L, x.at, End(x), (q.heap_size + x.n) + h)
    BY <2>4, <2>6, <2>7 DEF Counted
  <2>9. QED
    BY <1>5, <2>8 DEF CountedPool
<1>11. QED
  BY <1>5, <1>8, <1>9, <1>10 DEF r

(* So is a block of a longer list. *)
LEMMA SalvageStep ==
  ASSUME NEW q, PoolOK(q), NEW size \in Nat, Usable(q, size) # {}
  PROVE  /\ PoolOK(Salvage(q, size)) /\ Enough(Salvage(q, size), size)
         /\ \A j \in Lists : q.free_lists[j] = <<>> => Salvage(q, size).free_lists[j] = <<>>
         /\ \A e \in Slack : \A L, c :
              Sound(q.free_lists, L, c, c, q.got, e) => SoundPool(Salvage(q, size), L, e)
         /\ \A L, c, h : /\ Sound(q.free_lists, L, c, c, q.got, Align - 1)
                         /\ Counted(q.free_lists, L, c, c, q.heap_size + h)
                         => CountedPool(Salvage(q, size), L, h)
<1> DEFINE i == Min(Usable(q, size))
           a == Head(q.free_lists[i])
           b == a + Length(i)
           s == Tail(q.free_lists[i])
           r == Salvage(q, size)
<1>1. i \in Lists /\ size <= Length(i) /\ q.free_lists[i] # <<>>
  <2> DEFINE M == MaxBytes \div Align
  <2>1. M \in Nat
    BY MaxMultiple
  <2>2. Usable(q, size) \subseteq 0 .. M
    BY <2>1 DEF Lists, Usable
  <2>3. i \in Usable(q, size)
    BY <2>1, <2>2, IntervalMin
  <2>4. QED
    BY <2>3 DEF Usable
<1>2. r = WithListAndPool(q, i, s, a, b)
  BY DEF Salvage, WithListAndPool
<1> HIDE DEF r, i
<1>3. q \in Pools /\ q.free_lists \in FreeLists /\ q.free_lists[i] \in Seq(Nat) /\ IsFiniteSet(q.got)
  BY <1>1, PoolType
<1>4. a \in Nat /\ s \in Seq(Nat)
  BY <1>1, <1>3, TailElements
<1>5. Length(i) \in Nat \ {0} /\ Multiple(Length(i))
  BY <1>1, LengthOf
<1>6. [q.free_lists EXCEPT ![i] = Tail(@)] = [q.free_lists EXCEPT ![i] = s]
  BY <1>1, <1>3 DEF FreeLists
<1>7. \A e \in Slack : \A L, c :
        Sound(q.free_lists, L, c, c, q.got, e) => Sound([q.free_lists EXCEPT ![i] = Tail(@)], L, a, b, q.got, e)
  BY <1>1, <1>3, SoundSalvage
<1>8. b \in Nat /\ b - a = Length(i) /\ a <= b
  BY <1>4, <1>5
<1>a. ASSUME NEW L, NEW c, Sound(q.free_lists, L, c, c, q.got, Align - 1)
      PROVE  Cells([q.free_lists EXCEPT ![i] = Tail(@)], L, a, b) = Cells(q.free_lists, L, c, c)
  <2>1. c \in Nat /\ Distinct(q.free_lists[i])
    BY <1>1, <1>a DEF Sound, Clear
  <2>2. QED
    BY <1>1, <1>3, <2>1, CellsSalvage
<1> HIDE DEF a, b, s
<1>9. /\ r \in Pools /\ r.free_lists = [q.free_lists EXCEPT ![i] = s]
      /\ r.start_free = a /\ r.end_free = b /\ r.got = q.got /\ r.heap_size = q.heap_size
  <2> DEFINE w == WithListAndPool(q, i, s, a, b)
  <2>1. /\ w \in Pools /\ w.free_lists = [q.free_lists EXCEPT ![i] = s]
        /\ w.start_free = a /\ w.end_free = b /\ w.got = q.got /\ w.heap_size = q.heap_size
    <3>1. q \in Pools /\ i \in Lists /\ s \in Seq(Nat) /\ a \in Nat /\ b \in Nat
      BY <1>1, <1>3, <1>4, <1>8
    <3>2. QED
      BY <3>1, ListAndPoolSet
  <2> HIDE DEF w
  <2>2. QED
    BY <1>2, <2>1 DEF w
<1>10. \A j \in Lists : q.free_lists[j] = <<>> => r.free_lists[j] = <<>>
  BY <1>1, <1>3, <1>9 DEF FreeLists
<1>11. PoolOK(r) /\ Enough(r, size)
  BY <1>1, <1>3, <1>5, <1>8, <1>9 DEF PoolOK, Enough, Left
<1>12. \A e \in Slack : \A L, c : Sound(q.free_lists, L, c, c, q.got, e) => SoundPool(r, L, e)
  BY <1>6, <1>7, <1>9 DEF SoundPool
<1>13. ASSUME NEW L, NEW c, NEW h, Sound(q.free_lists, L, c, c, q.got, Align - 1),
              Counted(q.free_lists, L, c, c, q.heap_size + h)
       PROVE  CountedPool(r, L, h)
  <2>1. Cells(r.free_lists, L, a, b) = Cells(q.free_lists, L, c, c)
    BY <1>6, <1>9, <1>13, <1>a
  <2>2. QED
    BY <1>9, <1>13, <2>1 DEF CountedPool, Counted
<1>14. QED
  BY <1>10, <1>11, <1>12, <1>13 DEF r

(* The blocks that are cut off the pool: at least one, as many as fit.      *)
LEMMA CutCount ==
  ASSUME NEW left \in Nat, NEW size \in Nat \ {0}, size <= left
  PROVE  LET m == Min({Refill, left \div size})
         IN  m \in Nat \ {0} /\ m * size \in Nat /\ m * size <= left
<1> DEFINE d == left \div size
           m == Min({Refill, d})
<1>1. d \in Nat /\ d * size <= left /\ left < d * size + size
  BY DivMod
<1> HIDE DEF d
<1>2. d # 0
  BY <1>1
<1>3. Refill \in Nat \ {0}
  BY DefaultAllocAssumption
<1>4. m \in {Refill, d} /\ m <= d
  BY <1>1, <1>3, MinOfTwo
<1> HIDE DEF m
<1>5. m \in Nat \ {0}
  BY <1>1, <1>2, <1>3, <1>4
<1>6. m * size <= d * size
  BY <1>1, <1>4, <1>5, Monotone
<1>7. d * size \in Nat /\ m * size \in Nat
  BY <1>1, <1>5
<1>8. QED
  BY <1>1, <1>5, <1>6, <1>7 DEF d, m

LEMMA OthersType ==
  ASSUME NEW a \in Nat, NEW size \in Nat, NEW m \in Nat \ {0}
  PROVE  Others(a, size, m) \in Seq(Nat) /\ (m = 1 => Others(a, size, m) = <<>>)
<1>1. \A k \in 1 .. m - 1 : a + k * size \in Nat
  OBVIOUS
<1>2. m - 1 \in Nat
  OBVIOUS
<1>3. Others(a, size, m) \in Seq(Nat) /\ Len(Others(a, size, m)) = m - 1
  BY <1>1, <1>2 DEF Others
<1>4. QED
  BY <1>3

(* refill(): one block for the client, the others for the list. *)
LEMMA CutStep ==
  ASSUME NEW q, PoolOK(q), NEW n \in Nat \ {0}, n <= MaxBytes, Enough(q, ROUND_UP(n)),
         q.free_lists[FREELIST_INDEX(n)] = <<>>
  PROVE  /\ PoolOK(Cut(q, ROUND_UP(n)))
         /\ \A e \in Slack : \A L :
              SoundPool(q, L, e) => SoundPool(Cut(q, ROUND_UP(n)), L \cup {Piece(q.start_free, n)}, e)
         /\ \A L, h :
              CountedPool(q, L, h) => CountedPool(Cut(q, ROUND_UP(n)), L \cup {Piece(q.start_free, n)}, h)
<1> DEFINE size == ROUND_UP(n)
           i == FREELIST_INDEX(n)
           m == Min({Refill, Left(q) \div size})
           c == m * size
           s == Others(q.start_free, size, m)
           r == Cut(q, size)
<1>1. size \in Nat \ {0} /\ Multiple(size) /\ size = Length(i) /\ i \in Lists /\ size <= MaxBytes
  BY Rounding, SmallSize
<1>2. i = FREELIST_INDEX(n) /\ q.free_lists[i] = <<>> /\ size <= Left(q)
  BY DEF Enough
<1> HIDE DEF size, i
<1>3. FREELIST_INDEX(size) = i
  <2>1. Length(FREELIST_INDEX(size)) = size /\ FREELIST_INDEX(size) \in Lists
    BY <1>1, RoundMultiple, Rounding, SmallSize
  <2>2. QED
    BY <1>1, <2>1, LengthOf
<1>4. /\ Left(q) \in Nat /\ q.start_free \in Nat /\ q.end_free = q.start_free + Left(q) /\ q.end_free \in Nat
      /\ q.free_lists \in FreeLists /\ q \in Pools /\ Multiple(Left(q)) /\ IsFiniteSet(q.got)
  BY PoolType
<1>5. m \in Nat \ {0} /\ c \in Nat /\ c <= Left(q)
  BY <1>1, <1>2, <1>4, CutCount
<1>6. s \in Seq(Nat) /\ (m = 1 => s = <<>>)
  BY <1>1, <1>4, <1>5, OthersType
<1>7. r = WithListAfter(q, i, s, c)
  <2>1. r = [q EXCEPT !.start_free = @ + c,
                      !.free_lists[i] = IF m = 1 THEN @ ELSE [k \in 1 .. m - 1 |-> q.start_free + k * size]]
    BY <1>3 DEF Cut
  <2>2. s = IF m = 1 THEN q.free_lists[i] ELSE s
    BY <1>2, <1>6
  <2>3. [k \in 1 .. m - 1 |-> q.start_free + k * size] = s
    BY DEF Others
  <2> HIDE DEF r, s, c, m
  <2>4. r = [q EXCEPT !.start_free = @ + c, !.free_lists[i] = IF m = 1 THEN @ ELSE s]
    BY <2>1, <2>3
  <2>5. [q EXCEPT !.start_free = @ + c, !.free_lists[i] = IF m = 1 THEN @ ELSE s]
          = [q EXCEPT !.start_free = @ + c, !.free_lists[i] = s]
    BY <1>4, <2>2 DEF Pools
  <2>6. QED
    BY <2>4, <2>5 DEF WithListAfter
<1>8. Multiple(c)
  BY <1>1, <1>5, Sums
<1>9. s = [k \in 1 .. m - 1 |-> q.start_free + k * Length(i)] /\ c = m * Length(i)
  BY <1>1 DEF Others
<1> HIDE DEF m, c, s, r
<1>10. /\ r \in Pools /\ r.free_lists = [q.free_lists EXCEPT ![i] = s]
       /\ r.start_free = q.start_free + c /\ r.end_free = q.end_free /\ r.got = q.got
       /\ r.heap_size = q.heap_size
  <2>1. LET w == WithListAfter(q, i, s, c)
        IN  /\ w \in Pools /\ w.free_lists = [q.free_lists EXCEPT ![i] = s]
            /\ w.start_free = q.start_free + c /\ w.end_free = q.end_free /\ w.got = q.got
            /\ w.heap_size = q.heap_size
    <3>1. q \in Pools /\ i \in Lists /\ s \in Seq(Nat) /\ c \in Nat
      BY <1>1, <1>4, <1>5, <1>6
    <3>2. QED
      BY <3>1, PoolAdvanced
  <2>2. QED
    BY <1>7, <2>1
<1>11. Left(r) = Left(q) - c /\ r.start_free <= r.end_free
  BY <1>4, <1>5, <1>10 DEF Left
<1>12. Multiple(Left(r))
  BY <1>4, <1>5, <1>8, <1>11, Sums
<1>13. PoolOK(r)
  BY <1>4, <1>10, <1>11, <1>12 DEF PoolOK
<1>14. ASSUME NEW e \in Slack, NEW L, SoundPool(q, L, e)
       PROVE  SoundPool(r, L \cup {Piece(q.start_free, n)}, e)
  <2>1. q.start_free < q.end_free /\ q.start_free + c <= q.end_free
    BY <1>1, <1>2, <1>4, <1>5
  <2>2. Sound(q.free_lists, L, q.start_free, q.end_free, q.got, e)
    BY <1>14 DEF SoundPool
  <2>3. Sound([q.free_lists EXCEPT ![i] = s], L \cup {Piece(q.start_free, n)},
              q.start_free + c, q.end_free, q.got, e)
    BY <1>1, <1>2, <1>4, <1>5, <1>9, <2>1, <2>2, SoundCut
  <2>4. QED
    BY <1>10, <2>3 DEF SoundPool
<1>15. ASSUME NEW L, NEW h, CountedPool(q, L, h)
       PROVE  CountedPool(r, L \cup {Piece(q.start_free, n)}, h)
  <2> DEFINE fl == q.free_lists
             a == q.start_free
             b == q.end_free
  <2>1. a + m * Length(i) <= b /\ a \in Nat /\ b \in Nat /\ fl \in FreeLists /\ fl[i] = <<>>
    BY <1>2, <1>4, <1>5, <1>9
  <2>2. s = Others(a, Length(i), m) /\ c = m * Length(i)
    BY <1>9 DEF Others
  <2> HIDE DEF fl, a, b
  <2>3. Cover(Cells([fl EXCEPT ![i] = Others(a, Length(i), m)],
                    L \cup {Piece(a, n)}, a + m * Length(i), b)) = Cover(Cells(fl, L, a, b))
    BY <1>1, <1>2, <1>5, <2>1, CellsCut
  <2>4. Cover(Cells([fl EXCEPT ![i] = s], L \cup {Piece(a, n)}, a + c, b)) = Cover(Cells(fl, L, a, b))
    BY <2>2, <2>3
  <2>5. QED
    BY <1>10, <1>15, <2>4 DEF CountedPool, Counted, fl, a, b
<1>16. QED
  BY <1>13, <1>14, <1>15 DEF r, size

-----------------------------------------------------------------------------
(* The inductive invariant. *)

Slacks == {Align - 1} \cup (IF tight THEN {} ELSE {0})

AllocOK ==
  /\ PoolOK(p) /\ live \subseteq Pieces /\ adopted \in Nat
  /\ {handler, alive, tight} \subseteq BOOLEAN
  /\ \A e \in Slacks : SoundPool(p, live, e)
  /\ CountedPool(p, live, adopted)

LEMMA SlacksType ==
  /\ Slacks \subseteq Slack /\ Align - 1 \in Slacks
  /\ tight = FALSE => 0 \in Slacks
<1>1. Align - 1 \in Slack /\ 0 \in Slack
  BY DefaultAllocAssumption DEF Slack
<1>2. QED
  BY <1>1 DEF Slacks

LEMMA EmptyPool ==
  ASSUME NEW e \in Slack, NEW fl, fl = [i \in Lists |-> <<>>]
  PROVE  Sound(fl, {}, 0, 0, {}, e) /\ Counted(fl, {}, 0, 0, 0 + 0)
<1>1. \A i \in Lists : Distinct(fl[i]) /\ Elements(fl[i]) = {}
  BY EmptyElements
<1>2. Blocks(fl, e) = {} /\ Homes({}, e) = {}
  BY <1>1 DEF Blocks, Homes
<1>3. Clear({}, 0, 0, {}, e)
  BY SlackType DEF Clear
<1>4. Sound(fl, {}, 0, 0, {}, e)
  BY <1>1, <1>2, <1>3 DEF Sound
<1>5. Cells(fl, {}, 0, 0) = {}
  <2>1. Blocks(fl, 0) = {}
    BY <1>1 DEF Blocks
  <2>2. Homes(Small({}), 0) = {} /\ Rest(0, 0) = {}
    BY DEF Homes, Small, Rest
  <2>3. QED
    BY <2>1, <2>2 DEF Cells
<1>6. Cover(Cells(fl, {}, 0, 0)) = {}
  BY <1>5 DEF Cover
<1>7. IsFiniteSet({}) /\ 0 + 0 = Align * Cardinality({})
  BY FS_EmptySet, DefaultAllocAssumption
<1>8. Counted(fl, {}, 0, 0, 0 + 0)
  BY <1>6, <1>7 DEF Counted
<1>9. QED
  BY <1>4, <1>8

LEMMA AllocStarts == Init => AllocOK
<1> SUFFICES ASSUME Init PROVE AllocOK
  OBVIOUS
<1> DEFINE fl == [i \in Lists |-> <<>>]
<1>1. p = [free_lists |-> fl, start_free |-> 0, end_free |-> 0, heap_size |-> 0, got |-> {}]
      /\ live = {} /\ adopted = 0 /\ {handler, alive, tight} \subseteq BOOLEAN
  BY DEF Init
<1>2. fl \in FreeLists
  BY DEF FreeLists
<1>3. (\A e \in Slacks : Sound(fl, {}, 0, 0, {}, e)) /\ Counted(fl, {}, 0, 0, 0 + 0)
  BY EmptyPool, SlacksType
<1> HIDE DEF fl
<1>4. p \in Pools
  BY <1>1, <1>2 DEF Pools
<1>5. Left(p) = 0 /\ IsFiniteSet(p.got) /\ p.start_free <= p.end_free
  BY <1>1, FS_EmptySet DEF Left
<1>6. Multiple(0)
  BY DefaultAllocAssumption DEF Multiple
<1>7. \A e \in Slacks : SoundPool(p, live, e)
  BY <1>1, <1>3 DEF SoundPool
<1>8. CountedPool(p, live, adopted)
  BY <1>1, <1>3 DEF CountedPool
<1>9. QED
  BY <1>1, <1>4, <1>5, <1>6, <1>7, <1>8 DEF AllocOK, PoolOK

(* refill() from any pool that is sound and long enough. *)
LEMMA RefilledStep ==
  ASSUME AllocOK, NEW q, PoolOK(q), \A e \in Slacks : SoundPool(q, live, e), CountedPool(q, live, adopted),
         NEW n \in Nat \ {0}, n <= MaxBytes, Enough(q, ROUND_UP(n)),
         q.free_lists[FREELIST_INDEX(n)] = <<>>, Refilled(q, n)
  PROVE  AllocOK'
<1> DEFINE x == Piece(q.start_free, n)
<1>1. p' = Cut(q, ROUND_UP(n)) /\ live' = live \cup {x} /\ UNCHANGED <<handler, alive, adopted, tight>>
  BY DEF Refilled
<1>2. /\ PoolOK(p') /\ CountedPool(p', live', adopted)
      /\ \A e \in Slack : SoundPool(q, live, e) => SoundPool(p', live', e)
  BY <1>1, CutStep
<1>a. \A e \in Slacks' : SoundPool(p', live', e)
  BY <1>1, <1>2, SlacksType DEF Slacks
<1>3. x \in Pieces
  BY PoolType, IsPiece
<1> HIDE DEF x
<1>4. live' \subseteq Pieces
  BY <1>1, <1>3 DEF AllocOK
<1>5. QED
  BY <1>1, <1>2, <1>4, <1>a DEF AllocOK

(* allocate() of a size whose list has a block. *)
LEMMA FromListStep ==
  ASSUME AllocOK, NEW n \in Nat \ {0}, FromList(n)
  PROVE  AllocOK'
<1> DEFINE i == FREELIST_INDEX(n)
           s == Tail(p.free_lists[i])
           x == Piece(Head(p.free_lists[i]), n)
<1>1. /\ n <= MaxBytes /\ p.free_lists[i] # <<>>
      /\ p' = [p EXCEPT !.free_lists[i] = s]
      /\ live' = live \cup {x} /\ UNCHANGED <<handler, alive, adopted, tight>>
  BY DEF FromList
<1>2. i \in Lists /\ i = FREELIST_INDEX(n)
  BY <1>1, SmallSize
<1> HIDE DEF i
<1>3. p \in Pools /\ PoolOK(p) /\ p.free_lists \in FreeLists /\ p.free_lists[i] \in Seq(Nat)
  BY <1>2, PoolType DEF AllocOK
<1>4. Head(p.free_lists[i]) \in Nat /\ s \in Seq(Nat)
  BY <1>1, <1>3, TailElements
<1>5. x \in Pieces
  BY <1>4, IsPiece
<1>6. [p.free_lists EXCEPT ![i] = Tail(@)] = [p.free_lists EXCEPT ![i] = s]
  BY <1>2, <1>3 DEF FreeLists
<1>7. \A e \in Slack : SoundPool(p, live, e)
        => Sound([p.free_lists EXCEPT ![i] = Tail(@)], live \cup {x}, p.start_free, p.end_free, p.got, e)
  BY <1>1, <1>2, <1>3, SoundTake DEF SoundPool
<1>b. Cells([p.free_lists EXCEPT ![i] = Tail(@)], live \cup {x}, p.start_free, p.end_free)
        = Cells(p.free_lists, live, p.start_free, p.end_free)
  <2>1. SoundPool(p, live, Align - 1)
    BY SlacksType DEF AllocOK
  <2>2. Distinct(p.free_lists[i])
    BY <1>2, <2>1 DEF SoundPool, Sound
  <2> DEFINE fl == p.free_lists
             a == p.start_free
             b == p.end_free
  <2>3. fl \in FreeLists /\ fl[i] # <<>> /\ Distinct(fl[i])
    BY <1>1, <1>3, <2>2
  <2>4. x = Piece(Head(fl[i]), n)
    OBVIOUS
  <2> HIDE DEF fl, a, b, x
  <2>5. Cells([fl EXCEPT ![i] = Tail(@)], live \cup {Piece(Head(fl[i]), n)}, a, b) = Cells(fl, live, a, b)
    BY <1>1, <1>2, <2>3, CellsTake
  <2>6. QED
    BY <2>4, <2>5 DEF fl, a, b
<1> HIDE DEF s, x
<1>8. /\ p' \in Pools /\ p'.free_lists = [p.free_lists EXCEPT ![i] = s]
      /\ p'.start_free = p.start_free /\ p'.end_free = p.end_free /\ p'.got = p.got
      /\ p'.heap_size = p.heap_size
  BY <1>1, <1>2, <1>3, <1>4, ListSet
<1>9. PoolOK(p')
  BY <1>3, <1>8 DEF PoolOK, Left
<1>10. \A e \in Slacks' : SoundPool(p', live', e)
  <2>1. \A e \in Slack : SoundPool(p, live, e) => SoundPool(p', live', e)
    BY <1>1, <1>6, <1>7, <1>8 DEF SoundPool
  <2>2. Slacks' = Slacks
    BY <1>1 DEF Slacks
  <2>3. QED
    BY <2>1, <2>2, SlacksType DEF AllocOK
<1>11. live' \subseteq Pieces
  BY <1>1, <1>5 DEF AllocOK
<1>12. CountedPool(p', live', adopted')
  <2>1. CountedPool(p, live, adopted)
    BY DEF AllocOK
  <2>2. Cells(p'.free_lists, live', p'.start_free, p'.end_free)
          = Cells(p.free_lists, live, p.start_free, p.end_free)
    BY <1>1, <1>6, <1>8, <1>b
  <2>3. QED
    BY <1>1, <1>8, <2>1, <2>2 DEF CountedPool, Counted
<1>13. QED
  BY <1>1, <1>9, <1>10, <1>11, <1>12 DEF AllocOK

(* What allocate() has before it calls malloc(): the rest of the pool is in *)
(* a list, and the list for n is still empty.                               *)
LEMMA Shelved ==
  ASSUME AllocOK, NEW n \in Nat \ {0}, n <= MaxBytes, ~Enough(p, ROUND_UP(n)),
         p.free_lists[FREELIST_INDEX(n)] = <<>>
  PROVE  LET q == Shelve(p)
         IN  /\ PoolOK(q) /\ q.free_lists[FREELIST_INDEX(n)] = <<>>
             /\ \A j \in Lists : p.free_lists[j] # <<>> => q.free_lists[j] # <<>>
             /\ \A e \in Slacks : \E c : Sound(q.free_lists, live, c, c, q.got, e)
             /\ \E c : /\ Sound(q.free_lists, live, c, c, q.got, Align - 1)
                       /\ Counted(q.free_lists, live, c, c, q.heap_size + adopted)
<1> DEFINE size == ROUND_UP(n)
           i == FREELIST_INDEX(n)
<1>1. size \in Nat /\ size <= MaxBytes /\ i \in Lists /\ Length(i) = size
  BY Rounding, SmallSize
<1>2. PoolOK(p) /\ Left(p) \in Nat
  BY PoolType DEF AllocOK
<1>3. Left(p) < size
  BY <1>1, <1>2 DEF Enough
<1> HIDE DEF size, i
<1>4. Left(p) <= MaxBytes /\ Length(i) # Left(p)
  BY <1>1, <1>2, <1>3, DefaultAllocAssumption
<1>5. /\ PoolOK(Shelve(p)) /\ Shelve(p).got = p.got /\ Shelve(p).free_lists[i] = p.free_lists[i]
      /\ Shelve(p).heap_size = p.heap_size
      /\ \A j \in Lists : p.free_lists[j] # <<>> => Shelve(p).free_lists[j] # <<>>
      /\ \A e \in Slack : SoundPool(p, live, e)
                            => Sound(Shelve(p).free_lists, live, p.end_free, p.end_free, p.got, e)
      /\ \A m : Counted(p.free_lists, live, p.start_free, p.end_free, m)
                  => Counted(Shelve(p).free_lists, live, p.end_free, p.end_free, m)
  BY <1>1, <1>2, <1>4, ShelveStep
<1>6. p.free_lists[i] = <<>>
  BY DEF i
<1>7. Counted(Shelve(p).free_lists, live, p.end_free, p.end_free, Shelve(p).heap_size + adopted)
  BY <1>5 DEF AllocOK, CountedPool
<1>8. Sound(Shelve(p).free_lists, live, p.end_free, p.end_free, Shelve(p).got, Align - 1)
  BY <1>5, SlacksType DEF AllocOK
<1>9. QED
  BY <1>5, <1>6, <1>7, <1>8, SlacksType DEF AllocOK, i

(* allocate() of a size whose list is empty, in its four ways. *)
LEMMA FromPoolStep ==
  ASSUME AllocOK, NEW n \in Nat \ {0}, FromPool(n)
  PROVE  AllocOK'
<1> DEFINE size == ROUND_UP(n)
           i == FREELIST_INDEX(n)
           q == Shelve(p)
<1>1. n <= MaxBytes /\ p.free_lists[i] = <<>>
  BY DEF FromPool
<1>2. /\ PoolOK(p) /\ (\A e \in Slacks : SoundPool(p, live, e)) /\ CountedPool(p, live, adopted)
      /\ live \subseteq Pieces /\ adopted \in Nat
  BY DEF AllocOK
<1>3. size \in Nat \ {0} /\ Multiple(size) /\ i \in Lists
  BY <1>1, Rounding, SmallSize
<1>4. CASE Enough(p, size) /\ Refilled(p, n)
  BY <1>1, <1>2, <1>4, RefilledStep
<1>5. ASSUME ~Enough(p, size)
      PROVE  /\ PoolOK(q) /\ q.free_lists[i] = <<>>
             /\ \A e \in Slacks : \E c : Sound(q.free_lists, live, c, c, q.got, e)
             /\ \E c : /\ Sound(q.free_lists, live, c, c, q.got, Align - 1)
                       /\ Counted(q.free_lists, live, c, c, q.heap_size + adopted)
  BY <1>1, <1>5, Shelved
<1> HIDE DEF q
<1>6. CASE ~Enough(p, size) /\ Refilled(Grow(q, size), n)
  <2> DEFINE r == Grow(q, size)
  <2>1. PoolOK(r) /\ Enough(r, size) /\ r.free_lists[i] = <<>> /\ (\A e \in Slacks : SoundPool(r, live, e))
    BY <1>3, <1>5, <1>6, GrowStep, SlacksType
  <2>a. CountedPool(r, live, adopted)
    BY <1>2, <1>3, <1>5, <1>6, GrowStep
  <2> HIDE DEF r
  <2>2. Refilled(r, n)
    BY <1>6 DEF r
  <2>3. QED
    BY <1>1, <2>1, <2>2, <2>a, RefilledStep
<1>7. CASE ~Enough(p, size) /\ Usable(q, size) # {} /\ Refilled(Salvage(q, size), n)
  <2> DEFINE r == Salvage(q, size)
  <2>1. PoolOK(r) /\ Enough(r, size) /\ r.free_lists[i] = <<>> /\ (\A e \in Slacks : SoundPool(r, live, e))
    BY <1>3, <1>5, <1>7, SalvageStep, SlacksType
  <2>a. CountedPool(r, live, adopted)
    BY <1>2, <1>3, <1>5, <1>7, SalvageStep
  <2> HIDE DEF r
  <2>2. Refilled(r, n)
    BY <1>7 DEF r
  <2>3. QED
    BY <1>1, <2>1, <2>2, <2>a, RefilledStep
<1>8. CASE alive' = FALSE /\ UNCHANGED <<p, live, handler, adopted, tight>>
  BY <1>8 DEF AllocOK, Slacks
<1>9. QED
  BY <1>4, <1>6, <1>7, <1>8 DEF FromPool, q

(* allocate() of a large size. *)
LEMMA LargeStep ==
  ASSUME AllocOK, NEW n \in Nat \ {0}, Large(n)
  PROVE  AllocOK'
<1> DEFINE x == Fresh(p, n)
           G == p.got \cup {x}
<1>1. /\ n > MaxBytes /\ p' = WithAreas(p, G)
      /\ live' = live \cup {x} /\ UNCHANGED <<handler, alive, adopted, tight>>
  BY DEF Large, WithAreas
<1>2. PoolOK(p) /\ p \in Pools /\ p.got \subseteq Pieces /\ IsFiniteSet(p.got)
  BY PoolType DEF AllocOK
<1>3. x \in Pieces /\ x.n = n /\ Behind(x, p.got)
  BY <1>2, FreshArea
<1> HIDE DEF x
<1>4. \A e \in Slack : SoundPool(p, live, e) => Sound(p.free_lists, live', p.start_free, p.end_free, G, e)
  BY <1>1, <1>3, SoundLarge DEF SoundPool
<1>5. G \in SUBSET Pieces /\ IsFiniteSet(G) /\ live' \subseteq Pieces
  BY <1>1, <1>2, <1>3, FS_AddElement DEF AllocOK
<1> HIDE DEF G
<1>6. /\ p' \in Pools /\ p'.free_lists = p.free_lists
      /\ p'.start_free = p.start_free /\ p'.end_free = p.end_free /\ p'.got = G
      /\ p'.heap_size = p.heap_size
  BY <1>1, <1>2, <1>5, GotSet
<1>7. PoolOK(p')
  BY <1>2, <1>5, <1>6 DEF PoolOK, Left
<1>8. \A e \in Slacks' : SoundPool(p', live', e)
  <2>1. \A e \in Slack : SoundPool(p, live, e) => SoundPool(p', live', e)
    BY <1>4, <1>6 DEF SoundPool
  <2>2. Slacks' = Slacks
    BY <1>1 DEF Slacks
  <2>3. QED
    BY <2>1, <2>2, SlacksType DEF AllocOK
<1>9. CountedPool(p', live', adopted')
  <2>1. Cells(p.free_lists, live \cup {x}, p.start_free, p.end_free)
          = Cells(p.free_lists, live, p.start_free, p.end_free)
    BY <1>1, <1>3, CellsLarge
  <2>2. QED
    BY <1>1, <1>6, <2>1 DEF AllocOK, CountedPool, Counted
<1>10. QED
  BY <1>1, <1>5, <1>7, <1>8, <1>9 DEF AllocOK

(* deallocate(): free() for a large block, its list for a small one. *)
LEMMA DeallocateStep ==
  ASSUME AllocOK, NEW x \in live, deallocate(x)
  PROVE  AllocOK'
<1>1. /\ p' = IF x.n > MaxBytes THEN [p EXCEPT !.got = @ \ {x}] ELSE Link(p, x)
      /\ live' = live \ {x} /\ UNCHANGED <<handler, alive, adopted, tight>>
  BY DEF deallocate
<1>2. /\ PoolOK(p) /\ p \in Pools /\ p.got \subseteq Pieces /\ IsFiniteSet(p.got)
      /\ p.free_lists \in FreeLists /\ live \subseteq Pieces /\ x \in Pieces
  BY PoolType DEF AllocOK
<1>3. x.n \in Nat /\ MaxBytes \in Nat
  BY <1>2, SamePiece, DefaultAllocAssumption
<1>4. CASE x.n > MaxBytes
  <2> DEFINE G == p.got \ {x}
  <2>1. p' = WithAreas(p, G)
    BY <1>1, <1>4 DEF WithAreas
  <2>2. \A e \in Slack : SoundPool(p, live, e) => Sound(p.free_lists, live', p.start_free, p.end_free, G, e)
    BY <1>1, <1>2, <1>4, SoundFree DEF SoundPool
  <2>3. G \in SUBSET Pieces /\ IsFiniteSet(G)
    BY <1>2, FS_Subset
  <2> HIDE DEF G
  <2>4. /\ p' \in Pools /\ p'.free_lists = p.free_lists
        /\ p'.start_free = p.start_free /\ p'.end_free = p.end_free /\ p'.got = G
        /\ p'.heap_size = p.heap_size
    BY <1>2, <2>1, <2>3, GotSet
  <2>5. PoolOK(p')
    BY <1>2, <2>3, <2>4 DEF PoolOK, Left
  <2>6. \A e \in Slacks' : SoundPool(p', live', e)
    <3>1. \A e \in Slack : SoundPool(p, live, e) => SoundPool(p', live', e)
      BY <2>2, <2>4 DEF SoundPool
    <3>2. Slacks' = Slacks
      BY <1>1 DEF Slacks
    <3>3. QED
      BY <3>1, <3>2, SlacksType DEF AllocOK
  <2>7. CountedPool(p', live', adopted')
    <3>1. Cells(p.free_lists, live \ {x}, p.start_free, p.end_free)
            = Cells(p.free_lists, live, p.start_free, p.end_free)
      BY <1>2, <1>4, CellsLarge
    <3>2. QED
      BY <1>1, <2>4, <3>1 DEF AllocOK, CountedPool, Counted
  <2>8. QED
    BY <1>1, <1>2, <2>5, <2>6, <2>7 DEF AllocOK
<1>5. CASE x.n <= MaxBytes
  <2> DEFINE i == FREELIST_INDEX(x.n)
  <2>1. p' = Link(p, x)
    BY <1>1, <1>3, <1>5
  <2>2. i \in Lists /\ i = FREELIST_INDEX(x.n)
    BY <1>2, <1>3, <1>5, SamePiece, SmallSize
  <2>3. \A e \in Slack : SoundPool(p, live, e)
        => Sound([p.free_lists EXCEPT ![i] = <<x.at>> \o @], live', p.start_free, p.end_free, p.got, e)
    BY <1>1, <1>2, <1>5, SoundReturn DEF SoundPool
  <2> HIDE DEF i
  <2>4. /\ PoolOK(p') /\ p'.free_lists = [p.free_lists EXCEPT ![i] = <<x.at>> \o @]
        /\ p'.start_free = p.start_free /\ p'.end_free = p.end_free /\ p'.got = p.got
        /\ p'.heap_size = p.heap_size
    BY <1>2, <2>1, <2>2, LinkFields
  <2>5. \A e \in Slacks' : SoundPool(p', live', e)
    <3>1. \A e \in Slack : SoundPool(p, live, e) => SoundPool(p', live', e)
      BY <2>3, <2>4 DEF SoundPool
    <3>2. Slacks' = Slacks
      BY <1>1 DEF Slacks
    <3>3. QED
      BY <3>1, <3>2, SlacksType DEF AllocOK
  <2>6. CountedPool(p', live', adopted')
    <3>1. Cells([p.free_lists EXCEPT ![i] = <<x.at>> \o @], live \ {x}, p.start_free, p.end_free)
            = Cells(p.free_lists, live, p.start_free, p.end_free)
      BY <1>2, <1>5, CellsReturn DEF i
    <3>2. QED
      BY <1>1, <2>4, <3>1 DEF AllocOK, CountedPool, Counted
  <2>7. QED
    BY <1>1, <1>2, <2>4, <2>5, <2>6 DEF AllocOK
<1>6. QED
  BY <1>3, <1>4, <1>5

(* reallocate(): moved to grow is free() and malloc() in one; cut down, the block
   is as long as its list says unless it is no multiple of Align. *)
LEMMA ReallocateStep ==
  ASSUME AllocOK, NEW x \in live, NEW n \in Nat \ {0}, reallocate(x, n)
  PROVE  AllocOK'
<1> DEFINE y == IF n < x.n THEN Piece(x.at, n) ELSE Fresh(p, n)
           G == (p.got \ {x}) \cup {y}
           L == (live \ {x}) \cup {y}
<1>1. /\ x.n > MaxBytes /\ n # x.n /\ p' = WithAreas(p, G) /\ live' = L
      /\ adopted' = IF n > MaxBytes THEN adopted ELSE adopted + ROUND_UP(n)
      /\ tight' = (tight \/ (n <= MaxBytes /\ n % Align # 0))
      /\ UNCHANGED <<handler, alive>>
  BY DEF reallocate, WithAreas
<1>2. /\ PoolOK(p) /\ p \in Pools /\ p.got \subseteq Pieces /\ IsFiniteSet(p.got)
      /\ p.free_lists \in FreeLists /\ live \subseteq Pieces /\ x \in Pieces
  BY PoolType DEF AllocOK
<1>3. x.at \in Nat /\ x.n \in Nat /\ MaxBytes \in Nat
  BY <1>2, SamePiece, DefaultAllocAssumption
<1>a. Slacks' \subseteq Slacks /\ Slacks' \subseteq Slack
  <2>1. tight => tight'
    BY <1>1
  <2>2. QED
    BY <2>1, SlacksType DEF Slacks
<1>4. ASSUME n < x.n
      PROVE  /\ y \in Pieces
             /\ \A e \in Slacks' : Sound(p.free_lists, L, p.start_free, p.end_free, G, e)
  <2>1. y = Piece(x.at, n)
    BY <1>4
  <2> HIDE DEF y
  <2>2. y \in Pieces /\ y.at = x.at /\ y.n = n
    BY <1>3, <2>1, IsPiece
  <2>3. ASSUME NEW e \in Slacks' PROVE Home(y, e).n <= y.n
    <3>1. CASE n > MaxBytes
      <4>1. Home(y, e) = y
        BY <1>a, <2>2, <3>1, HomeType
      <4>2. QED
        BY <2>2, <4>1
    <3>2. CASE n <= MaxBytes
      <4>1. Home(y, e).n = ROUND_UP(n) - e
        BY <2>2, <3>2 DEF Home, Extent, Piece
      <4>2. ROUND_UP(n) \in Nat /\ ROUND_UP(n) < n + Align
        BY Rounding
      <4>3. CASE e = Align - 1
        BY <2>2, <4>1, <4>2, <4>3, DefaultAllocAssumption
      <4>4. CASE e = 0 /\ tight' = FALSE
        <5>1. ~(n <= MaxBytes /\ n % Align # 0)
          BY <1>1, <4>4, Zenon
        <5>2. n % Align = 0
          BY <3>2, <5>1
        <5>3. n = (n \div Align) * Align /\ n \div Align \in Nat
          BY <5>2, ModZero, DivMod, DefaultAllocAssumption
        <5>4. ROUND_UP(n) = n
          BY <5>3, RoundMultiple DEF Multiple
        <5>5. QED
          BY <2>2, <4>1, <4>4, <5>4
      <4>5. (IF tight' THEN {} ELSE {0}) = {} \/ tight' = FALSE
        BY <1>1, Zenon DEF AllocOK
      <4>6. QED
        BY <4>3, <4>4, <4>5 DEF Slacks
    <3>3. QED
      BY <1>3, <3>1, <3>2
  <2>4. \A e \in Slacks' : Sound(p.free_lists, L, p.start_free, p.end_free, G, e)
    <3>1. SUFFICES ASSUME NEW e \in Slacks' PROVE Sound(p.free_lists, L, p.start_free, p.end_free, G, e)
      OBVIOUS
    <3>2. Sound(p.free_lists, live, p.start_free, p.end_free, p.got, e) /\ e \in Slack
      BY <1>a, <3>1 DEF AllocOK, SoundPool
    <3>3. QED
      BY <1>1, <1>2, <1>4, <2>2, <2>3, <3>2, SoundCutDown
  <2>5. QED
    BY <2>2, <2>4
<1>5. ASSUME ~(n < x.n)
      PROVE  /\ y \in Pieces
             /\ \A e \in Slacks' : Sound(p.free_lists, L, p.start_free, p.end_free, G, e)
  <2>1. y = Fresh(p, n) /\ n > MaxBytes
    BY <1>1, <1>3, <1>5
  <2> HIDE DEF y
  <2>2. y \in Pieces /\ y.n = n /\ Behind(y, p.got)
    BY <1>2, <2>1, FreshArea
  <2>4. Behind(y, p.got \ {x})
    BY <2>2 DEF Behind
  <2>5. ASSUME NEW e \in Slacks' PROVE Sound(p.free_lists, L, p.start_free, p.end_free, G, e)
    <3>1. Sound(p.free_lists, live, p.start_free, p.end_free, p.got, e) /\ e \in Slack
      BY <1>a, <2>5 DEF AllocOK, SoundPool
    <3>2. Sound(p.free_lists, live \ {x}, p.start_free, p.end_free, p.got \ {x}, e)
      BY <1>1, <1>2, <3>1, SoundFree
    <3>3. QED
      BY <2>1, <2>2, <2>4, <3>1, <3>2, SoundLarge
  <2>7. QED
    BY <2>2, <2>5
<1>6. y \in Pieces /\ \A e \in Slacks' : Sound(p.free_lists, L, p.start_free, p.end_free, G, e)
  BY <1>4, <1>5
<1>b. ASSUME n > MaxBytes
      PROVE  Counted(p.free_lists, L, p.start_free, p.end_free, p.heap_size + adopted')
  <2>1. y.n = n
    BY <1>2, FreshArea DEF Piece
  <2> HIDE DEF y
  <2>2. Cells(p.free_lists, live \ {x}, p.start_free, p.end_free)
          = Cells(p.free_lists, live, p.start_free, p.end_free)
    BY <1>1, <1>2, CellsLarge
  <2>3. Cells(p.free_lists, (live \ {x}) \cup {y}, p.start_free, p.end_free)
          = Cells(p.free_lists, live \ {x}, p.start_free, p.end_free)
    BY <1>6, <1>b, <2>1, CellsLarge
  <2>4. adopted' = adopted
    BY <1>1, <1>b
  <2>5. Counted(p.free_lists, L, p.start_free, p.end_free, p.heap_size + adopted')
    BY <2>2, <2>3, <2>4 DEF AllocOK, CountedPool, Counted
  <2>6. QED
    BY <2>5
<1>c. ASSUME n <= MaxBytes
      PROVE  Counted(p.free_lists, L, p.start_free, p.end_free, p.heap_size + adopted')
  <2> DEFINE S == Cells(p.free_lists, live, p.start_free, p.end_free)
             z == Home(y, 0)
             m == ROUND_UP(n)
  <2>1. y = Piece(x.at, n) /\ ~(n > MaxBytes)
    BY <1>1, <1>3, <1>c
  <2> HIDE DEF y
  <2>2. y.at = x.at /\ y.n = n
    BY <1>3, <2>1, IsPiece
  <2>3. m \in Nat /\ Multiple(m) /\ adopted' = adopted + m
    BY <1>1, <2>1, Rounding
  <2>4. z \in Pieces /\ z.n = m
    <3>1. z \in Pieces
      BY <1>6, Zero, HomeType
    <3>2. Extent(y, 0) = m
      BY <1>c, <2>2, <2>3 DEF Extent
    <3>3. QED
      BY <3>1, <3>2 DEF Home, Piece
  <2> HIDE DEF m
  <2>5. Cells(p.free_lists, (live \ {x}) \cup {y}, p.start_free, p.end_free) = S \cup {z}
    BY <1>1, <1>2, <1>6, <1>c, <2>2, CellsCutDown
  <2>6. Cover(S) \cap Grid(z) = {}
    <3>1. Sound(p.free_lists, live, p.start_free, p.end_free, p.got, Align - 1)
      BY SlacksType DEF AllocOK, SoundPool
    <3>2. Multiple(p.end_free - p.start_free)
      BY <1>2 DEF PoolOK, Left
    <3>3. QED
      BY <1>1, <1>2, <1>6, <1>c, <2>2, <3>1, <3>2, CutDownUnits
  <2> HIDE DEF S, z
  <2>7. IsFiniteSet(Cover(S)) /\ p.heap_size + adopted = Align * Cardinality(Cover(S))
    BY DEF AllocOK, CountedPool, Counted, S
  <2>8. /\ IsFiniteSet(Cover(S \cup {z}))
        /\ (p.heap_size + adopted) + z.n = Align * Cardinality(Cover(S \cup {z}))
    BY <2>3, <2>4, <2>6, <2>7, CountMore
  <2>9. (p.heap_size + adopted) + z.n = p.heap_size + adopted'
    <3>1. p.heap_size \in Nat /\ adopted \in Nat
      BY <1>2 DEF AllocOK, Pools
    <3>2. QED
      BY <2>3, <2>4, <3>1
  <2>10. QED
    BY <2>5, <2>8, <2>9 DEF Counted
<1>d. Counted(p.free_lists, L, p.start_free, p.end_free, p.heap_size + adopted')
  BY <1>3, <1>b, <1>c
<1> HIDE DEF y
<1>7. G \in SUBSET Pieces /\ IsFiniteSet(G) /\ L \subseteq Pieces
  <2>1. IsFiniteSet(p.got \ {x})
    BY <1>2, FS_Subset
  <2>2. QED
    BY <1>2, <1>6, <2>1, FS_AddElement
<1>8. adopted' \in Nat /\ tight' \in BOOLEAN
  <2>1. ROUND_UP(n) \in Nat
    BY Rounding
  <2>2. QED
    BY <1>1, <2>1 DEF AllocOK
<1> HIDE DEF G, L
<1>9. /\ p' \in Pools /\ p'.free_lists = p.free_lists
      /\ p'.start_free = p.start_free /\ p'.end_free = p.end_free /\ p'.got = G
      /\ p'.heap_size = p.heap_size
  BY <1>1, <1>2, <1>7, GotSet
<1>10. PoolOK(p')
  BY <1>2, <1>7, <1>9 DEF PoolOK, Left
<1>11. \A e \in Slacks' : SoundPool(p', live', e)
  BY <1>1, <1>6, <1>9 DEF SoundPool
<1>12. CountedPool(p', live', adopted')
  BY <1>1, <1>9, <1>d DEF CountedPool
<1>13. QED
  BY <1>1, <1>7, <1>8, <1>10, <1>11, <1>12 DEF AllocOK

LEMMA AllocSteps == AllocOK /\ [Next]_vars => AllocOK'
<1> SUFFICES ASSUME AllocOK, [Next]_vars PROVE AllocOK'
  OBVIOUS
<1>1. Requests \subseteq Nat \ {0}
  BY DefaultAllocAssumption
<1>2. ASSUME NEW n \in Requests, allocate(n) PROVE AllocOK'
  BY <1>1, <1>2, FromListStep, FromPoolStep, LargeStep DEF allocate
<1>3. ASSUME NEW n \in Requests, NEW x \in live, reallocate(x, n) PROVE AllocOK'
  BY <1>1, <1>3, ReallocateStep
<1>4. ASSUME NEW x \in live, deallocate(x) PROVE AllocOK'
  BY <1>4, DeallocateStep
<1>5. ASSUME set_malloc_handler PROVE AllocOK'
  BY <1>5 DEF set_malloc_handler, AllocOK, Slacks
<1>6. CASE UNCHANGED vars
  BY <1>6 DEF vars, AllocOK, Slacks
<1>7. QED
  BY <1>2, <1>3, <1>4, <1>5, <1>6 DEF Next

-----------------------------------------------------------------------------
(* What is sound is apart: every part of the memory lies in a piece of its  *)
(* own.                                                                     *)

(* The part u lies at the front of the piece z. *)
Covers(z, u, e) == z \in Pieces /\ u[3] = z.at /\ u[4] \in Nat /\ u[3] + u[4] <= End(z) + e

LEMMA OffApart ==
  ASSUME NEW z, NEW u, Covers(z, u, 0), NEW w, NEW v, Covers(w, v, 0), Off(z, w) \/ Off(w, z)
  PROVE  Apart(u, v) /\ Apart(v, u)
<1>1. z.at \in Nat /\ w.at \in Nat /\ End(z) \in Nat /\ End(w) \in Nat
  BY SamePiece DEF Covers
<1>2. QED
  BY <1>1 DEF Covers, Apart, Off

LEMMA CoveredWithin ==
  ASSUME NEW z, NEW u, Covers(z, u, 0), NEW G, G \subseteq Pieces, Within(z, G)
  PROVE  \E g \in G : g.at <= u[3] /\ u[3] + u[4] <= End(g)
<1>1. PICK g \in G : g.at <= z.at /\ End(z) <= End(g)
  BY DEF Within
<1>2. z.at \in Nat /\ End(z) \in Nat /\ g.at \in Nat /\ End(g) \in Nat
  BY SamePiece DEF Covers
<1>3. QED
  BY <1>1, <1>2 DEF Covers

LivePart(u, z, e) == \E x \in live : u = <<"live", 1, x.at, x.n>> /\ z = Home(x, e)
ListPart(u, z, e) ==
  \E i \in Lists : \E k \in 1 .. Len(p.free_lists[i]) :
    u = <<"list", k, p.free_lists[i][k], Length(i)>> /\ z = Piece(p.free_lists[i][k], Length(i) - e)
PoolPart(u, z, e) ==
  Left(p) # 0 /\ u = <<"pool", 1, p.start_free, Left(p)>> /\ z = Pool(p.start_free, p.end_free, e)

Part(u, z, e) == LivePart(u, z, e) \/ ListPart(u, z, e) \/ PoolPart(u, z, e)

LEMMA UnusedSplit ==
  ASSUME NEW u \in Unused
  PROVE  \/ \E i \in Lists : u \in {<<"list", k, p.free_lists[i][k], Length(i)>> : k \in DOMAIN p.free_lists[i]}
         \/ u \in {<<"pool", 1, p.start_free, n>> : n \in {Left(p)} \ {0}}
<1> DEFINE S(i) == {<<"list", k, p.free_lists[i][k], Length(i)>> : k \in DOMAIN p.free_lists[i]}
           A == {S(i) : i \in Lists}
           P == {<<"pool", 1, p.start_free, n>> : n \in {Left(p)} \ {0}}
<1>1. Unused = (UNION A) \cup P
  BY DEF Unused
<1> HIDE DEF A, P
<1>2. u \in P \/ \E s \in A : u \in s
  BY <1>1
<1> HIDE DEF S
<1>3. \A s \in A : \E i \in Lists : s = S(i)
  BY DEF A
<1>4. QED
  BY <1>2, <1>3 DEF S, P

LEMMA Parts ==
  ASSUME PoolOK(p), NEW u \in Used \cup Unused, NEW e
  PROVE  \E z : Part(u, z, e)
<1>1. \A i \in Lists : DOMAIN p.free_lists[i] = 1 .. Len(p.free_lists[i])
  BY PoolType
<1>2. CASE u \in Used
  BY <1>2 DEF Used, LivePart, Part
<1>3. CASE \E i \in Lists : u \in {<<"list", k, p.free_lists[i][k], Length(i)>> : k \in DOMAIN p.free_lists[i]}
  BY <1>1, <1>3 DEF ListPart, Part
<1>4. CASE u \in {<<"pool", 1, p.start_free, n>> : n \in {Left(p)} \ {0}}
  BY <1>4 DEF PoolPart, Part
<1>5. QED
  BY <1>2, <1>3, <1>4, UnusedSplit

LEMMA PartsAreCovered ==
  ASSUME PoolOK(p), live \subseteq Pieces, NEW e \in Slack, NEW u, NEW z
  PROVE  /\ LivePart(u, z, e) => Covers(z, u, e) /\ z \in Homes(live, e)
         /\ ListPart(u, z, e) => Covers(z, u, e) /\ z \in Blocks(p.free_lists, e)
         /\ PoolPart(u, z, e) => Covers(z, u, e) /\ p.start_free + e < p.end_free
                                 /\ z = Pool(p.start_free, p.end_free, e)
<1>0. e \in Nat
  BY SlackType
<1>1. ASSUME LivePart(u, z, e) PROVE Covers(z, u, e) /\ z \in Homes(live, e)
  <2>1. PICK x \in live : u = <<"live", 1, x.at, x.n>> /\ z = Home(x, e)
    BY <1>1 DEF LivePart
  <2>2. z \in Pieces /\ z.at = x.at /\ x.n <= z.n + e /\ x.n \in Nat /\ x.at \in Nat /\ z.n \in Nat
    BY <2>1, HomeType, SamePiece
  <2>3. u[3] = x.at /\ u[4] = x.n
    BY <2>1
  <2>4. u[3] + u[4] <= End(z) + e
    BY <1>0, <2>2, <2>3 DEF End
  <2>5. QED
    BY <2>1, <2>2, <2>3, <2>4 DEF Covers, Homes
<1>2. ASSUME ListPart(u, z, e) PROVE Covers(z, u, e) /\ z \in Blocks(p.free_lists, e)
  <2>0. PICK i \in Lists : \E k \in 1 .. Len(p.free_lists[i]) :
          u = <<"list", k, p.free_lists[i][k], Length(i)>> /\ z = Piece(p.free_lists[i][k], Length(i) - e)
    BY <1>2 DEF ListPart
  <2>1. PICK k \in 1 .. Len(p.free_lists[i]) :
          u = <<"list", k, p.free_lists[i][k], Length(i)>> /\ z = Piece(p.free_lists[i][k], Length(i) - e)
    BY <2>0
  <2> DEFINE a == p.free_lists[i][k]
  <2>2. a \in Nat /\ a \in Elements(p.free_lists[i])
    BY PoolType DEF Elements
  <2>3. Length(i) \in Nat \ {0} /\ Length(i) - e \in Nat \ {0}
    BY LengthOf, SlackType
  <2> HIDE DEF a
  <2>4. z = Piece(a, Length(i) - e) /\ u[3] = a /\ u[4] = Length(i)
    BY <2>1 DEF a
  <2>5. z \in Pieces /\ z.at = a /\ End(z) = a + (Length(i) - e)
    BY <2>2, <2>3, <2>4, IsPiece
  <2>6. z \in Blocks(p.free_lists, e)
    BY <2>2, <2>4, BlocksIff
  <2>7. u[3] + u[4] <= End(z) + e
    BY <1>0, <2>2, <2>3, <2>4, <2>5
  <2>8. QED
    BY <2>2, <2>3, <2>4, <2>5, <2>6, <2>7 DEF Covers
<1>3. ASSUME PoolPart(u, z, e)
      PROVE  Covers(z, u, e) /\ p.start_free + e < p.end_free
             /\ z = Pool(p.start_free, p.end_free, e)
  <2>1. Left(p) \in Nat \ {0} /\ p.start_free \in Nat /\ p.end_free \in Nat
        /\ p.end_free = p.start_free + Left(p) /\ Multiple(Left(p))
    BY <1>3, PoolType DEF PoolPart
  <2>2. z = Pool(p.start_free, p.end_free, e) /\ u[3] = p.start_free /\ u[4] = Left(p)
    BY <1>3 DEF PoolPart
  <2>3. e < Left(p)
    BY <2>1, SlackType
  <2>4. p.start_free + e < p.end_free
    BY <1>0, <2>1, <2>3
  <2>5. z \in Pieces /\ z.at = p.start_free /\ End(z) + e = p.end_free
    BY <1>0, <2>1, <2>2, <2>4, IsPool
  <2>6. QED
    BY <2>1, <2>2, <2>4, <2>5 DEF Covers
<1>4. QED
  BY <1>1, <1>2, <1>3

(* Two parts have pieces that do not overlap. *)
LEMMA SoundIsOff ==
  ASSUME PoolOK(p), live \subseteq Pieces, NEW e \in Slack, SoundPool(p, live, e),
         NEW u, NEW v, u # v, NEW z, Part(u, z, e), NEW w, Part(v, w, e)
  PROVE  Off(z, w) \/ Off(w, z)
<1> DEFINE T == Homes(live, e) \cup Blocks(p.free_lists, e)
           pool == Pool(p.start_free, p.end_free, e)
<1>1. /\ \A x, y \in live : Home(x, e) = Home(y, e) => x = y
      /\ \A i \in Lists : Distinct(p.free_lists[i])
      /\ Homes(live, e) \cap Blocks(p.free_lists, e) = {}
      /\ \A x, y \in T : x # y => Off(x, y)
      /\ p.start_free + e < p.end_free => \A x \in T : Off(x, pool)
  BY DEF SoundPool, Sound, Clear
<1>2. \A t, x : /\ LivePart(t, x, e) => x \in Homes(live, e)
                /\ ListPart(t, x, e) => x \in Blocks(p.free_lists, e)
                /\ PoolPart(t, x, e) => p.start_free + e < p.end_free /\ x = pool
  BY PartsAreCovered
<1>3. \A t, x : LivePart(u, x, e) /\ LivePart(t, x, e) => u = t
  BY <1>1 DEF LivePart
<1>4. ASSUME ListPart(u, z, e), ListPart(v, z, e) PROVE u = v
  <2>a. PICK i \in Lists : \E k \in 1 .. Len(p.free_lists[i]) :
          u = <<"list", k, p.free_lists[i][k], Length(i)>> /\ z = Piece(p.free_lists[i][k], Length(i) - e)
    BY <1>4 DEF ListPart
  <2>2. PICK k \in 1 .. Len(p.free_lists[i]) :
          u = <<"list", k, p.free_lists[i][k], Length(i)>> /\ z = Piece(p.free_lists[i][k], Length(i) - e)
    BY <2>a
  <2>b. PICK j \in Lists : \E l \in 1 .. Len(p.free_lists[j]) :
          v = <<"list", l, p.free_lists[j][l], Length(j)>> /\ z = Piece(p.free_lists[j][l], Length(j) - e)
    BY <1>4 DEF ListPart
  <2>3. PICK l \in 1 .. Len(p.free_lists[j]) :
          v = <<"list", l, p.free_lists[j][l], Length(j)>> /\ z = Piece(p.free_lists[j][l], Length(j) - e)
    BY <2>b
  <2>4. p.free_lists[i][k] = p.free_lists[j][l] /\ i = j
    <3>1. Piece(p.free_lists[i][k], Length(i) - e) = Piece(p.free_lists[j][l], Length(j) - e)
      BY <2>2, <2>3
    <3>2. p.free_lists[i][k] = p.free_lists[j][l] /\ Length(i) - e = Length(j) - e
      BY <3>1, EqualPieces
    <3>3. QED
      BY <3>2, SlackType
  <2>5. k = l
    BY <1>1, <2>2, <2>3, <2>4 DEF Distinct
  <2>6. QED
    BY <2>2, <2>3, <2>4, <2>5
<1>5. ~(PoolPart(u, z, e) /\ PoolPart(v, w, e))
  BY DEF PoolPart
<1> HIDE DEF pool
<1>6. CASE PoolPart(u, z, e)
  <2>1. ~PoolPart(v, w, e) /\ w \in T /\ z = pool /\ p.start_free + e < p.end_free
    BY <1>2, <1>5, <1>6 DEF Part
  <2>2. QED
    BY <1>1, <2>1
<1>7. CASE PoolPart(v, w, e)
  <2>1. ~PoolPart(u, z, e) /\ z \in T /\ w = pool /\ p.start_free + e < p.end_free
    BY <1>2, <1>5, <1>7 DEF Part
  <2>2. QED
    BY <1>1, <2>1
<1>8. CASE ~PoolPart(u, z, e) /\ ~PoolPart(v, w, e)
  <2>1. z \in T /\ w \in T
    BY <1>2, <1>8 DEF Part
  <2>2. z # w
    <3>1. CASE LivePart(u, z, e) /\ LivePart(v, w, e)
      BY <1>3, <3>1
    <3>2. CASE ListPart(u, z, e) /\ ListPart(v, w, e)
      BY <1>4, <3>2
    <3>3. CASE LivePart(u, z, e) /\ ListPart(v, w, e)
      BY <1>1, <1>2, <3>3
    <3>4. CASE ListPart(u, z, e) /\ LivePart(v, w, e)
      BY <1>1, <1>2, <3>4
    <3>5. QED
      BY <1>8, <3>1, <3>2, <3>3, <3>4 DEF Part
  <2>3. QED
    BY <1>1, <2>1, <2>2
<1>9. QED
  BY <1>6, <1>7, <1>8

LEMMA SoundIsApart ==
  ASSUME PoolOK(p), live \subseteq Pieces, SoundPool(p, live, 0)
  PROVE  /\ \A x, y \in Used \cup Unused : x # y => Apart(x, y)
         /\ \A x \in Used \cup Unused : \E g \in p.got : g.at <= x[3] /\ x[3] + x[4] <= End(g)
<1>0. 0 \in Slack
  BY DefaultAllocAssumption DEF Slack
<1>1. \A u, z : Part(u, z, 0) => Covers(z, u, 0) /\ Within(z, p.got)
  <2>1. SUFFICES ASSUME NEW u, NEW z, Part(u, z, 0) PROVE Covers(z, u, 0) /\ Within(z, p.got)
    OBVIOUS
  <2> DEFINE T == Homes(live, 0) \cup Blocks(p.free_lists, 0)
             pool == Pool(p.start_free, p.end_free, 0)
  <2>2. /\ \A x \in T : Within(x, p.got)
        /\ p.start_free + 0 < p.end_free => Within(pool, p.got)
    BY DEF SoundPool, Sound, Clear
  <2>3. /\ LivePart(u, z, 0) => Covers(z, u, 0) /\ z \in Homes(live, 0)
        /\ ListPart(u, z, 0) => Covers(z, u, 0) /\ z \in Blocks(p.free_lists, 0)
        /\ PoolPart(u, z, 0) => Covers(z, u, 0) /\ p.start_free + 0 < p.end_free /\ z = pool
    BY <1>0, PartsAreCovered
  <2> HIDE DEF pool
  <2>4. QED
    BY <2>1, <2>2, <2>3 DEF Part
<1>2. ASSUME NEW u \in Used \cup Unused, NEW v \in Used \cup Unused, u # v
      PROVE  Apart(u, v)
  <2>1. PICK z : Part(u, z, 0)
    BY Parts
  <2>2. PICK w : Part(v, w, 0)
    BY Parts
  <2>3. Off(z, w) \/ Off(w, z)
    BY <1>0, <1>2, <2>1, <2>2, SoundIsOff
  <2>4. QED
    BY <1>1, <2>1, <2>2, <2>3, OffApart
<1>3. ASSUME NEW u \in Used \cup Unused
      PROVE  \E g \in p.got : g.at <= u[3] /\ u[3] + u[4] <= End(g)
  <2>1. PICK z : Part(u, z, 0)
    BY Parts
  <2>2. Covers(z, u, 0) /\ Within(z, p.got)
    BY <1>1, <2>1
  <2>3. QED
    BY <2>2, PoolType, CoveredWithin
<1>4. QED
  BY <1>2, <1>3

LEMMA AllocOKType == AllocOK => AllocInv
<1> SUFFICES ASSUME AllocOK PROVE AllocInv
  OBVIOUS
<1>1. PoolOK(p) /\ live \subseteq Pieces /\ adopted \in Nat /\ {handler, alive, tight} \subseteq BOOLEAN
  BY DEF AllocOK
<1>2. /\ p.free_lists \in [Lists -> Seq(Nat)] /\ p.start_free \in Nat /\ p.end_free \in Nat
      /\ p.heap_size \in Nat /\ p.start_free <= p.end_free /\ p.got \subseteq Pieces
  BY <1>1, PoolType DEF FreeLists, PoolOK
<1>3. Pieces \subseteq [at : Nat, n : Nat]
  BY DEF Pieces
<1>4. TypeOK
  BY <1>1, <1>2, <1>3 DEF TypeOK
<1>5. BlocksAreApart
  <2>1. ~tight => SoundPool(p, live, 0)
    BY <1>1, SlacksType DEF AllocOK
  <2>2. QED
    BY <1>1, <2>1, SoundIsApart DEF BlocksAreApart
<1>6. QED
  BY <1>4, <1>5 DEF AllocInv

(* No two blocks in use, blocks in lists or the pool overlap, and each lies *)
(* in an area got from malloc(): allocate(), deallocate() and reallocate()  *)
(* never hand out memory that somebody has, whatever is refilled, shelved   *)
(* or salvaged on the way.                                                  *)
THEOREM AllocatorIsSound == Spec => []AllocInv
<1>1. QED
  BY AllocStarts, AllocSteps, AllocOKType, PTL DEF Spec

-----------------------------------------------------------------------------
(* The units that the property counts are the units of the cells.           *)

(* The small blocks, the blocks in lists and the pool. *)
Parcels == {y \in Used : y[4] <= MaxBytes} \cup Unused

CellsNow == Cells(p.free_lists, live, p.start_free, p.end_free)

LEMMA LiveParcel ==
  ASSUME NEW u \in Parcels, NEW e, NEW z, LivePart(u, z, e)
  PROVE  \E x \in Small(live) : u = <<"live", 1, x.at, x.n>> /\ z = Home(x, e)
<1>1. PICK x \in live : u = <<"live", 1, x.at, x.n>> /\ z = Home(x, e)
  BY DEF LivePart
<1>2. u[1] = "live" /\ u[4] = x.n
  BY <1>1
<1>3. u \notin Unused
  <2>1. SUFFICES ASSUME u \in Unused PROVE FALSE
    OBVIOUS
  <2>2. u[1] = "list" \/ u[1] = "pool"
    BY <2>1, UnusedSplit
  <2>3. QED
    BY <1>2, <2>2
<1>4. x \in Small(live)
  BY <1>2, <1>3 DEF Parcels, Small
<1>5. QED
  BY <1>1, <1>4

(* A parcel is as long as a multiple of Align, its last unit cut short by e. *)
LEMMA ParcelType ==
  ASSUME PoolOK(p), live \subseteq Pieces, NEW e \in Slack, NEW u \in Parcels, NEW z, Part(u, z, e)
  PROVE  u[3] \in Nat /\ u[4] \in Nat \ {0} /\ z = Piece(u[3], ROUND_UP(u[4]) - e)
<1>1. CASE LivePart(u, z, e)
  <2>1. PICK x \in Small(live) : u = <<"live", 1, x.at, x.n>> /\ z = Home(x, e)
    BY <1>1, LiveParcel
  <2>2. x \in live /\ x.n <= MaxBytes /\ u[3] = x.at /\ u[4] = x.n
    BY <2>1 DEF Small
  <2>3. x.at \in Nat /\ x.n \in Nat \ {0}
    BY <2>2, SamePiece
  <2>4. z = Piece(x.at, ROUND_UP(x.n) - e)
    BY <2>1, <2>2 DEF Home, Extent
  <2>5. QED
    BY <2>2, <2>3, <2>4
<1>2. CASE ListPart(u, z, e)
  <2>1. PICK i \in Lists : \E k \in 1 .. Len(p.free_lists[i]) :
          u = <<"list", k, p.free_lists[i][k], Length(i)>> /\ z = Piece(p.free_lists[i][k], Length(i) - e)
    BY <1>2 DEF ListPart
  <2>2. PICK k \in 1 .. Len(p.free_lists[i]) :
          u = <<"list", k, p.free_lists[i][k], Length(i)>> /\ z = Piece(p.free_lists[i][k], Length(i) - e)
    BY <2>1
  <2>3. p.free_lists[i][k] \in Nat
    BY PoolType
  <2>4. Length(i) \in Nat \ {0} /\ ROUND_UP(Length(i)) = Length(i)
    BY LengthOf, RoundMultiple
  <2>5. u[3] = p.free_lists[i][k] /\ u[4] = Length(i)
    BY <2>2
  <2>6. QED
    BY <2>2, <2>3, <2>4, <2>5
<1>3. CASE PoolPart(u, z, e)
  <2>1. u[3] = p.start_free /\ u[4] = Left(p) /\ Left(p) # 0 /\ z = Pool(p.start_free, p.end_free, e)
    BY <1>3 DEF PoolPart
  <2>2. p.start_free \in Nat /\ Left(p) \in Nat \ {0} /\ ROUND_UP(Left(p)) = Left(p)
    BY <2>1, PoolType, RoundMultiple
  <2>3. Left(p) = p.end_free - p.start_free
    BY DEF Left
  <2>4. z = Piece(p.start_free, Left(p) - e)
    BY <2>1, <2>3 DEF Pool
  <2>5. QED
    BY <2>1, <2>2, <2>4
<1>4. QED
  BY <1>1, <1>2, <1>3 DEF Part

(* Every parcel is a cell, and every cell is a parcel. *)
LEMMA ParcelIsCell ==
  ASSUME PoolOK(p), live \subseteq Pieces, NEW u \in Parcels
  PROVE  /\ u[3] \in Nat /\ u[4] \in Nat \ {0} /\ Piece(u[3], ROUND_UP(u[4])) \in CellsNow
<1>0. 0 \in Slack
  BY Zero
<1>1. PICK z : Part(u, z, 0)
  BY Parts DEF Parcels
<1>2. u[3] \in Nat /\ u[4] \in Nat \ {0} /\ z = Piece(u[3], ROUND_UP(u[4]) - 0)
  BY <1>0, <1>1, ParcelType
<1>3. z = Piece(u[3], ROUND_UP(u[4]))
  <2>1. ROUND_UP(u[4]) \in Nat
    BY <1>2, Rounding
  <2>2. ROUND_UP(u[4]) - 0 = ROUND_UP(u[4])
    BY <2>1
  <2>3. QED
    BY <1>2, <2>2
<1>4. CASE LivePart(u, z, 0)
  <2>1. z \in Homes(Small(live), 0)
    BY <1>4, LiveParcel DEF Homes
  <2>2. QED
    BY <1>2, <1>3, <2>1 DEF Cells, CellsNow
<1>5. CASE ListPart(u, z, 0)
  <2>1. z \in Blocks(p.free_lists, 0)
    BY <1>0, <1>5, PartsAreCovered
  <2>2. QED
    BY <1>2, <1>3, <2>1 DEF Cells, CellsNow
<1>6. CASE PoolPart(u, z, 0)
  <2>1. p.start_free \in Nat /\ p.end_free \in Nat
    BY PoolType
  <2>2. p.start_free + 0 < p.end_free /\ z = Pool(p.start_free, p.end_free, 0)
    BY <1>0, <1>6, PartsAreCovered
  <2>3. p.start_free < p.end_free /\ p.end_free - p.start_free - 0 = p.end_free - p.start_free
    BY <2>1, <2>2
  <2>4. z \in Rest(p.start_free, p.end_free)
    BY <2>2, <2>3 DEF Rest, Pool
  <2>5. QED
    BY <1>2, <1>3, <2>4 DEF Cells, CellsNow
<1>7. QED
  BY <1>1, <1>4, <1>5, <1>6 DEF Part

LEMMA CellIsParcel ==
  ASSUME PoolOK(p), live \subseteq Pieces, NEW z \in CellsNow
  PROVE  \E u \in Parcels : z = Piece(u[3], ROUND_UP(u[4]))
<1>1. CASE z \in Homes(Small(live), 0)
  <2>1. PICK x \in Small(live) : z = Home(x, 0)
    BY <1>1 DEF Homes
  <2>2. x \in live /\ x.n <= MaxBytes
    BY DEF Small
  <2>3. ROUND_UP(x.n) \in Nat
    BY <2>2, SamePiece, Rounding
  <2>4. z = Piece(x.at, ROUND_UP(x.n))
    BY <2>1, <2>2, <2>3 DEF Home, Extent
  <2> DEFINE u == <<"live", 1, x.at, x.n>>
  <2>5. u \in Used /\ u[3] = x.at /\ u[4] = x.n
    BY <2>2 DEF Used
  <2> HIDE DEF u
  <2>6. u \in Parcels
    BY <2>2, <2>5 DEF Parcels
  <2>7. QED
    BY <2>4, <2>5, <2>6
<1>2. CASE z \in Blocks(p.free_lists, 0)
  <2>1. PICK i \in Lists : \E a \in Elements(p.free_lists[i]) : z = Piece(a, Length(i) - 0)
    BY <1>2, BlocksIff
  <2>2. PICK a \in Elements(p.free_lists[i]) : z = Piece(a, Length(i) - 0)
    BY <2>1
  <2>3. PICK k \in 1 .. Len(p.free_lists[i]) : a = p.free_lists[i][k]
    BY DEF Elements
  <2>4. Length(i) - 0 = Length(i) /\ ROUND_UP(Length(i)) = Length(i)
    BY Zero, LengthOf, RoundMultiple
  <2> DEFINE u == <<"list", k, p.free_lists[i][k], Length(i)>>
             S(j) == {<<"list", l, p.free_lists[j][l], Length(j)>> : l \in DOMAIN p.free_lists[j]}
  <2>5. k \in DOMAIN p.free_lists[i]
    BY PoolType
  <2>6. u \in S(i) /\ u[3] = a /\ u[4] = Length(i)
    BY <2>3, <2>5
  <2>7. u \in UNION {S(j) : j \in Lists}
    <3> HIDE DEF S, u
    <3>1. QED
      BY <2>6
  <2>8. u \in Unused
    BY <2>7 DEF Unused
  <2> HIDE DEF u
  <2>9. u \in Parcels
    BY <2>8 DEF Parcels
  <2>10. QED
    BY <2>2, <2>4, <2>6, <2>9
<1>3. CASE z \in Rest(p.start_free, p.end_free)
  <2>1. p.start_free < p.end_free /\ z = Piece(p.start_free, p.end_free - p.start_free)
    BY <1>3 DEF Rest
  <2>2. Left(p) = p.end_free - p.start_free /\ Left(p) \in Nat /\ Multiple(Left(p)) /\ Left(p) # 0
    <3>1. Left(p) \in Nat /\ Multiple(Left(p)) /\ p.start_free \in Nat /\ p.end_free \in Nat
      BY PoolType
    <3>2. Left(p) = p.end_free - p.start_free
      BY DEF Left
    <3>3. QED
      BY <2>1, <3>1, <3>2
  <2>3. ROUND_UP(Left(p)) = Left(p)
    BY <2>2, RoundMultiple
  <2> DEFINE u == <<"pool", 1, p.start_free, Left(p)>>
             P == {<<"pool", 1, p.start_free, n>> : n \in {Left(p)} \ {0}}
  <2>4. u \in P /\ u[3] = p.start_free /\ u[4] = Left(p)
    BY <2>2
  <2> HIDE DEF u
  <2>5. u \in Unused
    BY <2>4 DEF Unused
  <2>6. u \in Parcels
    BY <2>5 DEF Parcels
  <2>7. QED
    BY <2>1, <2>2, <2>3, <2>4, <2>6
<1>4. QED
  BY <1>1, <1>2, <1>3 DEF Cells, CellsNow

(* The units of two parcels are at different addresses. *)
LEMMA ParcelsApart ==
  ASSUME PoolOK(p), live \subseteq Pieces, SoundPool(p, live, Align - 1),
         NEW u \in Parcels, NEW v \in Parcels, u # v
  PROVE  Grid(Piece(u[3], ROUND_UP(u[4]))) \cap Grid(Piece(v[3], ROUND_UP(v[4]))) = {}
<1> DEFINE e == Align - 1
<1>0. e \in Slack
  BY Zero
<1>1. PICK z : Part(u, z, e)
  BY Parts DEF Parcels
<1>2. PICK w : Part(v, w, e)
  BY Parts DEF Parcels
<1>3. Off(z, w) \/ Off(w, z)
  BY <1>0, <1>1, <1>2, SoundIsOff
<1>4. u[3] \in Nat /\ u[4] \in Nat \ {0} /\ z = Piece(u[3], ROUND_UP(u[4]) - e)
  BY <1>0, <1>1, ParcelType
<1>5. v[3] \in Nat /\ v[4] \in Nat \ {0} /\ w = Piece(v[3], ROUND_UP(v[4]) - e)
  BY <1>0, <1>2, ParcelType
<1>6. \A x \in Grid(Piece(u[3], ROUND_UP(u[4]))) : x \in Nat /\ z \in Pieces /\ z.at <= x /\ x < End(z)
  <2>1. Multiple(ROUND_UP(u[4])) /\ 0 < ROUND_UP(u[4])
    BY <1>4, Rounding
  <2>2. \A x \in Grid(Piece(u[3], ROUND_UP(u[4]))) : x \in Nat
    BY DEF Grid
  <2>3. QED
    BY <1>4, <2>1, <2>2, Foot
<1>7. \A x \in Grid(Piece(v[3], ROUND_UP(v[4]))) : x \in Nat /\ w \in Pieces /\ w.at <= x /\ x < End(w)
  <2>1. Multiple(ROUND_UP(v[4])) /\ 0 < ROUND_UP(v[4])
    BY <1>5, Rounding
  <2>2. \A x \in Grid(Piece(v[3], ROUND_UP(v[4]))) : x \in Nat
    BY DEF Grid
  <2>3. QED
    BY <1>5, <2>1, <2>2, Foot
<1> HIDE DEF e
<1>8. SUFFICES ASSUME NEW x \in Grid(Piece(u[3], ROUND_UP(u[4]))), x \in Grid(Piece(v[3], ROUND_UP(v[4])))
               PROVE  FALSE
  OBVIOUS
<1>9. /\ x \in Nat /\ z \in Pieces /\ z.at <= x /\ x < End(z)
      /\ w \in Pieces /\ w.at <= x /\ x < End(w)
  BY <1>6, <1>7, <1>8
<1>10. z.at \in Nat /\ w.at \in Nat /\ End(z) \in Nat /\ End(w) \in Nat
  BY <1>9, SamePiece
<1>11. QED
  BY <1>3, <1>9, <1>10 DEF Off

(* The units of a parcel are numbered. *)
LEMMA ParcelUnits ==
  ASSUME PoolOK(p), live \subseteq Pieces, NEW u \in Parcels
  PROVE  /\ \A k \in 0 .. FREELIST_INDEX(u[4]) : u[3] + k * Align \in Grid(Piece(u[3], ROUND_UP(u[4])))
         /\ \A a \in Grid(Piece(u[3], ROUND_UP(u[4]))) :
              \E k \in 0 .. FREELIST_INDEX(u[4]) : a = u[3] + k * Align
         /\ \A k, l \in 0 .. FREELIST_INDEX(u[4]) : u[3] + k * Align = u[3] + l * Align => k = l
<1> DEFINE i == FREELIST_INDEX(u[4])
           z == Piece(u[3], ROUND_UP(u[4]))
<1>1. u[3] \in Nat /\ i \in Nat /\ ROUND_UP(u[4]) = (i + 1) * Align /\ ROUND_UP(u[4]) \in Nat \ {0}
  BY ParcelIsCell, Rounding
<1> HIDE DEF i
<1>2. z \in Pieces /\ z.at = u[3] /\ z.n = (i + 1) * Align
  BY <1>1, IsPiece
<1> HIDE DEF z
<1>3. (i + 1) - 1 = i /\ i + 1 \in Nat
  BY <1>1
<1>4. /\ \A k \in 0 .. (i + 1) - 1 : z.at + k * Align \in Grid(z)
      /\ \A a \in Grid(z) : \E k \in 0 .. (i + 1) - 1 : a = z.at + k * Align
  BY <1>2, <1>3, GridIs
<1>5. ASSUME NEW k \in 0 .. i, NEW l \in 0 .. i, u[3] + k * Align = u[3] + l * Align PROVE k = l
  <2>1. k \in Nat /\ l \in Nat /\ Align \in Nat \ {0}
    BY <1>1, DefaultAllocAssumption
  <2>2. k * Align \in Nat /\ l * Align \in Nat
    BY <2>1
  <2>3. k * Align = l * Align
    BY <1>1, <1>5, <2>2
  <2>4. ~(k < l) /\ ~(l < k)
    BY <2>1, <2>3, Smaller
  <2>5. QED
    BY <2>1, <2>4
<1>6. QED
  BY <1>2, <1>3, <1>4, <1>5 DEF i, z

LEMMA UnitsIff ==
  \A v : v \in Units <=> \E u \in Parcels : \E k \in 0 .. FREELIST_INDEX(u[4]) : v = <<u, k>>
BY DEF Units, Parcels

LEMMA UnitsCounted ==
  ASSUME PoolOK(p), live \subseteq Pieces, SoundPool(p, live, Align - 1), IsFiniteSet(Cover(CellsNow))
  PROVE  Cardinality(Units) = Cardinality(Cover(CellsNow))
<1> DEFINE f == [v \in Units |-> v[1][3] + v[2] * Align]
           z(u) == Piece(u[3], ROUND_UP(u[4]))
<1>1. \A u \in Parcels :
        /\ z(u) \in CellsNow
        /\ \A k \in 0 .. FREELIST_INDEX(u[4]) : u[3] + k * Align \in Grid(z(u))
        /\ \A a \in Grid(z(u)) : \E k \in 0 .. FREELIST_INDEX(u[4]) : a = u[3] + k * Align
        /\ \A k, l \in 0 .. FREELIST_INDEX(u[4]) : u[3] + k * Align = u[3] + l * Align => k = l
  BY ParcelUnits, ParcelIsCell
<1>2. \A u, v \in Parcels : u # v => Grid(z(u)) \cap Grid(z(v)) = {}
  BY ParcelsApart
<1>3. \A u \in Parcels : \A k \in 0 .. FREELIST_INDEX(u[4]) : <<u, k>> \in Units /\ f[<<u, k>>] = u[3] + k * Align
  BY UnitsIff
<1>4. \A y \in CellsNow : \E u \in Parcels : y = z(u)
  BY CellIsParcel
<1>5. \A a : a \in Cover(CellsNow) <=> \E y \in CellsNow : a \in Grid(y)
  BY CoverIff
<1>6. DOMAIN f = Units /\ f = [v \in Units |-> f[v]]
  OBVIOUS
<1> HIDE DEF f, z
<1>7. \A v \in Units : f[v] \in Cover(CellsNow)
  <2>1. SUFFICES ASSUME NEW v \in Units PROVE f[v] \in Cover(CellsNow)
    OBVIOUS
  <2>2. PICK u \in Parcels : \E k \in 0 .. FREELIST_INDEX(u[4]) : v = <<u, k>>
    BY UnitsIff
  <2>3. PICK k \in 0 .. FREELIST_INDEX(u[4]) : v = <<u, k>>
    BY <2>2
  <2>4. f[v] \in Grid(z(u)) /\ z(u) \in CellsNow
    BY <1>1, <1>3, <2>3
  <2>5. QED
    BY <1>5, <2>4
<1>8. \A v, w \in Units : f[v] = f[w] => v = w
  <2>1. SUFFICES ASSUME NEW v \in Units, NEW w \in Units, f[v] = f[w] PROVE v = w
    OBVIOUS
  <2>2. PICK u \in Parcels : \E k \in 0 .. FREELIST_INDEX(u[4]) : v = <<u, k>>
    BY UnitsIff
  <2>3. PICK k \in 0 .. FREELIST_INDEX(u[4]) : v = <<u, k>>
    BY <2>2
  <2>4. PICK t \in Parcels : \E l \in 0 .. FREELIST_INDEX(t[4]) : w = <<t, l>>
    BY UnitsIff
  <2>5. PICK l \in 0 .. FREELIST_INDEX(t[4]) : w = <<t, l>>
    BY <2>4
  <2>6. f[v] \in Grid(z(u)) /\ f[w] \in Grid(z(t))
    BY <1>1, <1>3, <2>3, <2>5
  <2>7. u = t
    BY <1>2, <2>1, <2>6
  <2>8. u[3] + k * Align = u[3] + l * Align
    BY <1>3, <2>1, <2>3, <2>5, <2>7
  <2>9. k = l
    BY <1>1, <2>7, <2>8
  <2>10. QED
    BY <2>3, <2>5, <2>7, <2>9
<1>9. \A a \in Cover(CellsNow) : \E v \in Units : f[v] = a
  <2>1. SUFFICES ASSUME NEW a \in Cover(CellsNow) PROVE \E v \in Units : f[v] = a
    OBVIOUS
  <2>2. PICK y \in CellsNow : a \in Grid(y)
    BY <1>5
  <2>3. PICK u \in Parcels : y = z(u)
    BY <1>4
  <2>4. PICK k \in 0 .. FREELIST_INDEX(u[4]) : a = u[3] + k * Align
    BY <1>1, <2>2, <2>3
  <2>5. <<u, k>> \in Units /\ f[<<u, k>>] = a
    BY <1>3, <2>4
  <2>6. QED
    BY <2>5
<1>10. f \in Bijection(Units, Cover(CellsNow))
  <2>1. f \in [Units -> Cover(CellsNow)]
    BY <1>6, <1>7
  <2>2. QED
    BY <1>8, <1>9, <2>1 DEF Bijection, Injection, Surjection, IsInjective
<1>11. ExistsBijection(Cover(CellsNow), Units)
  <2>1. ExistsBijection(Units, Cover(CellsNow))
    BY <1>10 DEF ExistsBijection
  <2>2. QED
    BY <2>1, Fun_ExistsBijSymmetric
<1>12. QED
  BY <1>11, FS_Bijection

(* No piece of memory is ever forgotten: what malloc() gave for the pools,  *)
(* and the large blocks that were cut down to small ones, are to the last   *)
(* byte the small blocks in use, the blocks in the lists and the pool,      *)
(* whatever refill() cuts off, shelves and salvages.                        *)
THEOREM AllocatorForgetsNothing == Spec => []NothingIsLost
<1>1. AllocOK => NothingIsLost
  <2> SUFFICES ASSUME AllocOK PROVE NothingIsLost
    OBVIOUS
  <2>1. PoolOK(p) /\ live \subseteq Pieces /\ CountedPool(p, live, adopted)
    BY DEF AllocOK
  <2>2. SoundPool(p, live, Align - 1)
    BY SlacksType DEF AllocOK
  <2>3. /\ PoolOK(p) /\ live \subseteq Pieces /\ SoundPool(p, live, Align - 1)
        /\ IsFiniteSet(Cover(CellsNow)) /\ p.heap_size + adopted = Align * Cardinality(Cover(CellsNow))
    BY <2>1, <2>2 DEF CountedPool, Counted, CellsNow
  <2>4. Cardinality(Units) = Cardinality(Cover(CellsNow))
    BY <2>3, UnitsCounted
  <2>5. QED
    BY <2>3, <2>4 DEF NothingIsLost
<1>2. QED
  BY <1>1, AllocStarts, AllocSteps, PTL DEF Spec

-----------------------------------------------------------------------------
(* Giving up. *)

LEMMA UnusedIff ==
  ASSUME PoolOK(p), NEW x \in Unused
  PROVE  \/ \E i \in Lists : p.free_lists[i] # <<>> /\ x[4] = Length(i)
         \/ x[4] = Left(p)
<1>1. CASE \E i \in Lists : x \in {<<"list", k, p.free_lists[i][k], Length(i)>> : k \in DOMAIN p.free_lists[i]}
  <2>0. PICK i \in Lists : x \in {<<"list", k, p.free_lists[i][k], Length(i)>> : k \in DOMAIN p.free_lists[i]}
    BY <1>1
  <2>1. PICK k \in DOMAIN p.free_lists[i] : x = <<"list", k, p.free_lists[i][k], Length(i)>>
    BY <2>0
  <2>2. x[4] = Length(i) /\ p.free_lists[i] # <<>>
    BY <2>1, PoolType
  <2>3. QED
    BY <2>2
<1>2. CASE x \in {<<"pool", 1, p.start_free, n>> : n \in {Left(p)} \ {0}}
  BY <1>2
<1>3. QED
  BY <1>1, <1>2, UnusedSplit

(* The one step in which the process ends. *)
LEMMA GivingUp ==
  ASSUME AllocOK, NEW n \in Nat \ {0}, FromPool(n), alive, ~alive'
  PROVE  n <= MaxBytes /\ p' = p /\ \A x \in Unused : x[4] < ROUND_UP(n)
<1> DEFINE size == ROUND_UP(n)
           q == Shelve(p)
<1>1. n <= MaxBytes /\ p.free_lists[FREELIST_INDEX(n)] = <<>>
  BY DEF FromPool
<1>2. ~Enough(p, size) /\ Usable(q, size) = {} /\ p' = p
  BY DEF FromPool, Refilled
<1>3. PoolOK(p) /\ Left(p) \in Nat /\ size \in Nat
  BY PoolType, Rounding DEF AllocOK
<1>4. Left(p) < size
  BY <1>2, <1>3 DEF Enough
<1>5. \A j \in Lists : p.free_lists[j] # <<>> => q.free_lists[j] # <<>>
  BY <1>1, <1>2, Shelved
<1> HIDE DEF q, size
<1>6. \A j \in Lists : p.free_lists[j] # <<>> => Length(j) < size
  <2>1. \A j \in Lists : Length(j) \in Nat
    BY LengthOf
  <2>2. QED
    BY <1>2, <1>3, <1>5, <2>1 DEF Usable
<1>7. \A x \in Unused : x[4] < size
  BY <1>3, <1>4, <1>6, UnusedIff
<1>8. QED
  BY <1>1, <1>2, <1>7 DEF size

LEMMA GivesUpSteps == AllocOK /\ GivesUpOnlyWhenDry /\ [Next]_vars => GivesUpOnlyWhenDry'
<1> SUFFICES ASSUME AllocOK, GivesUpOnlyWhenDry, [Next]_vars, ~alive' PROVE GivesUpOnlyWhenDry'
  BY DEF GivesUpOnlyWhenDry
<1>1. CASE UNCHANGED vars
  BY <1>1 DEF vars, GivesUpOnlyWhenDry, Unused
<1>2. CASE Next
  <2>1. alive
    BY <1>2 DEF Next, Call, allocate, deallocate, reallocate, set_malloc_handler
  <2>2. ASSUME NEW x \in live, NEW n, reallocate(x, n) \/ deallocate(x) PROVE alive' = alive
    BY <2>2 DEF reallocate, deallocate
  <2>3. PICK n \in Requests : FromPool(n)
    BY <1>2, <2>1, <2>2 DEF Next, allocate, FromList, Large, set_malloc_handler
  <2>4. n <= MaxBytes /\ p' = p /\ \A x \in Unused : x[4] < ROUND_UP(n)
    BY <2>1, <2>3, GivingUp, DefaultAllocAssumption
  <2>5. Unused' = Unused
    BY <2>4 DEF Unused
  <2>6. QED
    BY <2>4, <2>5 DEF GivesUpOnlyWhenDry
<1>3. QED
  BY <1>1, <1>2

(* allocate() gives up only when neither the pool nor any list holds a      *)
(* piece as long as the request: chunk_alloc() has looked at all of them.  *)
THEOREM AllocatorTriesEverything == Spec => []GivesUpOnlyWhenDry
<1>1. Init => GivesUpOnlyWhenDry
  BY DEF Init, GivesUpOnlyWhenDry
<1>2. QED
  BY <1>1, AllocStarts, AllocSteps, GivesUpSteps, PTL DEF Spec
=============================================================================
