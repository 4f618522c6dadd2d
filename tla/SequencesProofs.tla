-------------------------- MODULE SequencesProofs --------------------------
(***************************************************************************)
(* That a vector, a string and a list hold the elements they were given in *)
(* their order.  What the loops of their operations compute is stated as    *)
(* functions of the cells, or of the nodes, once for all of them; then      *)
(* every operation of a container leaves what it holds as the sequence it   *)
(* should be, for any elements, any limits and any length.                  *)
(***************************************************************************)
EXTENDS LinearContainers, Sequences, WellFoundedInduction, TLAPS

-----------------------------------------------------------------------------
(* Sequences and loops.                                                      *)

(* What the parts and the concatenation of sequences hold. *)
LEMMA SubSequence ==
  ASSUME NEW S, NEW m \in Seq(S), NEW i \in Nat \ {0}, NEW j \in Nat, i <= j + 1, j <= Len(m)
  PROVE  /\ SubSeq(m, i, j) \in Seq(S) /\ Len(SubSeq(m, i, j)) = j - i + 1
         /\ \A k \in 1 .. j - i + 1 : SubSeq(m, i, j)[k] = m[i + k - 1]
<1>1. i \in 1 .. Len(m) + 1 /\ j \in i - 1 .. Len(m) /\ Len(m) \in Nat
  OBVIOUS
<1>2. QED
  BY <1>1

LEMMA Joined ==
  ASSUME NEW S, NEW s \in Seq(S), NEW t \in Seq(S)
  PROVE  /\ s \o t \in Seq(S) /\ Len(s \o t) = Len(s) + Len(t)
         /\ \A k \in 1 .. Len(s) + Len(t) : (s \o t)[k] = IF k <= Len(s) THEN s[k] ELSE t[k - Len(s)]
OBVIOUS

(* A set of numbers that is not empty has a least one. *)
LEMMA LeastNatural ==
  ASSUME NEW S \in SUBSET Nat, S # {}
  PROVE  \E m \in S : \A k \in S : m <= k
<1>1. PICK m \in S : \A k \in S : ~(<<k, m>> \in OpToRel(<, Nat))
  BY NatLessThanWellFounded, WFMin
<1>2. \A k \in S : ~(k < m)
  BY <1>1 DEF OpToRel
<1>3. QED
  BY <1>2

(* Induction up to n over the set of those for which something holds. *)
LEMMA UpTo ==
  ASSUME NEW n \in Nat, NEW G, 0 \in G, \A k \in 1 .. n : k - 1 \in G => k \in G
  PROVE  \A k \in 0 .. n : k \in G
<1> DEFINE Bad == {k \in 0 .. n : k \notin G}
<1>1. SUFFICES ASSUME Bad # {} PROVE FALSE
  OBVIOUS
<1>2. Bad \in SUBSET Nat
  OBVIOUS
<1> HIDE DEF Bad
<1>3. PICK m \in Bad : \A k \in Bad : m <= k
  BY <1>1, <1>2, LeastNatural
<1>4. m \in 0 .. n /\ m \notin G
  BY <1>3 DEF Bad
<1>5. m - 1 \in 0 .. n /\ m \in 1 .. n
  BY <1>4
<1>6. m - 1 \notin Bad
  BY <1>3, <1>5
<1>7. QED
  BY <1>4, <1>5, <1>6 DEF Bad

(* f is what n turns of the loop with the body F make of x. *)
Runs(f, n, x, F) == f[0] = x /\ \A k \in 1 .. n : f[k] = F[<<k, f[k - 1]>>]

(* The turns of a loop whose body stays in S exist. *)
LEMMA TurnsExist ==
  ASSUME NEW n \in Nat, NEW S, NEW x \in S, NEW F, \A k \in 1 .. n : \A h \in S : F[<<k, h>>] \in S
  PROVE  \E f \in [0 .. n -> S] : Runs(f, n, x, F)
<1> DEFINE T(f, m) == f \in [0 .. m -> S] /\ f[0] = x /\ \A k \in 1 .. m : f[k] = F[<<k, f[k - 1]>>]
           G == {m \in 0 .. n : \E f : T(f, m)}
<1>1. 0 \in G
  <2>1. T([k \in 0 .. 0 |-> x], 0)
    OBVIOUS
  <2> HIDE DEF T
  <2>2. \E f : T(f, 0)
    BY <2>1
  <2>3. QED
    BY <2>2
<1>2. ASSUME NEW m \in 1 .. n, m - 1 \in G PROVE m \in G
  <2>1. PICK f : T(f, m - 1)
    BY <1>2
  <2> DEFINE g == [k \in 0 .. m |-> IF k = m THEN F[<<m, f[m - 1]>>] ELSE f[k]]
  <2>2. f[m - 1] \in S /\ F[<<m, f[m - 1]>>] \in S
    BY <2>1
  <2>3. g \in [0 .. m -> S]
    BY <2>1, <2>2
  <2>4. ASSUME NEW k \in 1 .. m PROVE g[k] = F[<<k, g[k - 1]>>]
    <3>1. \A l \in 0 .. m : g[l] = IF l = m THEN F[<<m, f[m - 1]>>] ELSE f[l]
      OBVIOUS
    <3>2. k \in 0 .. m /\ k - 1 \in 0 .. m /\ k - 1 # m
      OBVIOUS
    <3>3. k # m => k \in 1 .. m - 1
      OBVIOUS
    <3>4. k # m => f[k] = F[<<k, f[k - 1]>>]
      BY <2>1, <3>3
    <3> HIDE DEF g, T
    <3>5. g[k - 1] = f[k - 1]
      BY <3>1, <3>2
    <3>6. g[k] = IF k = m THEN F[<<m, f[m - 1]>>] ELSE f[k]
      BY <3>1, <3>2
    <3>7. QED
      BY <3>4, <3>5, <3>6
  <2>5. g[0] = x
    BY <2>1
  <2>6. T(g, m)
    <3> HIDE DEF g
    <3>1. QED
      BY <2>3, <2>4, <2>5
  <2> HIDE DEF T, g
  <2>7. \E h : T(h, m)
    BY <2>6
  <2>8. m \in 0 .. n
    OBVIOUS
  <2>9. QED
    BY <2>7, <2>8
<1> HIDE DEF G
<1>3. n \in G
  BY <1>1, <1>2, UpTo
<1>4. QED
  <2>1. PICK f : T(f, n)
    BY <1>3 DEF G
  <2>2. QED
    BY <2>1 DEF Runs

-----------------------------------------------------------------------------
(* Assigning cells in a loop                                                 *)

(* What a cell of a block holds. *)
Elements == Values \cup {Default, Raw}
Block(l) == [1 .. l -> Elements]

(* r is c with the n cells behind the first ones copied behind the first res. *)
Shifted(c, r, first, n, res, l) ==
  /\ r \in Block(l)
  /\ \A i \in 1 .. l : r[i] = IF res < i /\ i <= res + n THEN c[first + (i - res)] ELSE c[i]

(* The turns of a loop that assigns cells. *)
LoopTurns(f, c, n, to, from, l) ==
  /\ f[0] = c /\ \A k \in 0 .. n : f[k] \in Block(l)
  /\ \A k \in 1 .. n : \A i \in 1 .. l :
       f[k][i] = IF i = to[k] + 1 THEN f[k - 1][from[k] + 1] ELSE f[k - 1][i]

Loop(c, to, from, n, l) ==
  /\ n \in Nat /\ c \in Block(l) /\ Len(to) = n
  /\ to \in [1 .. n -> 0 .. l - 1] /\ from \in [1 .. n -> 0 .. l - 1]

(* What such a loop computes is what its turns do, one after the other. *)
LEMMA AssignedTurns ==
  ASSUME NEW l \in Nat, NEW c, NEW n, NEW to, NEW from, Loop(c, to, from, n, l)
  PROVE  \E f : f[n] = Array!Assigned(c, to, from) /\ LoopTurns(f, c, n, to, from, l)
<1>1. n \in Nat /\ c \in Block(l) /\ Len(to) = n
      /\ to \in [1 .. n -> 0 .. l - 1] /\ from \in [1 .. n -> 0 .. l - 1]
  BY DEF Loop
<1> DEFINE B(d, k) == Array!Put(d, to[k], Array!At(d, from[k]))
           F == [x \in (1 .. n) \X Block(l) |-> B(x[2], x[1])]
           T(g) == g = [k \in 0 .. n |-> IF k = 0 THEN c ELSE B(g[k - 1], k)]
           f == CHOOSE g : T(g)
<1>2. Array!Assigned(c, to, from) = f[n]
  BY <1>1 DEF Array!Assigned
<1>3. ASSUME NEW d \in Block(l), NEW k \in 1 .. n
      PROVE  /\ B(d, k) \in Block(l)
             /\ \A i \in 1 .. l : B(d, k)[i] = IF i = to[k] + 1 THEN d[from[k] + 1] ELSE d[i]
  <2>1. to[k] \in 0 .. l - 1 /\ from[k] \in 0 .. l - 1 /\ to[k] + 1 \in 1 .. l /\ from[k] + 1 \in 1 .. l
    BY <1>1
  <2>2. Len(d) = l
    BY DEF Block
  <2>3. Array!At(d, from[k]) = d[from[k] + 1] /\ d[from[k] + 1] \in Elements
    BY <2>1, <2>2 DEF Array!At, Block
  <2>4. B(d, k) = [d EXCEPT ![to[k] + 1] = d[from[k] + 1]]
    BY <2>3 DEF Array!Put
  <2>5. QED
    BY <2>1, <2>3, <2>4 DEF Block
<1> HIDE DEF B
<1>4. \A k \in 1 .. n : \A h \in Block(l) : F[<<k, h>>] \in Block(l) /\ F[<<k, h>>] = B(h, k)
  BY <1>3
<1> HIDE DEF F
<1>5. PICK g \in [0 .. n -> Block(l)] : Runs(g, n, c, F)
  BY <1>1, <1>4, TurnsExist
<1>6. \A k \in 1 .. n : g[k] = B(g[k - 1], k)
  <2>1. \A k \in 1 .. n : g[k - 1] \in Block(l)
    BY <1>1, <1>5
  <2>2. QED
    BY <1>4, <1>5, <2>1 DEF Runs
<1>7. T(g)
  <2>1. \A k \in 0 .. n : g[k] = IF k = 0 THEN c ELSE B(g[k - 1], k)
    BY <1>1, <1>5, <1>6 DEF Runs
  <2>2. QED
    BY <1>5, <2>1
<1>8. T(f)
  BY <1>7
<1> HIDE DEF f
<1>9. f[0] = c /\ \A k \in 1 .. n : f[k] = B(f[k - 1], k)
  <2>1. \A k \in 0 .. n : f[k] = IF k = 0 THEN c ELSE B(f[k - 1], k)
    BY <1>8
  <2> HIDE DEF T
  <2>2. 0 \in 0 .. n /\ \A k \in 1 .. n : k \in 0 .. n /\ k # 0
    BY <1>1
  <2>3. QED
    BY <2>1, <2>2
<1>10. \A k \in 0 .. n : f[k] \in Block(l)
  <2> DEFINE G == {k \in 0 .. n : f[k] \in Block(l)}
  <2>1. 0 \in G
    BY <1>1, <1>9
  <2>2. \A k \in 1 .. n : k - 1 \in G => k \in G
    BY <1>1, <1>3, <1>9
  <2> HIDE DEF G
  <2>3. \A k \in 0 .. n : k \in G
    BY <1>1, <2>1, <2>2, UpTo
  <2>4. QED
    BY <2>3 DEF G
<1>11. ASSUME NEW k \in 1 .. n, NEW i \in 1 .. l
       PROVE  f[k][i] = IF i = to[k] + 1 THEN f[k - 1][from[k] + 1] ELSE f[k - 1][i]
  <2>1. f[k - 1] \in Block(l) /\ f[k] = B(f[k - 1], k)
    BY <1>1, <1>9, <1>10
  <2>2. QED
    BY <1>3, <2>1
<1>12. LoopTurns(f, c, n, to, from, l)
  BY <1>9, <1>10, <1>11 DEF LoopTurns
<1>13. QED
  BY <1>2, <1>12

(* A loop leaves the cells it does not assign as they are. *)
LEMMA AssignedOutside ==
  ASSUME NEW l \in Nat, NEW c, NEW n, NEW to, NEW from, Loop(c, to, from, n, l),
         NEW r, r = Array!Assigned(c, to, from)
  PROVE  r \in Block(l) /\ \A i \in 1 .. l : (\A k \in 1 .. n : i # to[k] + 1) => r[i] = c[i]
<1>1. PICK f : r = f[n] /\ LoopTurns(f, c, n, to, from, l)
  BY AssignedTurns
<1>2. n \in Nat
  BY DEF Loop
<1>3. r \in Block(l)
  BY <1>1, <1>2 DEF LoopTurns
<1>4. ASSUME NEW i \in 1 .. l, \A k \in 1 .. n : i # to[k] + 1
      PROVE  r[i] = c[i]
  <2> DEFINE G == {k \in 0 .. n : f[k][i] = c[i]}
  <2>1. 0 \in G
    BY <1>1, <1>2 DEF LoopTurns
  <2>2. ASSUME NEW k \in 1 .. n, k - 1 \in G PROVE k \in G
    <3>1. f[k][i] = f[k - 1][i]
      BY <1>1, <1>4 DEF LoopTurns
    <3>2. QED
      BY <2>2, <3>1
  <2> HIDE DEF G
  <2>3. \A k \in 0 .. n : k \in G
    BY <1>2, <2>1, <2>2, UpTo
  <2>4. QED
    BY <1>1, <1>2, <2>3 DEF G
<1>5. QED
  BY <1>3, <1>4

(* A loop that never assigns a cell twice nor reads one it has assigned moves *)
(* what was in the cells at first.                                            *)
LEMMA AssignedInside ==
  ASSUME NEW l \in Nat, NEW c, NEW n, NEW to, NEW from, Loop(c, to, from, n, l),
         \A k \in 1 .. n : \A j \in 1 .. k - 1 : to[j] # to[k] /\ to[j] # from[k],
         NEW r, r = Array!Assigned(c, to, from)
  PROVE  \A k \in 1 .. n : r[to[k] + 1] = c[from[k] + 1]
<1>1. PICK f : r = f[n] /\ LoopTurns(f, c, n, to, from, l)
  BY AssignedTurns
<1>2. n \in Nat /\ \A k \in 1 .. n : to[k] \in 0 .. l - 1 /\ from[k] \in 0 .. l - 1
      /\ to[k] + 1 \in 1 .. l /\ from[k] + 1 \in 1 .. l
  BY DEF Loop
<1> DEFINE Done(k) == \A j \in 1 .. k : f[k][to[j] + 1] = c[from[j] + 1]
           Left(k) == \A i \in 1 .. l : (\A j \in 1 .. k : i # to[j] + 1) => f[k][i] = c[i]
           G == {k \in 0 .. n : Done(k) /\ Left(k)}
<1>3. 0 \in G
  BY <1>1, <1>2 DEF LoopTurns
<1>4. ASSUME NEW k \in 1 .. n, k - 1 \in G PROVE k \in G
  <2>1. Done(k - 1) /\ Left(k - 1)
    BY <1>4
  <2>2. \A i \in 1 .. l : f[k][i] = IF i = to[k] + 1 THEN f[k - 1][from[k] + 1] ELSE f[k - 1][i]
    BY <1>1 DEF LoopTurns
  <2>3. \A j \in 1 .. k : j \in 1 .. n /\ (j # k => j \in 1 .. k - 1)
    BY <1>2
  <2>4. f[k - 1][from[k] + 1] = c[from[k] + 1]
    <3>1. \A j \in 1 .. k - 1 : from[k] + 1 # to[j] + 1
      <4> SUFFICES ASSUME NEW j \in 1 .. k - 1 PROVE from[k] + 1 # to[j] + 1
        OBVIOUS
      <4>1. to[j] # from[k] /\ j \in 1 .. n
        BY <1>2
      <4>2. QED
        BY <1>2, <4>1
    <3>2. QED
      BY <1>2, <2>1, <3>1
  <2>5. Done(k)
    <3> SUFFICES ASSUME NEW j \in 1 .. k PROVE f[k][to[j] + 1] = c[from[j] + 1]
      OBVIOUS
    <3>1. CASE j = k
      BY <1>2, <2>2, <2>4, <3>1
    <3>2. CASE j # k
      <4>1. j \in 1 .. k - 1 /\ j \in 1 .. n
        BY <2>3, <3>2
      <4>2. to[j] + 1 # to[k] + 1 /\ to[j] + 1 \in 1 .. l
        BY <1>2, <4>1
      <4>3. QED
        BY <2>1, <2>2, <4>1, <4>2
    <3>3. QED
      BY <3>1, <3>2
  <2>6. Left(k)
    <3> SUFFICES ASSUME NEW i \in 1 .. l, \A j \in 1 .. k : i # to[j] + 1 PROVE f[k][i] = c[i]
      OBVIOUS
    <3>1. k \in 1 .. k /\ \A j \in 1 .. k - 1 : j \in 1 .. k
      OBVIOUS
    <3>2. QED
      BY <2>1, <2>2, <3>1
  <2> HIDE DEF Done, Left
  <2>7. QED
    BY <2>5, <2>6
<1> HIDE DEF G
<1>5. \A k \in 0 .. n : k \in G
  BY <1>2, <1>3, <1>4, UpTo
<1>6. QED
  BY <1>1, <1>2, <1>5 DEF G

(* i, i + 1, ... and backwards. *)
Ascends(s, i, n) == Len(s) = n /\ s = [k \in 1 .. n |-> i + k - 1]
Descends(s, i, n) == Len(s) = n /\ s = [k \in 1 .. n |-> i + n - k]

(* The cells that copy goes through. *)
LEMMA FromIs ==
  ASSUME NEW i \in Int, NEW n \in Nat, NEW j, j = i + n, NEW s, s = Array!From(i, j)
  PROVE  Ascends(s, i, n)
<1>1. j - i = n
  OBVIOUS
<1>2. s = [k \in 1 .. n |-> i + k - 1]
  BY <1>1 DEF Array!From
<1>3. QED
  BY <1>2 DEF Ascends

(* The cells that reverse_copy goes through. *)
LEMMA BackFrom ==
  ASSUME NEW i \in Int, NEW n \in Nat, NEW j, j = i + n, NEW s, s = Array!Back(i, j)
  PROVE  Descends(s, i, n)
<1>1. j - i = n /\ \A k \in Int : j - k = i + n - k
  OBVIOUS
<1>2. s = [k \in 1 .. n |-> i + n - k]
  BY <1>1 DEF Array!Back
<1>3. QED
  BY <1>2 DEF Descends

(* The string's cells use the operators of the vector. *)
LEMMA SameNames ==
  /\ \A i, j : Text!Cells!From(i, j) = Array!From(i, j)
  /\ \A i, j : Text!Cells!Back(i, j) = Array!Back(i, j)
  /\ Text!Cells!Given = Array!Given
BY DEF Text!Cells!From, Array!From, Text!Cells!Back, Array!Back, Text!Cells!Given, Array!Given

LEMMA SameLoops ==
  \A c, to, from : Text!Cells!Assigned(c, to, from) = Array!Assigned(c, to, from)
BY DEF Text!Cells!Assigned, Array!Assigned, Text!Cells!Put, Array!Put, Text!Cells!At, Array!At

LEMMA SameCopies ==
  \A c, first, last, res : Text!Cells!copy(c, first, last, res) = Array!copy(c, first, last, res)
BY SameNames, SameLoops DEF Text!Cells!copy, Array!copy

LEMMA SameCopyIn ==
  \A c, vals, res : Text!Cells!CopyIn(c, vals, res) = Array!CopyIn(c, vals, res)
BY DEF Text!Cells!CopyIn, Array!CopyIn

(* n cells behind the first ones and behind the first res of l. *)
Within2(l, first, n, res) ==
  /\ l \in Nat /\ first \in Nat /\ n \in Nat /\ res \in Nat
  /\ first + n <= l /\ res + n <= l

(* The loop forward: the cells may move backward, or to where none of them is. *)
LEMMA CopyIs ==
  ASSUME NEW l, NEW first, NEW n, NEW res, Within2(l, first, n, res), NEW c \in Block(l),
         NEW last, last = first + n, res <= first \/ last <= res,
         NEW r, r = Array!copy(c, first, last, res)
  PROVE  Shifted(c, r, first, n, res, l)
<1>1. l \in Nat /\ first \in Nat /\ n \in Nat /\ res \in Nat /\ first + n <= l /\ res + n <= l
  BY DEF Within2
<1>2. PICK e : e = res + (last - first)
  OBVIOUS
<1>3. PICK to : to = Array!From(res, e)
  OBVIOUS
<1>4. PICK from : from = Array!From(first, last)
  OBVIOUS
<1>5. e = res + n /\ res \in Int /\ first \in Int
  BY <1>1, <1>2
<1>6. Len(to) = n /\ to = [k \in 1 .. n |-> res + k - 1]
  <2>1. Ascends(to, res, n)
    BY <1>1, <1>3, <1>5, FromIs
  <2>2. QED
    BY <2>1 DEF Ascends
<1>7. from = [k \in 1 .. n |-> first + k - 1]
  <2>1. Ascends(from, first, n)
    BY <1>1, <1>4, <1>5, FromIs
  <2>2. QED
    BY <2>1 DEF Ascends
<1>8. r = Array!Assigned(c, to, from)
  BY <1>3, <1>4, <1>2 DEF Array!copy
<1>9. \A k \in 1 .. n : to[k] = res + k - 1 /\ from[k] = first + k - 1
      /\ to[k] \in 0 .. l - 1 /\ from[k] \in 0 .. l - 1
  BY <1>1, <1>6, <1>7
<1>10. Loop(c, to, from, n, l)
  BY <1>1, <1>6, <1>7, <1>9 DEF Loop
<1>11. ASSUME NEW k \in 1 .. n, NEW j \in 1 .. k - 1 PROVE to[j] # to[k] /\ to[j] # from[k]
  <2>1. j \in 1 .. n /\ j < k
    BY <1>1
  <2>2. to[j] = res + j - 1 /\ to[k] = res + k - 1 /\ from[k] = first + k - 1
    BY <1>9, <2>1
  <2>3. QED
    BY <1>1, <2>1, <2>2
<1>12. \A k \in 1 .. n : r[to[k] + 1] = c[from[k] + 1]
  BY <1>1, <1>8, <1>10, <1>11, AssignedInside
<1>13. r \in Block(l) /\ \A i \in 1 .. l : (\A k \in 1 .. n : i # to[k] + 1) => r[i] = c[i]
  BY <1>1, <1>8, <1>10, AssignedOutside
<1>14. ASSUME NEW i \in 1 .. l
       PROVE  r[i] = IF res < i /\ i <= res + n THEN c[first + (i - res)] ELSE c[i]
  <2>1. CASE res < i /\ i <= res + n
    <3>1. i - res \in 1 .. n /\ to[i - res] + 1 = i /\ from[i - res] + 1 = first + (i - res)
      <4>1. i - res \in 1 .. n
        BY <1>1, <2>1
      <4>2. to[i - res] = res + (i - res) - 1 /\ from[i - res] = first + (i - res) - 1
        BY <1>9, <4>1
      <4>3. QED
        BY <1>1, <4>1, <4>2
    <3>2. QED
      BY <1>12, <2>1, <3>1
  <2>2. CASE ~(res < i /\ i <= res + n)
    <3>1. \A k \in 1 .. n : i # to[k] + 1
      BY <1>1, <1>9, <2>2
    <3>2. QED
      BY <1>13, <2>2, <3>1
  <2>3. QED
    BY <2>1, <2>2
<1>15. QED
  BY <1>13, <1>14 DEF Shifted

(* And backward: the cells may move forward. *)
LEMMA ReverseCopyIs ==
  ASSUME NEW l, NEW first, NEW n, NEW res, Within2(l, first, n, res), NEW c \in Block(l),
         NEW last, last = first + n, first <= res,
         NEW r, r = Array!reverse_copy(c, first, last, res)
  PROVE  Shifted(c, r, first, n, res, l)
<1>1. l \in Nat /\ first \in Nat /\ n \in Nat /\ res \in Nat /\ first + n <= l /\ res + n <= l
  BY DEF Within2
<1>2. PICK e : e = res + (last - first)
  OBVIOUS
<1>3. PICK to : to = Array!Back(res, e)
  OBVIOUS
<1>4. PICK from : from = Array!Back(first, last)
  OBVIOUS
<1>5. e = res + n /\ res \in Int /\ first \in Int
  BY <1>1, <1>2
<1>6. Len(to) = n /\ to = [k \in 1 .. n |-> res + n - k]
  <2>1. Descends(to, res, n)
    BY <1>1, <1>3, <1>5, BackFrom
  <2>2. QED
    BY <2>1 DEF Descends
<1>7. from = [k \in 1 .. n |-> first + n - k]
  <2>1. Descends(from, first, n)
    BY <1>1, <1>4, <1>5, BackFrom
  <2>2. QED
    BY <2>1 DEF Descends
<1>8. r = Array!Assigned(c, to, from)
  BY <1>3, <1>4, <1>2 DEF Array!reverse_copy
<1>9. \A k \in 1 .. n : to[k] = res + n - k /\ from[k] = first + n - k
      /\ to[k] \in 0 .. l - 1 /\ from[k] \in 0 .. l - 1
  BY <1>1, <1>6, <1>7
<1>10. Loop(c, to, from, n, l)
  BY <1>1, <1>6, <1>7, <1>9 DEF Loop
<1>11. ASSUME NEW k \in 1 .. n, NEW j \in 1 .. k - 1 PROVE to[j] # to[k] /\ to[j] # from[k]
  <2>1. j \in 1 .. n /\ j < k
    BY <1>1
  <2>2. to[j] = res + n - j /\ to[k] = res + n - k /\ from[k] = first + n - k
    BY <1>9, <2>1
  <2>3. QED
    BY <1>1, <2>1, <2>2
<1>12. \A k \in 1 .. n : r[to[k] + 1] = c[from[k] + 1]
  BY <1>1, <1>8, <1>10, <1>11, AssignedInside
<1>13. r \in Block(l) /\ \A i \in 1 .. l : (\A k \in 1 .. n : i # to[k] + 1) => r[i] = c[i]
  BY <1>1, <1>8, <1>10, AssignedOutside
<1>14. ASSUME NEW i \in 1 .. l
       PROVE  r[i] = IF res < i /\ i <= res + n THEN c[first + (i - res)] ELSE c[i]
  <2>1. CASE res < i /\ i <= res + n
    <3> DEFINE k == res + n + 1 - i
    <3>1. k \in 1 .. n /\ to[k] + 1 = i /\ from[k] + 1 = first + (i - res)
      <4>1. k \in 1 .. n
        BY <1>1, <2>1
      <4>2. to[k] = res + n - k /\ from[k] = first + n - k
        BY <1>9, <4>1
      <4>3. QED
        BY <1>1, <4>1, <4>2
    <3> HIDE DEF k
    <3>2. QED
      BY <1>12, <2>1, <3>1
  <2>2. CASE ~(res < i /\ i <= res + n)
    <3>1. \A k \in 1 .. n : i # to[k] + 1
      BY <1>1, <1>9, <2>2
    <3>2. QED
      BY <1>13, <2>2, <3>1
  <2>3. QED
    BY <2>1, <2>2
<1>15. QED
  BY <1>13, <1>14 DEF Shifted

(* The string's turns the cells round: it leaves the others, and moves one at most. *)
LEMMA TurnedIs ==
  ASSUME NEW l, NEW first, NEW n, NEW res, Within2(l, first, n, res), NEW c \in Block(l),
         NEW last, last = first + n,
         NEW r, r = Text!reverse_copy(c, first, last, res)
  PROVE  /\ r \in Block(l) /\ \A i \in 1 .. l : ~(res < i /\ i <= res + n) => r[i] = c[i]
         /\ n <= 1 => Shifted(c, r, first, n, res, l)
<1>1. l \in Nat /\ first \in Nat /\ n \in Nat /\ res \in Nat /\ first + n <= l /\ res + n <= l
  BY DEF Within2
<1>2. PICK e : e = res + (last - first)
  OBVIOUS
<1>3. PICK to : to = Array!From(res, e)
  OBVIOUS
<1>4. PICK from : from = Array!Back(first, last)
  OBVIOUS
<1>5. e = res + n /\ res \in Int /\ first \in Int
  BY <1>1, <1>2
<1>6. Len(to) = n /\ to = [k \in 1 .. n |-> res + k - 1]
  <2>1. Ascends(to, res, n)
    BY <1>1, <1>3, <1>5, FromIs
  <2>2. QED
    BY <2>1 DEF Ascends
<1>7. from = [k \in 1 .. n |-> first + n - k]
  <2>1. Descends(from, first, n)
    BY <1>1, <1>4, <1>5, BackFrom
  <2>2. QED
    BY <2>1 DEF Descends
<1>8. r = Array!Assigned(c, to, from)
  BY <1>3, <1>4, <1>2, SameNames, SameLoops DEF Text!reverse_copy
<1>9. \A k \in 1 .. n : to[k] = res + k - 1 /\ from[k] = first + n - k
      /\ to[k] \in 0 .. l - 1 /\ from[k] \in 0 .. l - 1
  BY <1>1, <1>6, <1>7
<1>10. Loop(c, to, from, n, l)
  BY <1>1, <1>6, <1>7, <1>9 DEF Loop
<1>11. r \in Block(l) /\ \A i \in 1 .. l : (\A k \in 1 .. n : i # to[k] + 1) => r[i] = c[i]
  BY <1>1, <1>8, <1>10, AssignedOutside
<1>12. ASSUME NEW i \in 1 .. l, ~(res < i /\ i <= res + n) PROVE r[i] = c[i]
  <2>1. \A k \in 1 .. n : i # to[k] + 1
    BY <1>1, <1>9, <1>12
  <2>2. QED
    BY <1>11, <2>1
<1>13. ASSUME n <= 1 PROVE Shifted(c, r, first, n, res, l)
  <2>1. \A k \in 1 .. n : \A j \in 1 .. k - 1 : to[j] # to[k] /\ to[j] # from[k]
    BY <1>1, <1>13
  <2>2. \A k \in 1 .. n : r[to[k] + 1] = c[from[k] + 1]
    BY <1>1, <1>8, <1>10, <2>1, AssignedInside
  <2>3. ASSUME NEW i \in 1 .. l, res < i, i <= res + n
        PROVE  r[i] = c[first + (i - res)]
    <3>1. n = 1 /\ i = res + 1 /\ 1 \in 1 .. n
      BY <1>1, <1>13, <2>3
    <3>2. to[1] = res + 1 - 1 /\ from[1] = first + n - 1
      BY <1>9, <3>1
    <3>3. to[1] + 1 = i /\ from[1] + 1 = first + (i - res)
      BY <1>1, <3>1, <3>2
    <3>4. QED
      BY <2>2, <3>1, <3>3
  <2>4. QED
    BY <1>11, <1>12, <2>3 DEF Shifted
<1>14. QED
  BY <1>11, <1>12, <1>13

-----------------------------------------------------------------------------
(* Sequences of a length                                                     *)

(* Sequences of n elements. *)
Tuples(S, n) == [1 .. n -> S]

(* They are sequences, and those are they. *)
LEMMA TupleIs ==
  ASSUME NEW S, NEW n \in Nat, NEW s \in Tuples(S, n)
  PROVE  s \in Seq(S) /\ Len(s) = n /\ s = [i \in 1 .. n |-> s[i]] /\ \A i \in 1 .. n : s[i] \in S
BY DEF Tuples

LEMMA SequenceIs ==
  ASSUME NEW S, NEW s \in Seq(S)
  PROVE  Len(s) \in Nat /\ s \in Tuples(S, Len(s))
BY DEF Tuples

LEMMA SameTuples ==
  ASSUME NEW S, NEW n \in Nat, NEW s \in Tuples(S, n), NEW t \in Tuples(S, n),
         \A i \in 1 .. n : s[i] = t[i]
  PROVE  s = t
BY DEF Tuples

(* q is the n elements of s behind the first h. *)
Part(q, S, s, h, n) ==
  q \in Tuples(S, n) /\ Len(q) = n /\ \A k \in 1 .. n : q[k] = s[h + k]

(* The elements of s from i to j, when those before i are h. *)
LEMMA PartIs ==
  ASSUME NEW S, NEW m \in Nat, NEW s \in Tuples(S, m), NEW h \in 0 .. m, NEW j \in h .. m,
         NEW i, i = h + 1, NEW n, n = j - h, NEW q, q = SubSeq(s, i, j)
  PROVE  Part(q, S, s, h, n)
<1>1. s \in Seq(S) /\ Len(s) = m
  BY TupleIs
<1>2. i \in Nat \ {0} /\ j \in Nat /\ i <= j + 1 /\ j <= Len(s) /\ n \in Nat /\ j - i + 1 = n
  BY <1>1
<1>3. q \in Seq(S) /\ Len(q) = j - i + 1 /\ \A k \in 1 .. j - i + 1 : q[k] = s[i + k - 1]
  BY <1>1, <1>2, SubSequence
<1>4. Len(q) = n
  BY <1>2, <1>3
<1>5. q \in Tuples(S, n)
  BY <1>3, <1>4, SequenceIs
<1>6. \A k \in 1 .. n : q[k] = s[h + k]
  <2>1. \A k \in 1 .. n : k \in 1 .. j - i + 1 /\ i + k - 1 = h + k
    BY <1>2
  <2>2. QED
    BY <1>3, <2>1
<1>7. QED
  BY <1>4, <1>5, <1>6 DEF Part

(* The first n elements. *)
LEMMA FirstPart ==
  ASSUME NEW S, NEW m \in Nat, NEW s \in Tuples(S, m), NEW n \in 0 .. m, NEW q, q = SubSeq(s, 1, n)
  PROVE  Part(q, S, s, 0, n)
<1>1. PICK h : h = 0
  OBVIOUS
<1>2. PICK i : i = 1
  OBVIOUS
<1>3. h \in 0 .. m /\ n \in h .. m /\ i = h + 1 /\ n = n - h /\ q = SubSeq(s, i, n)
  BY <1>1, <1>2
<1>4. Part(q, S, s, h, n)
  BY <1>3, PartIs
<1>5. QED
  BY <1>1, <1>4

(* x is p with q behind it. *)
Concat(x, S, l, p, m, q, n) ==
  /\ x \in Tuples(S, l) /\ Len(x) = l
  /\ \A i \in 1 .. m : x[i] = p[i]
  /\ \A i \in 1 .. n : x[m + i] = q[i]

LEMMA ConcatIs ==
  ASSUME NEW S, NEW m \in Nat, NEW n \in Nat, NEW p \in Tuples(S, m), NEW q \in Tuples(S, n),
         NEW l, l = m + n, NEW x, x = p \o q
  PROVE  Concat(x, S, l, p, m, q, n)
<1>1. p \in Seq(S) /\ Len(p) = m /\ q \in Seq(S) /\ Len(q) = n
  BY TupleIs
<1>2. p \o q \in Seq(S) /\ Len(p \o q) = Len(p) + Len(q)
      /\ \A k \in 1 .. Len(p) + Len(q) : (p \o q)[k] = IF k <= Len(p) THEN p[k] ELSE q[k - Len(p)]
  BY <1>1, Joined
<1>3. x \in Seq(S) /\ Len(x) = l /\ l \in Nat
      /\ \A k \in 1 .. l : x[k] = IF k <= m THEN p[k] ELSE q[k - m]
  BY <1>1, <1>2
<1>4. x \in Tuples(S, l)
  BY <1>3, SequenceIs
<1>5. \A i \in 1 .. m : x[i] = p[i]
  <2>1. \A i \in 1 .. m : i \in 1 .. l /\ i <= m
    OBVIOUS
  <2>2. QED
    BY <1>3, <2>1
<1>6. \A i \in 1 .. n : x[m + i] = q[i]
  <2>1. \A i \in 1 .. n : m + i \in 1 .. l /\ ~(m + i <= m) /\ (m + i) - m = i
    OBVIOUS
  <2>2. QED
    BY <1>3, <2>1
<1>7. QED
  BY <1>3, <1>4, <1>5, <1>6 DEF Concat

(* q is s with vals put in behind the first it elements. *)
With(q, S, l, s, it, vals, n) ==
  /\ q \in Tuples(S, l) /\ Len(q) = l
  /\ \A i \in 1 .. it : q[i] = s[i]
  /\ \A i \in 1 .. n : q[it + i] = vals[i]
  /\ \A i \in it + n + 1 .. l : q[i] = s[i - n]

LEMMA InsertedIs ==
  ASSUME NEW S, NEW m \in Nat, NEW s \in Tuples(S, m), NEW n \in Nat, NEW vals \in Tuples(S, n),
         NEW it \in 0 .. m, NEW l, l = m + n, NEW q,
         q = SubSeq(s, 1, it) \o vals \o SubSeq(s, it + 1, Len(s))
  PROVE  With(q, S, l, s, it, vals, n)
<1>1. Len(s) = m
  BY TupleIs
<1>2. PICK x : x = SubSeq(s, 1, it)
  OBVIOUS
<1>3. PICK j : j = it + 1
  OBVIOUS
<1>4. PICK y : y = SubSeq(s, j, m)
  OBVIOUS
<1>5. PICK z : z = x \o vals
  OBVIOUS
<1>6. q = z \o y
  BY <1>1, <1>2, <1>4, <1>5, <1>3
<1>7. PICK a \in Nat : a = m - it
  OBVIOUS
<1>8. PICK b \in Nat : b = it + n
  OBVIOUS
<1>9. x \in Tuples(S, it) /\ \A k \in 1 .. it : x[k] = s[k]
  <2>1. Part(x, S, s, 0, it)
    BY <1>2, FirstPart
  <2>2. QED
    BY <2>1 DEF Part
<1>10. y \in Tuples(S, a) /\ \A k \in 1 .. a : y[k] = s[it + k]
  <2>1. m \in it .. m
    OBVIOUS
  <2>2. it \in 0 .. m /\ m \in it .. m /\ j = it + 1 /\ a = m - it /\ y = SubSeq(s, j, m)
    BY <1>4, <1>7, <1>3, <2>1
  <2>3. Part(y, S, s, it, a)
    BY <2>2, PartIs
  <2>4. QED
    BY <2>3 DEF Part
<1>11. it \in Nat
  OBVIOUS
<1>12. Concat(z, S, b, x, it, vals, n)
  BY <1>5, <1>8, <1>9, <1>11, ConcatIs
<1>13. l = b + a
  BY <1>7, <1>8
<1>14. Concat(q, S, l, z, b, y, a)
  <2>1. y \in Tuples(S, a) /\ z \in Tuples(S, b) /\ a \in Nat /\ b \in Nat
    BY <1>7, <1>8, <1>10, <1>12 DEF Concat
  <2>2. l = b + a /\ q = z \o y
    BY <1>6, <1>13
  <2>3. QED
    BY <2>1, <2>2, ConcatIs
<1>15. \A i \in 1 .. it : q[i] = s[i]
  <2>1. \A i \in 1 .. it : i \in 1 .. b
    BY <1>8
  <2>2. QED
    BY <1>9, <1>12, <1>14, <2>1 DEF Concat
<1>16. \A i \in 1 .. n : q[it + i] = vals[i]
  <2>1. \A i \in 1 .. n : it + i \in 1 .. b
    BY <1>8
  <2>2. QED
    BY <1>12, <1>14, <2>1 DEF Concat
<1>17. ASSUME NEW i \in it + n + 1 .. l PROVE q[i] = s[i - n]
  <2>1. i - b \in 1 .. a /\ b + (i - b) = i /\ it + (i - b) = i - n
    BY <1>7, <1>8
  <2>2. QED
    BY <1>10, <1>14, <2>1 DEF Concat
<1>18. QED
  BY <1>14, <1>15, <1>16, <1>17 DEF With, Concat

(* q is s without those from behind the first a up to the first b. *)
LessThose(q, S, l, s, a, b) ==
  /\ q \in Tuples(S, l) /\ Len(q) = l
  /\ \A i \in 1 .. a : q[i] = s[i]
  /\ \A i \in a + 1 .. l : q[i] = s[i + (b - a)]

LEMMA ErasedIs ==
  ASSUME NEW S, NEW m \in Nat, NEW s \in Tuples(S, m), NEW a \in 0 .. m, NEW b \in a .. m,
         NEW l, l = m - (b - a), NEW q,
         q = SubSeq(s, 1, a) \o SubSeq(s, b + 1, Len(s))
  PROVE  LessThose(q, S, l, s, a, b)
<1>1. Len(s) = m
  BY TupleIs
<1>2. PICK x : x = SubSeq(s, 1, a)
  OBVIOUS
<1>3. PICK j : j = b + 1
  OBVIOUS
<1>4. PICK y : y = SubSeq(s, j, m)
  OBVIOUS
<1>5. q = x \o y
  BY <1>1, <1>2, <1>4, <1>3
<1>6. PICK n \in Nat : n = m - b
  OBVIOUS
<1>7. x \in Tuples(S, a) /\ \A k \in 1 .. a : x[k] = s[k]
  <2>1. Part(x, S, s, 0, a)
    BY <1>2, FirstPart
  <2>2. QED
    BY <2>1 DEF Part
<1>8. y \in Tuples(S, n) /\ \A k \in 1 .. n : y[k] = s[b + k]
  <2>1. m \in b .. m /\ b \in 0 .. m
    OBVIOUS
  <2>2. b \in 0 .. m /\ m \in b .. m /\ j = b + 1 /\ n = m - b /\ y = SubSeq(s, j, m)
    BY <1>4, <1>6, <1>3, <2>1
  <2>3. Part(y, S, s, b, n)
    BY <2>2, PartIs
  <2>4. QED
    BY <2>3 DEF Part
<1>9. a \in Nat /\ l = a + n
  BY <1>6
<1>10. Concat(q, S, l, x, a, y, n)
  <2>1. x \in Tuples(S, a) /\ y \in Tuples(S, n) /\ a \in Nat /\ n \in Nat
    BY <1>6, <1>7, <1>8, <1>9
  <2>2. l = a + n /\ q = x \o y
    BY <1>5, <1>9
  <2>3. QED
    BY <2>1, <2>2, ConcatIs
<1>11. \A i \in 1 .. a : q[i] = s[i]
  BY <1>7, <1>10 DEF Concat
<1>12. ASSUME NEW i \in a + 1 .. l PROVE q[i] = s[i + (b - a)]
  <2>1. i - a \in 1 .. n /\ a + (i - a) = i /\ b + (i - a) = i + (b - a)
    BY <1>6
  <2>2. QED
    BY <1>8, <1>10, <2>1 DEF Concat
<1>13. QED
  BY <1>10, <1>11, <1>12 DEF LessThose, Concat

-----------------------------------------------------------------------------
(* Cells that hold a sequence                                                *)

(* r is c with v in the cells behind the first ones up to the last. *)
Filled(c, r, first, last, v, l) ==
  r \in Block(l) /\ \A i \in 1 .. l : r[i] = IF first < i /\ i <= last THEN v ELSE c[i]

(* The fill loop fills those cells, and no others. *)
LEMMA FillIs ==
  ASSUME NEW l \in Nat, NEW c \in Block(l), NEW first \in Nat, NEW last \in Nat, NEW v \in Elements,
         NEW r, r = Array!fill(c, first, last, v)
  PROVE  Filled(c, r, first, last, v, l)
<1>1. DOMAIN c = 1 .. l /\ \A i \in 1 .. l : c[i] \in Elements
  BY DEF Block
<1>2. r = [i \in 1 .. l |-> IF i - 1 \in first .. last - 1 THEN v ELSE c[i]]
  BY <1>1 DEF Array!fill
<1>3. \A i \in 1 .. l : i - 1 \in first .. last - 1 <=> first < i /\ i <= last
  OBVIOUS
<1>4. QED
  BY <1>1, <1>2, <1>3 DEF Block, Filled

(* r is c with vals in the cells behind the first res. *)
Overlaid(c, r, vals, n, res, l) ==
  /\ r \in Block(l)
  /\ \A i \in 1 .. l : r[i] = IF res < i /\ i <= res + n THEN vals[i - res] ELSE c[i]

(* The copying loop puts the values there, and changes no other cell. *)
LEMMA CopyInIs ==
  ASSUME NEW l \in Nat, NEW c \in Block(l), NEW n \in Nat, NEW vals \in Tuples(Elements, n),
         NEW res \in Nat, NEW r, r = Array!CopyIn(c, vals, res)
  PROVE  Overlaid(c, r, vals, n, res, l)
<1>1. DOMAIN c = 1 .. l /\ \A i \in 1 .. l : c[i] \in Elements
  BY DEF Block
<1>2. DOMAIN vals = 1 .. n /\ \A i \in 1 .. n : vals[i] \in Elements
  BY DEF Tuples
<1>3. r = [i \in 1 .. l |-> IF i - res \in 1 .. n THEN vals[i - res] ELSE c[i]]
  BY <1>1, <1>2 DEF Array!CopyIn
<1>4. \A i \in 1 .. l : i - res \in 1 .. n <=> res < i /\ i <= res + n
  OBVIOUS
<1>5. QED
  BY <1>1, <1>2, <1>3, <1>4 DEF Block, Overlaid

(* Construction of one element changes one cell. *)
LEMMA PutIs ==
  ASSUME NEW l \in Nat, NEW c \in Block(l), NEW p \in 0 .. l - 1, NEW v \in Elements,
         NEW r, r = Array!Put(c, p, v)
  PROVE  r \in Block(l) /\ \A i \in 1 .. l : r[i] = IF i = p + 1 THEN v ELSE c[i]
BY DEF Array!Put, Block

(* The first m of l cells hold s. *)
Holds(c, m, s, l) ==
  /\ l \in Nat /\ m \in 0 .. l /\ c \in Block(l) /\ s \in Tuples(Elements, m)
  /\ \A i \in 1 .. m : c[i] = s[i]

(* What they hold is s. *)
LEMMA ContentIs ==
  ASSUME NEW c, NEW m, NEW s, NEW l, Holds(c, m, s, l)
  PROVE  SubSeq(c, 1, m) = s
<1>1. PICK q : q = SubSeq(c, 1, m)
  OBVIOUS
<1>2. l \in Nat /\ m \in Nat /\ m \in 0 .. l /\ c \in Tuples(Elements, l) /\ s \in Tuples(Elements, m)
      /\ \A i \in 1 .. m : c[i] = s[i]
  BY DEF Holds, Block, Tuples
<1>3. Part(q, Elements, c, 0, m)
  BY <1>2, <1>1, FirstPart
<1>4. q \in Tuples(Elements, m) /\ \A i \in 1 .. m : q[i] = s[i]
  BY <1>2, <1>3 DEF Part
<1>5. q = s
  BY <1>2, <1>4, SameTuples
<1>6. QED
  BY <1>5, <1>1

(* So do n of them that are written anew. *)
LEMMA PaddedHolds ==
  ASSUME NEW m \in Nat, NEW s \in Tuples(Elements, m), NEW n \in Nat, m <= n,
         NEW d, d = s \o [i \in 1 .. n - m |-> Raw]
  PROVE  Holds(d, m, s, n)
<1>1. PICK y : y = [i \in 1 .. n - m |-> Raw]
  OBVIOUS
<1>2. PICK k \in Nat : k = n - m
  OBVIOUS
<1>3. y \in Tuples(Elements, k)
  BY <1>1, <1>2 DEF Tuples, Elements
<1>4. n = m + k /\ d = s \o y
  BY <1>1, <1>2
<1>5. Concat(d, Elements, n, s, m, y, k)
  BY <1>3, <1>4, ConcatIs
<1>6. d \in Block(n) /\ \A i \in 1 .. m : d[i] = s[i]
  BY <1>5 DEF Concat, Block, Tuples
<1>7. m \in 0 .. n
  OBVIOUS
<1>8. QED
  BY <1>6, <1>7 DEF Holds

(* New memory holds what the old did. *)
LEMMA MovedHolds ==
  ASSUME NEW c, NEW m, NEW s, NEW l, Holds(c, m, s, l), NEW n \in Nat, m <= n,
         NEW d, d = SubSeq(c, 1, m) \o [i \in 1 .. n - m |-> Raw]
  PROVE  Holds(d, m, s, n)
<1>1. SubSeq(c, 1, m) = s
  BY ContentIs
<1>2. d = s \o [i \in 1 .. n - m |-> Raw]
  BY <1>1
<1>3. m \in Nat /\ s \in Tuples(Elements, m)
  BY DEF Holds
<1>4. QED
  BY <1>2, <1>3, PaddedHolds

(* Cells that hold the elements before it, new ones, and then the rest. *)
Opens(c, d, m, it, n, l) ==
  /\ d \in Block(l)
  /\ \A i \in 1 .. it : d[i] = c[i]
  /\ \A i \in it + n + 1 .. m + n : d[i] = c[i - n]

(* With the new elements in the gap they hold s with those inserted. *)
LEMMA InsertHolds ==
  ASSUME NEW c, NEW m, NEW s, NEW l, Holds(c, m, s, l), NEW n \in Nat, NEW vals \in Tuples(Elements, n),
         NEW it \in 0 .. m, NEW j, j = m + n, j <= l, NEW d, Opens(c, d, m, it, n, l),
         \A i \in 1 .. n : d[it + i] = vals[i],
         NEW q, q = SubSeq(s, 1, it) \o vals \o SubSeq(s, it + 1, Len(s))
  PROVE  Holds(d, j, q, l)
<1>1. l \in Nat /\ m \in Nat /\ m <= l /\ s \in Tuples(Elements, m)
      /\ \A i \in 1 .. m : c[i] = s[i]
  BY DEF Holds
<1>2. With(q, Elements, j, s, it, vals, n)
  BY <1>1, InsertedIs
<1>3. q \in Tuples(Elements, j) /\ (\A i \in 1 .. it : q[i] = s[i])
      /\ (\A i \in 1 .. n : q[it + i] = vals[i]) /\ (\A i \in it + n + 1 .. j : q[i] = s[i - n])
  BY <1>2 DEF With
<1>4. d \in Block(l) /\ (\A i \in 1 .. it : d[i] = c[i])
      /\ (\A i \in it + n + 1 .. j : d[i] = c[i - n])
  BY DEF Opens
<1>5. ASSUME NEW i \in 1 .. j PROVE d[i] = q[i]
  <2>1. CASE i <= it
    <3>1. i \in 1 .. it /\ i \in 1 .. m
      BY <1>1, <2>1
    <3>2. QED
      BY <1>1, <1>3, <1>4, <3>1
  <2>2. CASE it < i /\ i <= it + n
    <3>1. i - it \in 1 .. n /\ it + (i - it) = i
      BY <1>1, <2>2
    <3>2. QED
      BY <1>3, <3>1
  <2>3. CASE it + n < i
    <3>1. i \in it + n + 1 .. j /\ i - n \in 1 .. m
      BY <1>1, <2>3
    <3>2. QED
      BY <1>1, <1>3, <1>4, <3>1
  <2>4. i <= it \/ (it < i /\ i <= it + n) \/ it + n < i
    <3>1. i \in Int /\ it \in Int /\ n \in Int
      BY <1>1
    <3>2. QED
      BY <3>1
  <2>5. QED
    BY <2>1, <2>2, <2>3, <2>4
<1>6. j \in 0 .. l
  BY <1>1
<1>7. QED
  BY <1>1, <1>3, <1>4, <1>5, <1>6 DEF Holds

(* And where what follows is what the cells hold by then. *)
LEMMA InsertHoldsRest ==
  ASSUME NEW c, NEW m, NEW s, NEW l, Holds(c, m, s, l), NEW n \in Nat, NEW vals \in Tuples(Elements, n),
         NEW it \in 0 .. m, NEW j, j = m + n, j <= l, NEW d \in Block(l),
         \A i \in 1 .. it : d[i] = c[i], \A i \in 1 .. n : d[it + i] = vals[i],
         NEW q, q = SubSeq(s, 1, it) \o vals \o SubSeq(d, it + n + 1, j)
  PROVE  Holds(d, j, q, l)
<1>1. l \in Nat /\ m \in Nat /\ m <= l /\ s \in Tuples(Elements, m) /\ it \in Nat /\ j \in Nat
      /\ \A i \in 1 .. m : c[i] = s[i]
  BY DEF Holds
<1>2. PICK x : x = SubSeq(s, 1, it)
  OBVIOUS
<1>3. PICK b \in Nat : b = it + n
  BY <1>1
<1>4. PICK h : h = b + 1
  OBVIOUS
<1>5. PICK y : y = SubSeq(d, h, j)
  OBVIOUS
<1>6. PICK z : z = x \o vals
  OBVIOUS
<1>7. q = z \o y
  BY <1>2, <1>3, <1>4, <1>5, <1>6
<1>8. PICK a \in Nat : a = j - b
  BY <1>1, <1>3
<1>9. x \in Tuples(Elements, it) /\ \A i \in 1 .. it : x[i] = s[i]
  <2>1. Part(x, Elements, s, 0, it)
    BY <1>1, <1>2, FirstPart
  <2>2. QED
    BY <2>1 DEF Part
<1>10. y \in Tuples(Elements, a) /\ \A i \in 1 .. a : y[i] = d[b + i]
  <2>1. b \in 0 .. l /\ j \in b .. l /\ d \in Tuples(Elements, l)
    BY <1>1, <1>3 DEF Block, Tuples
  <2>2. Part(y, Elements, d, b, a)
    BY <1>1, <1>4, <1>5, <1>8, <2>1, PartIs
  <2>3. QED
    BY <2>2 DEF Part
<1>11. Concat(z, Elements, b, x, it, vals, n)
  BY <1>1, <1>3, <1>6, <1>9, ConcatIs
<1>12. Concat(q, Elements, j, z, b, y, a)
  <2>1. z \in Tuples(Elements, b) /\ j = b + a
    BY <1>1, <1>3, <1>8, <1>11 DEF Concat
  <2>2. QED
    BY <1>7, <1>10, <2>1, ConcatIs
<1>13. q \in Tuples(Elements, j) /\ (\A i \in 1 .. b : q[i] = z[i]) /\ (\A i \in 1 .. a : q[b + i] = y[i])
       /\ (\A i \in 1 .. it : z[i] = x[i]) /\ (\A i \in 1 .. n : z[it + i] = vals[i])
  BY <1>11, <1>12 DEF Concat
<1>14. ASSUME NEW i \in 1 .. j PROVE d[i] = q[i]
  <2>1. CASE i <= it
    <3>1. i \in 1 .. it /\ i \in 1 .. b /\ i \in 1 .. m
      BY <1>1, <1>3, <2>1
    <3>2. QED
      BY <1>1, <1>9, <1>13, <3>1
  <2>2. CASE it < i /\ i <= b
    <3>1. PICK k \in 1 .. n : i = it + k
      <4>1. i - it \in 1 .. n /\ i = it + (i - it)
        BY <1>1, <1>3, <2>2
      <4>2. QED
        BY <4>1
    <3>2. i \in 1 .. b
      BY <1>1, <1>3, <2>2
    <3>3. q[i] = z[i] /\ z[i] = vals[k] /\ d[i] = vals[k]
      BY <1>13, <3>1, <3>2
    <3>4. QED
      BY <3>3
  <2>3. CASE b < i
    <3>1. PICK k \in 1 .. a : i = b + k
      <4>1. i \in Int /\ i <= j /\ b \in Nat
        BY <1>1
      <4>2. i - b \in 1 .. a /\ i = b + (i - b)
        BY <1>1, <1>8, <2>3, <4>1
      <4>3. QED
        BY <4>2
    <3>2. q[i] = y[k] /\ y[k] = d[i]
      BY <1>10, <1>13, <3>1
    <3>3. QED
      BY <3>2
  <2>4. i <= it \/ (it < i /\ i <= b) \/ b < i
    <3>1. i \in Int /\ it \in Int /\ b \in Int
      BY <1>1
    <3>2. QED
      BY <3>1
  <2>5. QED
    BY <2>1, <2>2, <2>3, <2>4
<1>15. j \in 0 .. l
  BY <1>1
<1>16. QED
  BY <1>1, <1>13, <1>14, <1>15 DEF Holds

-----------------------------------------------------------------------------
(* The vector                                                                *)

(* The vectors that hold s, of m elements, and their cells. *)
VectorsOf(m, s) ==
  {t \in [cells : Seq(Elements), size : Nat] : t.size = m /\ Holds(t.cells, m, s, Len(t.cells))}

LEMMA VectorIs ==
  ASSUME NEW m \in Nat, NEW s, NEW t \in VectorsOf(m, s)
  PROVE  \E c, l : /\ t = [cells |-> c, size |-> m] /\ l = Len(c) /\ c = t.cells
                   /\ Holds(c, m, s, l) /\ Array!Capacity(t) = l /\ t.size = m
<1>1. t = [cells |-> t.cells, size |-> m] /\ t.size = m /\ Holds(t.cells, m, s, Len(t.cells))
  BY DEF VectorsOf
<1>2. QED
  BY <1>1 DEF Array!Capacity

LEMMA IsVector ==
  ASSUME NEW m \in Nat, NEW s, NEW c, NEW l, Holds(c, m, s, l), NEW t, t = [cells |-> c, size |-> m]
  PROVE  t \in VectorsOf(m, s)
<1>1. l \in Nat /\ c \in Tuples(Elements, l)
  BY DEF Holds, Block, Tuples
<1>2. c \in Seq(Elements) /\ Len(c) = l
  BY <1>1, TupleIs
<1>3. QED
  BY <1>2 DEF VectorsOf

(* A block of n cells, for the elements there are. *)
LEMMA MovedVector ==
  ASSUME NEW m \in Nat, NEW s, NEW t \in VectorsOf(m, s), NEW n \in Nat, m <= n,
         NEW u, u = Array!Moved(t, n)
  PROVE  u \in VectorsOf(m, s) /\ Array!Capacity(u) = n
<1>1. PICK c, l : /\ t = [cells |-> c, size |-> m] /\ l = Len(c) /\ c = t.cells
                  /\ Holds(c, m, s, l) /\ Array!Capacity(t) = l /\ t.size = m
  BY VectorIs
<1>2. PICK d : d = SubSeq(c, 1, m) \o [i \in 1 .. n - m |-> Raw]
  OBVIOUS
<1>3. u = [cells |-> d, size |-> m]
  BY <1>1, <1>2 DEF Array!Moved
<1>4. Holds(d, m, s, n)
  BY <1>1, <1>2, MovedHolds
<1>5. u \in VectorsOf(m, s)
  BY <1>3, <1>4, IsVector
<1>6. Len(d) = n
  <2>1. d \in Tuples(Elements, n)
    BY <1>4 DEF Holds, Block, Tuples
  <2>2. QED
    BY <2>1, TupleIs
<1>7. QED
  BY <1>3, <1>5, <1>6 DEF Array!Capacity

(* A larger block, as the vector asks for it when the old one is full. *)
LEMMA RequestMem ==
  ASSUME NEW m \in Nat, NEW s, NEW t \in VectorsOf(m, s), NEW u, u = Array!request_mem(t)
  PROVE  u \in VectorsOf(m, s) /\ Array!Capacity(t) \in Nat /\ Array!Capacity(u) >= Array!Capacity(t) + 1
<1>1. PICK c, l : /\ t = [cells |-> c, size |-> m] /\ l = Len(c) /\ c = t.cells
                  /\ Holds(c, m, s, l) /\ Array!Capacity(t) = l /\ t.size = m
  BY VectorIs
<1>2. l \in Nat /\ m <= l
  BY <1>1 DEF Holds
<1>3. PICK n : n = IF l = 0 THEN 1 ELSE 2 * l
  OBVIOUS
<1>4. n \in Nat /\ n >= l + 1 /\ m <= n
  BY <1>2, <1>3
<1>5. u = Array!Moved(t, n)
  BY <1>1, <1>3 DEF Array!request_mem
<1>6. QED
  BY <1>1, <1>2, <1>4, <1>5, MovedVector

(* Asking for memory until there is enough of it ends with enough of it. *)
LEMMA WithRoomIs ==
  ASSUME NEW m \in Nat, NEW s, NEW t \in VectorsOf(m, s), NEW n \in Nat, NEW u, u = Array!WithRoom(t, n)
  PROVE  \E c, l : u = [cells |-> c, size |-> m] /\ Holds(c, m, s, l) /\ m + n <= l
<1> DEFINE B(w) == IF Array!Fits(w, n) THEN w ELSE Array!request_mem(w)
           turns == t.size + n
           F == [x \in (1 .. turns) \X VectorsOf(m, s) |-> B(x[2])]
           T(g) == g = [k \in 0 .. turns |-> IF k = 0 THEN t ELSE B(g[k - 1])]
           f == CHOOSE g : T(g)
<1>1. turns \in Nat /\ turns = m + n
  BY DEF VectorsOf
<1>2. u = f[turns]
  BY DEF Array!WithRoom
<1>3. ASSUME NEW w \in VectorsOf(m, s)
      PROVE  /\ B(w) \in VectorsOf(m, s) /\ Array!Capacity(w) \in Nat
             /\ m + n <= Array!Capacity(w) => B(w) = w
             /\ ~(m + n <= Array!Capacity(w)) => Array!Capacity(B(w)) >= Array!Capacity(w) + 1
  <2>1. w.size = m
    BY DEF VectorsOf
  <2>2. PICK x : x = Array!request_mem(w)
    OBVIOUS
  <2>3. x \in VectorsOf(m, s) /\ Array!Capacity(w) \in Nat /\ Array!Capacity(x) >= Array!Capacity(w) + 1
    BY <2>2, RequestMem
  <2>4. QED
    BY <2>1, <2>2, <2>3 DEF Array!Fits
<1> HIDE DEF B, turns
<1>4. \A k \in 1 .. turns : \A h \in VectorsOf(m, s) : F[<<k, h>>] \in VectorsOf(m, s) /\ F[<<k, h>>] = B(h)
  BY <1>3
<1> HIDE DEF F
<1>5. PICK g \in [0 .. turns -> VectorsOf(m, s)] : Runs(g, turns, t, F)
  BY <1>1, <1>4, TurnsExist
<1>6. \A k \in 1 .. turns : g[k] = B(g[k - 1])
  <2>1. \A k \in 1 .. turns : g[k - 1] \in VectorsOf(m, s)
    BY <1>1, <1>5
  <2>2. QED
    BY <1>4, <1>5, <2>1 DEF Runs
<1>7. T(g)
  <2>1. \A k \in 0 .. turns : g[k] = IF k = 0 THEN t ELSE B(g[k - 1])
    BY <1>1, <1>5, <1>6 DEF Runs
  <2>2. QED
    BY <1>5, <2>1
<1>8. T(f)
  BY <1>7
<1> HIDE DEF f
<1>9. f[0] = t /\ \A k \in 1 .. turns : f[k] = B(f[k - 1])
  <2>1. \A k \in 0 .. turns : f[k] = IF k = 0 THEN t ELSE B(f[k - 1])
    BY <1>8
  <2> HIDE DEF T
  <2>2. 0 \in 0 .. turns /\ \A k \in 1 .. turns : k \in 0 .. turns /\ k # 0
    BY <1>1
  <2>3. QED
    BY <2>1, <2>2
<1> DEFINE G == {k \in 0 .. turns : f[k] \in VectorsOf(m, s)
                    /\ (m + n <= Array!Capacity(f[k]) \/ k <= Array!Capacity(f[k]))}
<1>10. 0 \in G
  BY <1>1, <1>3, <1>9
<1>11. ASSUME NEW k \in 1 .. turns, k - 1 \in G PROVE k \in G
  <2>1. f[k - 1] \in VectorsOf(m, s) /\ f[k] = B(f[k - 1])
        /\ (m + n <= Array!Capacity(f[k - 1]) \/ k - 1 <= Array!Capacity(f[k - 1]))
    BY <1>9, <1>11
  <2>2. f[k] \in VectorsOf(m, s) /\ Array!Capacity(f[k]) \in Nat
    BY <1>3, <2>1
  <2>3. m + n <= Array!Capacity(f[k]) \/ k <= Array!Capacity(f[k])
    <3>1. CASE m + n <= Array!Capacity(f[k - 1])
      BY <1>3, <2>1, <3>1
    <3>2. CASE ~(m + n <= Array!Capacity(f[k - 1]))
      <4>1. Array!Capacity(f[k]) >= Array!Capacity(f[k - 1]) + 1 /\ Array!Capacity(f[k - 1]) \in Nat
        BY <1>3, <2>1, <3>2
      <4>2. k - 1 <= Array!Capacity(f[k - 1])
        BY <2>1, <3>2
      <4>3. QED
        BY <1>1, <2>2, <4>1, <4>2
    <3>3. QED
      BY <3>1, <3>2
  <2>4. k \in 0 .. turns
    BY <1>1
  <2>5. QED
    BY <2>2, <2>3, <2>4
<1> HIDE DEF G
<1>12. \A k \in 0 .. turns : k \in G
  BY <1>1, <1>10, <1>11, UpTo
<1>13. u \in VectorsOf(m, s) /\ m + n <= Array!Capacity(u)
  <2>1. turns \in G
    BY <1>1, <1>12
  <2>2. QED
    BY <1>1, <1>2, <2>1 DEF G
<1>14. PICK c, l : /\ u = [cells |-> c, size |-> m] /\ l = Len(c) /\ c = u.cells
                   /\ Holds(c, m, s, l) /\ Array!Capacity(u) = l /\ u.size = m
  BY <1>13, VectorIs
<1>15. QED
  BY <1>13, <1>14

(* Moving the elements behind an insertion opens a gap for it. *)
LEMMA OpenedIs ==
  ASSUME NEW c, NEW m, NEW s, NEW l, Holds(c, m, s, l), NEW n \in Nat, m + n <= l, NEW it \in 0 .. m,
         NEW e \in Block(l), \A i \in 1 .. m : e[i] = c[i],
         NEW u, u = [cells |-> e, size |-> m], NEW d, d = Array!Opened(u, it, n)
  PROVE  Opens(c, d, m, it, n, l)
<1>1. l \in Nat /\ m \in Nat /\ m <= l /\ it \in Nat /\ it <= m
  BY DEF Holds
<1>2. PICK a \in Nat : a = m - it
  BY <1>1
<1>3. PICK res \in Nat : res = it + n
  BY <1>1
<1>4. m = it + a /\ Within2(l, it, a, res)
  BY <1>1, <1>2, <1>3 DEF Within2
<1>5. \E f \in Block(l) : (\A i \in 1 .. m : f[i] = c[i]) /\ Shifted(f, d, it, a, res, l)
  <2>1. CASE res > m
    <3>1. d = Array!copy(e, it, m, res)
      BY <1>3, <2>1 DEF Array!Opened
    <3>2. m = it + a /\ (res <= it \/ m <= res)
      BY <1>1, <1>3, <1>4, <2>1
    <3>3. Shifted(e, d, it, a, res, l)
      BY <1>4, <3>1, <3>2, CopyIs
    <3>4. QED
      BY <3>3
  <2>2. CASE ~(res > m)
    <3>1. PICK f : f = Array!copy(e, m, m, m)
      OBVIOUS
    <3>2. d = Array!reverse_copy(f, it, m, res)
      BY <1>3, <2>2, <3>1 DEF Array!Opened, Array!Minus
    <3>3. PICK z : z = 0
      OBVIOUS
    <3>4. Within2(l, m, z, m) /\ m = m + z /\ (m <= m \/ m <= m)
      BY <1>1, <3>3 DEF Within2
    <3>5. Shifted(e, f, m, z, m, l)
      BY <3>1, <3>4, CopyIs
    <3>6. f \in Block(l) /\ \A i \in 1 .. m : f[i] = c[i]
      <4>1. \A i \in 1 .. m : i \in 1 .. l /\ ~(m < i /\ i <= m + z)
        BY <1>1, <3>3
      <4>2. QED
        BY <3>5, <4>1 DEF Shifted
    <3>7. m = it + a /\ it <= res
      BY <1>1, <1>3, <1>4
    <3>8. Shifted(f, d, it, a, res, l)
      BY <1>4, <3>2, <3>6, <3>7, ReverseCopyIs
    <3>9. QED
      BY <3>6, <3>8
  <2>3. QED
    BY <2>1, <2>2
<1>6. PICK f \in Block(l) : (\A i \in 1 .. m : f[i] = c[i]) /\ Shifted(f, d, it, a, res, l)
  BY <1>5
<1>7. d \in Block(l) /\ \A i \in 1 .. l : d[i] = IF res < i /\ i <= res + a THEN f[it + (i - res)] ELSE f[i]
  BY <1>6 DEF Shifted
<1>8. \A i \in 1 .. it : d[i] = c[i]
  <2>1. \A i \in 1 .. it : i \in 1 .. l /\ i \in 1 .. m /\ ~(res < i /\ i <= res + a)
    BY <1>1, <1>3
  <2>2. QED
    BY <1>6, <1>7, <2>1
<1>9. ASSUME NEW i \in it + n + 1 .. m + n PROVE d[i] = c[i - n]
  <2>1. i \in 1 .. l /\ i - n \in 1 .. m /\ res < i /\ i <= res + a /\ it + (i - res) = i - n
    BY <1>1, <1>2, <1>3
  <2>2. QED
    BY <1>6, <1>7, <2>1
<1>10. QED
  BY <1>7, <1>8, <1>9 DEF Opens

(* s with vals behind its first it elements. *)
Inserted(s, it, vals) == SubSeq(s, 1, it) \o vals \o SubSeq(s, it + 1, Len(s))

LEMMA One ==
  ASSUME NEW v \in Elements, NEW n, n = 1, NEW vals, vals = <<v>>
  PROVE  vals \in Tuples(Elements, n) /\ \A i \in 1 .. n : vals[i] = v
BY DEF Tuples

(* Insertion of one element, of n equal ones, and of a range. *)
LEMMA InsertOneIs ==
  ASSUME NEW m \in Nat, NEW s, NEW t \in VectorsOf(m, s), NEW it \in 0 .. m, NEW v \in Elements,
         NEW j, j = m + 1, NEW q, q = Inserted(s, it, <<v>>), NEW r, r = Array!InsertOne(t, it, v)
  PROVE  r \in VectorsOf(j, q)
<1>1. PICK n \in Nat : n = 1
  OBVIOUS
<1>2. PICK u : u = Array!WithRoom(t, n)
  OBVIOUS
<1>3. PICK c, l : u = [cells |-> c, size |-> m] /\ Holds(c, m, s, l) /\ m + n <= l
  BY <1>2, WithRoomIs
<1>4. l \in Nat /\ c \in Block(l) /\ it \in Nat /\ it <= m /\ j \in Nat /\ j = m + n /\ j <= l
  BY <1>1, <1>3 DEF Holds
<1>5. PICK w : w = Array!At(c, m - 1)
  OBVIOUS
<1>6. w \in Elements
  <2>1. DOMAIN c = 1 .. l /\ Len(c) = l /\ \A i \in 1 .. l : c[i] \in Elements
    BY <1>4 DEF Block
  <2>2. m - 1 \in 0 .. l - 1 => (m - 1) + 1 \in 1 .. l
    BY <1>4
  <2>3. Raw \in Elements
    BY DEF Elements
  <2>4. QED
    BY <1>5, <2>1, <2>2, <2>3 DEF Array!At
<1>7. PICK e : e = Array!Put(c, m, w)
  OBVIOUS
<1>8. e \in Block(l) /\ \A i \in 1 .. l : e[i] = IF i = m + 1 THEN w ELSE c[i]
  <2>1. m \in 0 .. l - 1
    BY <1>1, <1>3, <1>4
  <2>2. QED
    BY <1>4, <1>6, <1>7, <2>1, PutIs
<1>9. PICK k : k = it + 1
  OBVIOUS
<1>10. PICK f : f = Array!reverse_copy(e, it, m, k)
  OBVIOUS
<1>11. PICK a \in Nat : a = m - it
  BY <1>4
<1>12. Within2(l, it, a, k) /\ m = it + a /\ it <= k
  BY <1>1, <1>4, <1>9, <1>11 DEF Within2
<1>13. Shifted(e, f, it, a, k, l)
  BY <1>8, <1>10, <1>12, ReverseCopyIs
<1>14. f \in Block(l) /\ \A i \in 1 .. l : f[i] = IF k < i /\ i <= k + a THEN e[it + (i - k)] ELSE e[i]
  BY <1>13 DEF Shifted
<1>15. PICK d : d = Array!Put(f, it, v)
  OBVIOUS
<1>16. d \in Block(l) /\ \A i \in 1 .. l : d[i] = IF i = it + 1 THEN v ELSE f[i]
  <2>1. it \in 0 .. l - 1
    BY <1>1, <1>3, <1>4
  <2>2. QED
    BY <1>4, <1>14, <1>15, <2>1, PutIs
<1>17. r = [cells |-> d, size |-> j]
  <2>1. u.size = m /\ u.cells = c
    BY <1>3
  <2>2. QED
    BY <1>1, <1>2, <1>5, <1>7, <1>9, <1>10, <1>15, <2>1 DEF Array!InsertOne, Array!Minus
<1>18. Opens(c, d, m, it, n, l)
  <2>1. \A i \in 1 .. it : d[i] = c[i]
    <3>1. \A i \in 1 .. it : i \in 1 .. l /\ i # it + 1 /\ i # m + 1 /\ ~(k < i /\ i <= k + a)
      BY <1>4, <1>9
    <3>2. QED
      BY <1>8, <1>14, <1>16, <3>1
  <2>2. ASSUME NEW i \in it + n + 1 .. m + n PROVE d[i] = c[i - n]
    <3>1. i \in 1 .. l /\ i # it + 1 /\ k < i /\ i <= k + a /\ it + (i - k) = i - n
      BY <1>1, <1>3, <1>4, <1>9, <1>11
    <3>2. i - n \in 1 .. l /\ i - n # m + 1
      BY <1>1, <1>3, <1>4
    <3>3. d[i] = f[i] /\ f[i] = e[i - n] /\ e[i - n] = c[i - n]
      BY <1>8, <1>14, <1>16, <3>1, <3>2
    <3>4. QED
      BY <3>3
  <2>3. QED
    BY <1>16, <2>1, <2>2 DEF Opens
<1>19. PICK vals : vals = <<v>>
  OBVIOUS
<1>20. vals \in Tuples(Elements, n) /\ \A i \in 1 .. n : vals[i] = v
  BY <1>1, <1>19, One
<1>21. \A i \in 1 .. n : d[it + i] = vals[i]
  <2>1. \A i \in 1 .. n : i = 1
    BY <1>1
  <2>2. it + 1 \in 1 .. l
    BY <1>4
  <2>3. QED
    BY <1>16, <1>20, <2>1, <2>2
<1>22. q = SubSeq(s, 1, it) \o vals \o SubSeq(s, it + 1, Len(s))
  BY <1>19 DEF Inserted
<1>23. Holds(d, j, q, l)
  BY <1>3, <1>4, <1>18, <1>20, <1>21, <1>22, InsertHolds
<1>24. QED
  BY <1>4, <1>17, <1>23, IsVector

LEMMA InsertCopiesIs ==
  ASSUME NEW m \in Nat, NEW s, NEW t \in VectorsOf(m, s), NEW it \in 0 .. m, NEW v \in Elements,
         NEW n \in Nat, NEW j, j = m + n, NEW q, q = Inserted(s, it, [i \in 1 .. n |-> v]),
         n # 0, NEW r, r = Array!InsertCopies(t, it, v, n)
  PROVE  r \in VectorsOf(j, q)
<1>1. PICK u : u = Array!WithRoom(t, n)
  OBVIOUS
<1>2. PICK c, l : u = [cells |-> c, size |-> m] /\ Holds(c, m, s, l) /\ m + n <= l
  BY <1>1, WithRoomIs
<1>3. l \in Nat /\ c \in Block(l) /\ it \in Nat /\ it <= m /\ j \in Nat /\ j <= l
  BY <1>2 DEF Holds
<1>4. PICK k \in Nat : k = it + n
  BY <1>3
<1>5. PICK e : e = IF k > m THEN Array!fill(c, m, k, v) ELSE c
  OBVIOUS
<1>6. e \in Block(l) /\ \A i \in 1 .. m : e[i] = c[i]
  <2>1. CASE k > m
    <3>1. e = Array!fill(c, m, k, v)
      BY <1>5, <2>1
    <3>2. Filled(c, e, m, k, v, l)
      BY <1>3, <3>1, FillIs
    <3>3. e \in Block(l) /\ \A i \in 1 .. l : e[i] = IF m < i /\ i <= k THEN v ELSE c[i]
      BY <3>2 DEF Filled
    <3>4. \A i \in 1 .. m : i \in 1 .. l /\ ~(m < i /\ i <= k)
      BY <1>2, <1>3
    <3>5. QED
      BY <3>3, <3>4
  <2>2. CASE ~(k > m)
    BY <1>3, <1>5, <2>2
  <2>3. QED
    BY <2>1, <2>2
<1>7. PICK w : w = [cells |-> e, size |-> m]
  OBVIOUS
<1>8. PICK f : f = Array!Opened(w, it, n)
  OBVIOUS
<1>9. Opens(c, f, m, it, n, l)
  BY <1>2, <1>6, <1>7, <1>8, OpenedIs
<1>10. PICK d : d = Array!fill(f, it, k, v)
  OBVIOUS
<1>11. d \in Block(l) /\ \A i \in 1 .. l : d[i] = IF it < i /\ i <= k THEN v ELSE f[i]
  <2>1. f \in Block(l)
    BY <1>9 DEF Opens
  <2>2. Filled(f, d, it, k, v, l)
    BY <1>3, <1>10, <2>1, FillIs
  <2>3. QED
    BY <2>2 DEF Filled
<1>12. r = [cells |-> d, size |-> j]
  <2>1. u.size = m /\ u.cells = c /\ [u EXCEPT !.cells = e] = w
    BY <1>2, <1>7
  <2>2. e = IF it + n > m THEN Array!fill(c, m, it + n, v) ELSE c
    BY <1>4, <1>5
  <2>3. r = LET ahead == [u EXCEPT !.cells = IF it + n > u.size THEN Array!fill(@, u.size, it + n, v) ELSE @]
            IN  [cells |-> Array!fill(Array!Opened(ahead, it, n), it, it + n, v), size |-> u.size + n]
    BY <1>1 DEF Array!InsertCopies
  <2>4. QED
    BY <1>4, <1>8, <1>10, <2>1, <2>2, <2>3
<1>13. Opens(c, d, m, it, n, l)
  <2>1. (\A i \in 1 .. it : f[i] = c[i]) /\ (\A i \in it + n + 1 .. m + n : f[i] = c[i - n])
    BY <1>9 DEF Opens
  <2>2. \A i \in 1 .. it : i \in 1 .. l /\ ~(it < i /\ i <= k)
    BY <1>2, <1>3
  <2>3. \A i \in it + n + 1 .. m + n : i \in 1 .. l /\ ~(it < i /\ i <= k)
    BY <1>2, <1>3, <1>4
  <2>4. \A i \in 1 .. it : d[i] = c[i]
    BY <1>11, <2>1, <2>2
  <2>5. \A i \in it + n + 1 .. m + n : d[i] = c[i - n]
    BY <1>11, <2>1, <2>3
  <2>6. QED
    BY <1>11, <2>4, <2>5 DEF Opens
<1>14. PICK vals : vals = [i \in 1 .. n |-> v]
  OBVIOUS
<1>15. vals \in Tuples(Elements, n)
  BY <1>14 DEF Tuples
<1>16. \A i \in 1 .. n : d[it + i] = vals[i]
  <2>1. \A i \in 1 .. n : it + i \in 1 .. l /\ it < it + i /\ it + i <= k
    BY <1>2, <1>3, <1>4
  <2>2. QED
    BY <1>11, <1>14, <2>1
<1>17. q = SubSeq(s, 1, it) \o vals \o SubSeq(s, it + 1, Len(s))
  BY <1>14 DEF Inserted
<1>18. Holds(d, j, q, l)
  BY <1>2, <1>3, <1>13, <1>15, <1>16, <1>17, InsertHolds
<1>19. QED
  BY <1>3, <1>12, <1>18, IsVector

LEMMA InsertRangeIs ==
  ASSUME NEW m \in Nat, NEW s, NEW t \in VectorsOf(m, s), NEW it \in 0 .. m,
         NEW n \in Nat, NEW vals \in Tuples(Elements, n), NEW j, j = m + n,
         NEW q, q = Inserted(s, it, vals), NEW r, r = Array!InsertRange(t, it, vals)
  PROVE  r \in VectorsOf(j, q)
<1>1. Len(vals) = n
  BY TupleIs
<1>2. PICK u : u = Array!WithRoom(t, n)
  OBVIOUS
<1>3. PICK c, l : u = [cells |-> c, size |-> m] /\ Holds(c, m, s, l) /\ m + n <= l
  BY <1>2, WithRoomIs
<1>4. l \in Nat /\ c \in Block(l) /\ it \in Nat /\ it <= m /\ j \in Nat /\ j <= l
  BY <1>3 DEF Holds
<1>5. PICK f : f = Array!Opened(u, it, n)
  OBVIOUS
<1>6. Opens(c, f, m, it, n, l)
  BY <1>3, <1>4, <1>5, OpenedIs
<1>7. PICK d : d = Array!CopyIn(f, vals, it)
  OBVIOUS
<1>8. Overlaid(f, d, vals, n, it, l)
  <2>1. f \in Block(l)
    BY <1>6 DEF Opens
  <2>2. QED
    BY <1>4, <1>7, <2>1, CopyInIs
<1>9. d \in Block(l) /\ \A i \in 1 .. l : d[i] = IF it < i /\ i <= it + n THEN vals[i - it] ELSE f[i]
  BY <1>8 DEF Overlaid
<1>10. r = [cells |-> d, size |-> j]
  <2>1. u.size = m
    BY <1>3
  <2>2. QED
    BY <1>1, <1>2, <1>5, <1>7, <2>1 DEF Array!InsertRange
<1>11. Opens(c, d, m, it, n, l)
  <2>1. (\A i \in 1 .. it : f[i] = c[i]) /\ (\A i \in it + n + 1 .. m + n : f[i] = c[i - n])
    BY <1>6 DEF Opens
  <2>2. \A i \in 1 .. it : i \in 1 .. l /\ ~(it < i /\ i <= it + n)
    BY <1>3, <1>4
  <2>3. \A i \in it + n + 1 .. m + n : i \in 1 .. l /\ ~(it < i /\ i <= it + n)
    BY <1>3, <1>4
  <2>4. \A i \in 1 .. it : d[i] = c[i]
    BY <1>9, <2>1, <2>2
  <2>5. \A i \in it + n + 1 .. m + n : d[i] = c[i - n]
    BY <1>9, <2>1, <2>3
  <2>6. QED
    BY <1>9, <2>4, <2>5 DEF Opens
<1>12. \A i \in 1 .. n : d[it + i] = vals[i]
  <2>1. \A i \in 1 .. n : it + i \in 1 .. l /\ it < it + i /\ it + i <= it + n /\ (it + i) - it = i
    BY <1>3, <1>4
  <2>2. QED
    BY <1>9, <2>1
<1>13. q = SubSeq(s, 1, it) \o vals \o SubSeq(s, it + 1, Len(s))
  BY DEF Inserted
<1>14. Holds(d, j, q, l)
  BY <1>3, <1>4, <1>11, <1>12, <1>13, InsertHolds
<1>15. QED
  BY <1>4, <1>10, <1>14, IsVector

(* Fewer elements in the same cells. *)
LEMMA FirstOnes ==
  ASSUME NEW c, NEW m, NEW s, NEW l, Holds(c, m, s, l), NEW n \in 0 .. m, NEW q \in Tuples(Elements, n),
         \A i \in 1 .. n : q[i] = s[i]
  PROVE  Holds(c, n, q, l)
<1>1. l \in Nat /\ m \in 0 .. l /\ c \in Block(l) /\ \A i \in 1 .. m : c[i] = s[i]
  BY DEF Holds
<1>2. n \in 0 .. l /\ \A i \in 1 .. n : i \in 1 .. m
  BY <1>1
<1>3. QED
  BY <1>1, <1>2 DEF Holds

(* q is s and then v. *)
AndThen(q, S, j, s, m, v) ==
  q \in Tuples(S, j) /\ Len(q) = j /\ (\A i \in 1 .. m : q[i] = s[i]) /\ q[j] = v

LEMMA AppendIs ==
  ASSUME NEW S, NEW m \in Nat, NEW s \in Tuples(S, m), NEW v \in S, NEW j, j = m + 1, NEW q, q = Append(s, v)
  PROVE  AndThen(q, S, j, s, m, v)
<1>1. s \in Seq(S) /\ Len(s) = m
  BY TupleIs
<1>2. q \in Seq(S) /\ Len(q) = j /\ q[j] = v /\ \A i \in 1 .. m : q[i] = s[i]
  BY <1>1
<1>3. q \in Tuples(S, j)
  BY <1>2, SequenceIs
<1>4. QED
  BY <1>2, <1>3 DEF AndThen

(* Without the last one. *)
LEMMA FrontIs ==
  ASSUME NEW S, NEW m \in Nat, NEW s \in Tuples(S, m), m # 0, NEW n, n = m - 1, NEW q, q = SubSeq(s, 1, Len(s) - 1)
  PROVE  n \in Nat /\ n \in 0 .. m /\ Part(q, S, s, 0, n)
<1>1. Len(s) = m
  BY TupleIs
<1>2. n \in 0 .. m /\ q = SubSeq(s, 1, n)
  BY <1>1
<1>3. Part(q, S, s, 0, n)
  BY <1>2, FirstPart
<1>4. QED
  BY <1>2, <1>3

(* A vector with one element more. *)
LEMMA EmplaceBackIs ==
  ASSUME NEW m \in Nat, NEW s, NEW t \in VectorsOf(m, s), NEW v \in Elements,
         NEW j, j = m + 1, NEW q, q = Append(s, v), NEW r, r = Array!emplace_back(t, v)
  PROVE  r \in VectorsOf(j, q)
<1>1. PICK n \in Nat : n = 1
  OBVIOUS
<1>2. PICK u : u = Array!WithRoom(t, n)
  OBVIOUS
<1>3. PICK c, l : u = [cells |-> c, size |-> m] /\ Holds(c, m, s, l) /\ m + n <= l
  BY <1>2, WithRoomIs
<1>4. l \in Nat /\ c \in Block(l) /\ j \in Nat /\ j <= l /\ s \in Tuples(Elements, m) /\ \A i \in 1 .. m : c[i] = s[i]
  BY <1>1, <1>3 DEF Holds
<1>5. PICK d : d = Array!Put(c, m, v)
  OBVIOUS
<1>6. d \in Block(l) /\ \A i \in 1 .. l : d[i] = IF i = m + 1 THEN v ELSE c[i]
  <2>1. m \in 0 .. l - 1
    BY <1>1, <1>3, <1>4
  <2>2. QED
    BY <1>4, <1>5, <2>1, PutIs
<1>7. AndThen(q, Elements, j, s, m, v)
  BY <1>4, AppendIs
<1>8. \A i \in 1 .. j : d[i] = q[i]
  <2>1. \A i \in 1 .. j : i \in 1 .. l /\ (i = m + 1 \/ (i \in 1 .. m /\ i # m + 1))
    BY <1>4
  <2>2. QED
    BY <1>4, <1>6, <1>7, <2>1 DEF AndThen
<1>9. Holds(d, j, q, l)
  BY <1>4, <1>6, <1>7, <1>8 DEF AndThen, Holds
<1>10. r = [cells |-> d, size |-> j]
  BY <1>1, <1>2, <1>3, <1>5 DEF Array!emplace_back
<1>11. QED
  BY <1>4, <1>9, <1>10, IsVector

(* Copying what follows a range over it leaves what is without it. *)
LEMMA ErasedHolds ==
  ASSUME NEW c, NEW m, NEW s, NEW l, Holds(c, m, s, l), NEW a \in 0 .. m, NEW b \in a .. m,
         NEW j, j = m - (b - a), NEW q, q = SubSeq(s, 1, a) \o SubSeq(s, b + 1, Len(s)),
         NEW d, d = Array!copy(c, b, m, a)
  PROVE  Holds(d, j, q, l)
<1>1. l \in Nat /\ m \in Nat /\ m <= l /\ c \in Block(l) /\ s \in Tuples(Elements, m)
      /\ \A i \in 1 .. m : c[i] = s[i]
  BY DEF Holds
<1>2. PICK n \in Nat : n = m - b
  BY <1>1
<1>3. Within2(l, b, n, a) /\ m = b + n /\ (a <= b \/ m <= a)
  BY <1>1, <1>2 DEF Within2
<1>4. Shifted(c, d, b, n, a, l)
  BY <1>1, <1>3, CopyIs
<1>5. d \in Block(l) /\ \A i \in 1 .. l : d[i] = IF a < i /\ i <= a + n THEN c[b + (i - a)] ELSE c[i]
  BY <1>4 DEF Shifted
<1>6. LessThose(q, Elements, j, s, a, b)
  BY <1>1, ErasedIs
<1>7. q \in Tuples(Elements, j) /\ (\A i \in 1 .. a : q[i] = s[i]) /\ \A i \in a + 1 .. j : q[i] = s[i + (b - a)]
  BY <1>6 DEF LessThose
<1>8. j \in Nat /\ j \in 0 .. l /\ j <= m
  BY <1>1
<1>9. ASSUME NEW i \in 1 .. j PROVE d[i] = q[i]
  <2>1. CASE i <= a
    <3>1. i \in 1 .. a /\ i \in 1 .. l /\ i \in 1 .. m /\ ~(a < i /\ i <= a + n)
      BY <1>1, <1>8, <2>1
    <3>2. QED
      BY <1>1, <1>5, <1>7, <3>1
  <2>2. CASE ~(i <= a)
    <3>1. i \in a + 1 .. j /\ i \in 1 .. l /\ a < i /\ i <= a + n /\ b + (i - a) = i + (b - a)
          /\ i + (b - a) \in 1 .. m
      BY <1>1, <1>2, <1>8, <2>2
    <3>2. QED
      BY <1>1, <1>5, <1>7, <3>1
  <2>3. QED
    BY <2>1, <2>2
<1>10. QED
  BY <1>1, <1>5, <1>7, <1>8, <1>9 DEF Holds

(* A vector without the elements of a range. *)
LEMMA EraseRangeIs ==
  ASSUME NEW m \in Nat, NEW s, NEW t \in VectorsOf(m, s), NEW a \in 0 .. m, NEW b \in a .. m,
         NEW j, j = m - (b - a), NEW q, q = SubSeq(s, 1, a) \o SubSeq(s, b + 1, Len(s)),
         NEW r, r = Array!EraseRange(t, a, b)
  PROVE  r \in VectorsOf(j, q)
<1>1. PICK c, l : /\ t = [cells |-> c, size |-> m] /\ l = Len(c) /\ c = t.cells
                  /\ Holds(c, m, s, l) /\ Array!Capacity(t) = l /\ t.size = m
  BY VectorIs
<1>2. PICK d : d = Array!copy(c, b, m, a)
  OBVIOUS
<1>3. r = [cells |-> d, size |-> j]
  BY <1>1, <1>2 DEF Array!EraseRange
<1>4. Holds(d, j, q, l)
  BY <1>1, <1>2, ErasedHolds
<1>5. j \in Nat
  OBVIOUS
<1>6. QED
  BY <1>3, <1>4, <1>5, IsVector

(* A vector of n elements: the first of the old ones, then v. *)
LEMMA ResizedIs ==
  ASSUME NEW m \in Nat, NEW s, NEW t \in VectorsOf(m, s), NEW n \in Nat, NEW v \in Elements,
         NEW q, q = [i \in 1 .. n |-> IF i <= Len(s) THEN s[i] ELSE v],
         NEW r, r = Array!Resized(t, n, v)
  PROVE  r \in VectorsOf(n, q)
<1>1. PICK c, l : /\ t = [cells |-> c, size |-> m] /\ l = Len(c) /\ c = t.cells
                  /\ Holds(c, m, s, l) /\ Array!Capacity(t) = l /\ t.size = m
  BY VectorIs
<1>2. l \in Nat /\ m <= l /\ s \in Tuples(Elements, m)
  BY <1>1 DEF Holds
<1>3. Len(s) = m /\ \A i \in 1 .. m : s[i] \in Elements
  BY <1>2, TupleIs
<1>4. q \in Tuples(Elements, n) /\ \A i \in 1 .. n : q[i] = IF i <= m THEN s[i] ELSE v
  <2>1. \A i \in 1 .. n : i <= m => i \in 1 .. m
    OBVIOUS
  <2>2. QED
    BY <1>3, <2>1 DEF Tuples
<1>5. PICK u : u = IF n <= l THEN t ELSE Array!Moved(t, n)
  OBVIOUS
<1>6. u \in VectorsOf(m, s) /\ n <= Array!Capacity(u)
  <2>1. CASE n <= l
    BY <1>1, <1>5, <2>1
  <2>2. CASE ~(n <= l)
    <3>1. u = Array!Moved(t, n) /\ m <= n
      BY <1>2, <1>5, <2>2
    <3>2. u \in VectorsOf(m, s) /\ Array!Capacity(u) = n
      BY <3>1, MovedVector
    <3>3. QED
      BY <3>2
  <2>3. QED
    BY <2>1, <2>2
<1>7. PICK d, k : /\ u = [cells |-> d, size |-> m] /\ k = Len(d) /\ d = u.cells
                  /\ Holds(d, m, s, k) /\ Array!Capacity(u) = k /\ u.size = m
  BY <1>6, VectorIs
<1>8. k \in Nat /\ d \in Block(k) /\ n <= k /\ m <= k /\ \A i \in 1 .. m : d[i] = s[i]
  BY <1>6, <1>7 DEF Holds
<1>9. PICK e : e = IF n <= m THEN d ELSE Array!fill(d, m, n, v)
  OBVIOUS
<1>10. r = [cells |-> e, size |-> n]
  BY <1>1, <1>5, <1>7, <1>9 DEF Array!Resized
<1>11. Holds(e, n, q, k)
  <2>1. CASE n <= m
    <3>1. n \in 0 .. m /\ e = d /\ \A i \in 1 .. n : i <= m
      BY <1>9, <2>1
    <3>2. \A i \in 1 .. n : q[i] = s[i]
      BY <1>4, <3>1
    <3>3. QED
      BY <1>4, <1>7, <3>1, <3>2, FirstOnes
  <2>2. CASE ~(n <= m)
    <3>1. e = Array!fill(d, m, n, v)
      BY <1>9, <2>2
    <3>2. Filled(d, e, m, n, v, k)
      BY <1>8, <3>1, FillIs
    <3>3. e \in Block(k) /\ \A i \in 1 .. k : e[i] = IF m < i /\ i <= n THEN v ELSE d[i]
      BY <3>2 DEF Filled
    <3>4. \A i \in 1 .. n : i \in 1 .. k /\ ((m < i /\ i <= n /\ ~(i <= m)) \/ (i \in 1 .. m /\ i <= m /\ ~(m < i)))
      BY <1>8
    <3>5. \A i \in 1 .. n : e[i] = q[i]
      BY <1>4, <1>8, <3>3, <3>4
    <3>6. n \in 0 .. k
      BY <1>8
    <3>7. QED
      BY <1>4, <1>8, <3>3, <3>5, <3>6 DEF Holds
  <2>3. QED
    BY <2>1, <2>2
<1>12. QED
  BY <1>10, <1>11, IsVector

(* The vector's inductive invariant: its cells hold the elements, at the     *)
(* front of its block.                                                       *)
ArrayInv == Len(items) \in Nat /\ rep \in VectorsOf(Len(items), items)

(* A vector of the elements that should be there keeps it. *)
LEMMA ArrayBecomes ==
  ASSUME NEW j \in Nat, NEW q, NEW r \in VectorsOf(j, q), rep' = r, items' = q
  PROVE  ArrayInv'
<1>1. q \in Tuples(Elements, j)
  BY DEF VectorsOf, Holds
<1>2. Len(q) = j
  BY <1>1, TupleIs
<1>3. QED
  BY <1>2 DEF ArrayInv

(* The vector then is the sequence of its elements. *)
LEMMA ArrayIsSequence == ArrayInv => Array!IsSequence
<1> SUFFICES ASSUME ArrayInv PROVE Array!IsSequence
  OBVIOUS
<1>1. PICK m \in Nat : m = Len(items) /\ rep \in VectorsOf(m, items)
  BY DEF ArrayInv
<1>2. PICK c, l : /\ rep = [cells |-> c, size |-> m] /\ l = Len(c) /\ c = rep.cells
                  /\ Holds(c, m, items, l) /\ Array!Capacity(rep) = l /\ rep.size = m
  BY <1>1, VectorIs
<1>3. SubSeq(c, 1, m) = items
  BY <1>2, ContentIs
<1>4. QED
  BY <1>2, <1>3 DEF Array!IsSequence

(* What is inserted are elements. *)
LEMMA ArraysBounded ==
  \A s \in Array!Given : Len(s) \in Nat /\ s \in Tuples(Elements, Len(s))
<1> SUFFICES ASSUME NEW s \in Array!Given
             PROVE  Len(s) \in Nat /\ s \in Tuples(Elements, Len(s))
  OBVIOUS
<1>1. s \in Seq(Values)
  BY DEF Array!Given
<1>2. s \in Seq(Elements)
  BY <1>1 DEF Elements
<1>3. QED
  BY <1>2, SequenceIs

LEMMA ValuesAreElements == (\A v \in Values : v \in Elements) /\ Default \in Elements /\ Raw \in Elements
BY DEF Elements

(* It holds at first, *)
LEMMA ArrayStarts == Array!Init => ArrayInv
<1> SUFFICES ASSUME Array!Init PROVE ArrayInv
  OBVIOUS
<1>1. rep = [cells |-> <<>>, size |-> 0] /\ items = <<>>
  BY DEF Array!Init
<1>2. PICK c : c = <<>>
  OBVIOUS
<1>3. PICK m \in Nat : m = 0
  OBVIOUS
<1>4. c \in Tuples(Elements, m) /\ m \in 0 .. m /\ Len(c) = m /\ \A i \in 1 .. m : c[i] = c[i]
  BY <1>2, <1>3 DEF Tuples
<1>5. Holds(c, m, c, m)
  BY <1>4 DEF Holds, Block, Tuples
<1>6. PICK t : t = [cells |-> c, size |-> m]
  OBVIOUS
<1>7. t \in VectorsOf(m, c)
  BY <1>5, <1>6, IsVector
<1>8. rep = t /\ items = c
  BY <1>1, <1>2, <1>3, <1>6
<1>9. QED
  BY <1>4, <1>7, <1>8 DEF ArrayInv

(* The elements in a block as large as there are elements, or in none. *)
LEMMA ArrayShrinks ==
  ASSUME NEW m \in Nat, NEW s, NEW t \in VectorsOf(m, s), NEW n \in m .. Array!Capacity(t) - 1,
         NEW r, r = [t EXCEPT !.cells = SubSeq(@, 1, n)]
  PROVE  r \in VectorsOf(m, s)
<1>1. PICK c, l : /\ t = [cells |-> c, size |-> m] /\ l = Len(c) /\ c = t.cells
                  /\ Holds(c, m, s, l) /\ Array!Capacity(t) = l /\ t.size = m
  BY VectorIs
<1>2. l \in Nat /\ m \in 0 .. l /\ c \in Tuples(Elements, l) /\ s \in Tuples(Elements, m)
      /\ \A i \in 1 .. m : c[i] = s[i]
  BY <1>1 DEF Holds, Block, Tuples
<1>3. PICK d : d = SubSeq(c, 1, n)
  OBVIOUS
<1>4. n \in Nat /\ n <= l
  BY <1>1, <1>2
<1>5. Part(d, Elements, c, 0, n)
  <2>1. n \in 0 .. l
    BY <1>4
  <2>2. QED
    BY <1>2, <1>3, <2>1, FirstPart
<1>6. d \in Block(n) /\ \A i \in 1 .. n : d[i] = c[i]
  BY <1>4, <1>5 DEF Part, Tuples, Block
<1>7. m \in 0 .. n /\ \A i \in 1 .. m : i \in 1 .. n
  BY <1>4
<1>8. Holds(d, m, s, n)
  BY <1>2, <1>4, <1>6, <1>7 DEF Holds
<1>9. r = [cells |-> d, size |-> m]
  BY <1>1, <1>3
<1>10. QED
  BY <1>8, <1>9, IsVector

(* An element less, or none at all. *)
LEMMA Emptier ==
  ASSUME NEW m \in Nat, NEW s, NEW t \in VectorsOf(m, s), NEW n \in 0 .. m, NEW q \in Tuples(Elements, n),
         \A i \in 1 .. n : q[i] = s[i], NEW r, r = [t EXCEPT !.size = n]
  PROVE  r \in VectorsOf(n, q)
<1>1. PICK c, l : /\ t = [cells |-> c, size |-> m] /\ l = Len(c) /\ c = t.cells
                  /\ Holds(c, m, s, l) /\ Array!Capacity(t) = l /\ t.size = m
  BY VectorIs
<1>2. Holds(c, n, q, l)
  BY <1>1, FirstOnes
<1>3. r = [cells |-> c, size |-> n] /\ n \in Nat
  BY <1>1
<1>4. QED
  BY <1>2, <1>3, IsVector

(* and every operation of the vector keeps it. *)
LEMMA ArrayKeeps == ArrayInv /\ Array!Next => ArrayInv'
<1> SUFFICES ASSUME ArrayInv, Array!Next PROVE ArrayInv'
  OBVIOUS
<1>1. PICK m \in Nat : m = Len(items) /\ rep \in VectorsOf(m, items)
  BY DEF ArrayInv
<1>2. rep.size = m /\ items \in Tuples(Elements, m) /\ \A i \in 1 .. m : items[i] \in Elements
  <2>1. rep.size = m /\ items \in Tuples(Elements, m)
    BY <1>1 DEF VectorsOf, Holds
  <2>2. QED
    BY <2>1 DEF Tuples
<1>3. ASSUME NEW t, NEW q, Array!Become(t, q), NEW j \in Nat, t \in VectorsOf(j, q) PROVE ArrayInv'
  BY <1>3, ArrayBecomes DEF Array!Become
<1>4. ASSUME rep' = rep, items' = items PROVE ArrayInv'
  BY <1>4 DEF ArrayInv
<1>5. ASSUME NEW v \in Values, Array!push_back(v) PROVE ArrayInv'
  <2>1. PICK j \in Nat : j = m + 1
    OBVIOUS
  <2>2. PICK q : q = Append(items, v)
    OBVIOUS
  <2>3. PICK r : r = Array!emplace_back(rep, v)
    OBVIOUS
  <2>4. r \in VectorsOf(j, q)
    BY <1>1, <2>1, <2>2, <2>3, EmplaceBackIs, ValuesAreElements
  <2>5. QED
    BY <1>3, <1>5, <2>2, <2>3, <2>4 DEF Array!push_back
<1>6. CASE Array!pop_back
  <2>1. CASE m = 0
    BY <1>2, <1>4, <1>6, <2>1 DEF Array!pop_back
  <2>2. CASE m # 0
    <3>1. PICK n : n = m - 1
      OBVIOUS
    <3>2. PICK q : q = SubSeq(items, 1, Len(items) - 1)
      OBVIOUS
    <3>3. n \in Nat /\ n \in 0 .. m /\ Part(q, Elements, items, 0, n)
      BY <1>2, <2>2, <3>1, <3>2, FrontIs
    <3>4. q \in Tuples(Elements, n) /\ \A i \in 1 .. n : q[i] = items[i]
      BY <3>3 DEF Part
    <3>5. PICK r : r = [rep EXCEPT !.size = n]
      OBVIOUS
    <3>6. r \in VectorsOf(n, q)
      BY <1>1, <3>3, <3>4, <3>5, Emptier
    <3>7. Array!Become(r, q)
      BY <1>2, <1>6, <2>2, <3>1, <3>2, <3>5 DEF Array!pop_back
    <3>8. QED
      BY <1>3, <3>3, <3>6, <3>7
  <2>3. QED
    BY <2>1, <2>2
<1>7. ASSUME NEW it \in Array!Position, NEW v \in Values, Array!insert(it, v) PROVE ArrayInv'
  <2>1. PICK j \in Nat : j = m + 1
    OBVIOUS
  <2>2. PICK q : q = Inserted(items, it, <<v>>)
    OBVIOUS
  <2>3. PICK r : r = Array!InsertOne(rep, it, v)
    OBVIOUS
  <2>4. it \in 0 .. m
    BY <1>2 DEF Array!Position
  <2>5. r \in VectorsOf(j, q)
    BY <1>1, <2>1, <2>2, <2>3, <2>4, InsertOneIs, ValuesAreElements
  <2>6. Array!Become(r, q)
    BY <1>7, <2>2, <2>3 DEF Array!insert, Array!Inserted, Inserted
  <2>7. QED
    BY <1>3, <2>5, <2>6
<1>8. ASSUME NEW it \in Array!Position, NEW v \in Values, NEW n \in Nat, Array!insert_n(it, v, n) PROVE ArrayInv'
  <2>1. PICK j \in Nat : j = m + n
    OBVIOUS
  <2>2. PICK q : q = Inserted(items, it, [i \in 1 .. n |-> v])
    OBVIOUS
  <2>3. PICK r : r = Array!InsertCopies(rep, it, v, n)
    OBVIOUS
  <2>4. it \in 0 .. m
    BY <1>2 DEF Array!Position
  <2>5. r \in VectorsOf(j, q)
    <3>1. CASE n # 0
      BY <1>1, <2>1, <2>2, <2>3, <2>4, <3>1, InsertCopiesIs, ValuesAreElements
    <3>2. CASE n = 0
      <4>1. r = rep /\ j = m
        BY <2>1, <2>3, <3>2 DEF Array!InsertCopies
      <4>2. PICK vals : vals = [i \in 1 .. n |-> v]
        OBVIOUS
      <4>3. vals \in Tuples(Elements, n)
        BY <4>2, ValuesAreElements DEF Tuples
      <4>4. With(q, Elements, j, items, it, vals, n)
        BY <1>2, <2>1, <2>2, <2>4, <4>2, <4>3, InsertedIs DEF Inserted
      <4>5. q \in Tuples(Elements, m) /\ (\A i \in 1 .. it : q[i] = items[i])
            /\ \A i \in it + 1 .. m : q[i] = items[i]
        <5>1. \A i \in it + 1 .. m : i \in it + n + 1 .. j /\ i - n = i
          BY <2>4, <3>2, <4>1
        <5>2. QED
          BY <4>1, <4>4, <5>1 DEF With
      <4>6. \A i \in 1 .. m : i \in 1 .. it \/ i \in it + 1 .. m
        BY <2>4
      <4>7. q = items
        BY <1>2, <4>5, <4>6, SameTuples
      <4>8. QED
        BY <1>1, <4>1, <4>7
    <3>3. QED
      BY <3>1, <3>2
  <2>6. Array!Become(r, q)
    BY <1>8, <2>2, <2>3 DEF Array!insert_n, Array!Inserted, Inserted
  <2>7. QED
    BY <1>3, <2>5, <2>6
<1>9. ASSUME NEW it \in Array!Position, NEW vals \in Array!Given,
             Array!insert_range(it, vals)
      PROVE  ArrayInv'
  <2>1. PICK n \in Nat : n = Len(vals) /\ vals \in Tuples(Elements, n)
    BY ArraysBounded
  <2>2. PICK j \in Nat : j = m + n
    OBVIOUS
  <2>3. PICK q : q = Inserted(items, it, vals)
    OBVIOUS
  <2>4. PICK r : r = Array!InsertRange(rep, it, vals)
    OBVIOUS
  <2>5. it \in 0 .. m
    BY <1>2 DEF Array!Position
  <2>6. r \in VectorsOf(j, q)
    BY <1>1, <2>1, <2>2, <2>3, <2>4, <2>5, InsertRangeIs
  <2>7. Array!Become(r, q)
    BY <1>9, <2>3, <2>4 DEF Array!insert_range, Array!Inserted, Inserted
  <2>8. QED
    BY <1>3, <2>6, <2>7
<1>10. ASSUME NEW first \in Array!Position, NEW last \in first .. rep.size, Array!erase(first, last) PROVE ArrayInv'
  <2>1. first \in 0 .. m /\ last \in first .. m
    BY <1>2 DEF Array!Position
  <2>2. PICK j : j = m - (last - first)
    OBVIOUS
  <2>3. PICK q : q = SubSeq(items, 1, first) \o SubSeq(items, last + 1, Len(items))
    OBVIOUS
  <2>4. PICK r : r = Array!EraseRange(rep, first, last)
    OBVIOUS
  <2>5. r \in VectorsOf(j, q)
    BY <1>1, <2>1, <2>2, <2>3, <2>4, EraseRangeIs
  <2>6. j \in Nat
    BY <2>1, <2>2
  <2>7. QED
    BY <1>3, <1>10, <2>3, <2>4, <2>5, <2>6 DEF Array!erase
<1>11. ASSUME NEW n \in Nat, Array!resize(n, Default) PROVE ArrayInv'
  <2>1. PICK q : q = [i \in 1 .. n |-> IF i <= Len(items) THEN items[i] ELSE Default]
    OBVIOUS
  <2>2. PICK r : r = Array!Resized(rep, n, Default)
    OBVIOUS
  <2>3. PICK v \in Elements : v = Default
    BY ValuesAreElements
  <2>4. r \in VectorsOf(n, q)
    BY <1>1, <2>1, <2>2, <2>3, ResizedIs
  <2>5. QED
    BY <1>3, <1>11, <2>1, <2>2, <2>4 DEF Array!resize
<1>12. ASSUME NEW n \in Nat, Array!reserve(n) PROVE ArrayInv'
  <2>1. PICK r : r = Array!Moved(rep, n)
    OBVIOUS
  <2>2. CASE n <= Array!Capacity(rep)
    BY <1>1, <1>3, <1>12, <2>2 DEF Array!reserve
  <2>3. CASE ~(n <= Array!Capacity(rep))
    <3>1. PICK c, l : /\ rep = [cells |-> c, size |-> m] /\ l = Len(c) /\ c = rep.cells
                      /\ Holds(c, m, items, l) /\ Array!Capacity(rep) = l /\ rep.size = m
      BY <1>1, VectorIs
    <3>2. m <= n
      BY <2>3, <3>1 DEF Holds
    <3>3. r \in VectorsOf(m, items)
      BY <1>1, <2>1, <3>2, MovedVector
    <3>4. QED
      BY <1>3, <1>12, <2>1, <2>3, <3>3 DEF Array!reserve
  <2>4. QED
    BY <2>2, <2>3
<1>13. ASSUME NEW n, Array!shrink(n) PROVE ArrayInv'
  <2>1. PICK r : r = [rep EXCEPT !.cells = SubSeq(@, 1, n)]
    OBVIOUS
  <2>2. n \in m .. Array!Capacity(rep) - 1
    BY <1>2, <1>13 DEF Array!shrink
  <2>3. r \in VectorsOf(m, items)
    BY <1>1, <2>1, <2>2, ArrayShrinks
  <2>4. QED
    BY <1>3, <1>4, <1>13, <2>1, <2>3 DEF Array!shrink
<1>14. CASE Array!clear
  <2>1. PICK q : q = <<>>
    OBVIOUS
  <2>2. PICK n : n = 0
    OBVIOUS
  <2>3. n \in Nat /\ n \in 0 .. m /\ q \in Tuples(Elements, n) /\ \A i \in 1 .. n : q[i] = items[i]
    BY <2>1, <2>2 DEF Tuples
  <2>4. PICK r : r = [rep EXCEPT !.size = n]
    OBVIOUS
  <2>5. r \in VectorsOf(n, q)
    BY <1>1, <2>3, <2>4, Emptier
  <2>6. QED
    BY <1>3, <1>14, <2>1, <2>2, <2>3, <2>4, <2>5 DEF Array!clear
<1>15. CASE Array!assign_copy
  <2>1. PICK c, l : /\ rep = [cells |-> c, size |-> m] /\ l = Len(c) /\ c = rep.cells
                    /\ Holds(c, m, items, l) /\ Array!Capacity(rep) = l /\ rep.size = m
    BY <1>1, VectorIs
  <2>2. l \in Nat /\ m <= l
    BY <2>1 DEF Holds
  <2>3. PICK r : r = Array!Moved(rep, l)
    OBVIOUS
  <2>4. r \in VectorsOf(m, items)
    BY <1>1, <2>2, <2>3, MovedVector
  <2>5. QED
    BY <1>3, <1>15, <2>1, <2>3, <2>4 DEF Array!assign_copy
<1>16. \A n : n \in 0 .. MaxInsert \/ n \in 0 .. MaxCells => n \in Nat
  OBVIOUS
<1>17. QED
  BY <1>5, <1>6, <1>7, <1>8, <1>9, <1>10, <1>11, <1>12, <1>13, <1>14, <1>15, <1>16 DEF Array!Next

-----------------------------------------------------------------------------
(* The string                                                                *)

(* The strings that hold s, of m elements, in themselves or in a block. *)
StringRecord(t, c, m, y, b) ==
  /\ t = [cells |-> c, size |-> m, tiny |-> y, freed |-> FALSE, buff |-> b]
  /\ y \in BOOLEAN /\ b \in Nat
StringsOf(m, s) ==
  {t \in [cells : Seq(Elements), size : Nat, tiny : BOOLEAN, freed : {FALSE}, buff : Nat] :
     t.size = m /\ Holds(t.cells, m, s, Len(t.cells))}

LEMMA TextIs ==
  ASSUME NEW m \in Nat, NEW s, NEW t \in StringsOf(m, s)
  PROVE  \E c, l, y, b : StringRecord(t, c, m, y, b) /\ Holds(c, m, s, l) /\ Text!capacity(t) = l
<1>1. t = [cells |-> t.cells, size |-> m, tiny |-> t.tiny, freed |-> FALSE, buff |-> t.buff]
      /\ t.tiny \in BOOLEAN /\ t.buff \in Nat
  BY DEF StringsOf
<1>2. StringRecord(t, t.cells, m, t.tiny, t.buff)
  BY <1>1 DEF StringRecord
<1>3. Holds(t.cells, m, s, Len(t.cells)) /\ Text!capacity(t) = Len(t.cells)
  BY DEF StringsOf, Text!capacity
<1>4. QED
  BY <1>2, <1>3

LEMMA IsText ==
  ASSUME NEW m \in Nat, NEW s, NEW c, NEW l, Holds(c, m, s, l), NEW t, NEW y, NEW b, StringRecord(t, c, m, y, b)
  PROVE  t \in StringsOf(m, s) /\ Text!capacity(t) = l
<1>1. l \in Nat /\ c \in Tuples(Elements, l)
  BY DEF Holds, Block, Tuples
<1>2. c \in Seq(Elements) /\ Len(c) = l
  BY <1>1, TupleIs
<1>3. t = [cells |-> c, size |-> m, tiny |-> y, freed |-> FALSE, buff |-> b] /\ y \in BOOLEAN /\ b \in Nat
  BY DEF StringRecord
<1>4. t \in [cells : Seq(Elements), size : Nat, tiny : BOOLEAN, freed : {FALSE}, buff : Nat]
      /\ t.size = m /\ t.cells = c
  BY <1>2, <1>3
<1>5. QED
  BY <1>2, <1>4 DEF StringsOf, Text!capacity

(* A block of n cells on the heap, for the elements there are. *)
LEMMA MovedText ==
  ASSUME NEW m \in Nat, NEW s, NEW t \in StringsOf(m, s), NEW n \in Nat, m <= n,
         NEW u, u = Text!Moved(t, n)
  PROVE  u \in StringsOf(m, s) /\ Text!capacity(u) = n
<1>1. PICK c, l, y, b : StringRecord(t, c, m, y, b) /\ Holds(c, m, s, l) /\ Text!capacity(t) = l
  BY TextIs
<1>2. t = [cells |-> c, size |-> m, tiny |-> y, freed |-> FALSE, buff |-> b] /\ b \in Nat
  BY <1>1 DEF StringRecord
<1>3. SubSeq(c, 1, m) = s
  BY <1>1, ContentIs
<1>4. PICK d : d = s \o [i \in 1 .. n - m |-> Raw]
  OBVIOUS
<1>5. s \in Tuples(Elements, m)
  BY <1>1 DEF Holds
<1>6. Holds(d, m, s, n)
  BY <1>4, <1>5, PaddedHolds
<1>7. Len(s) = m
  BY <1>5, TupleIs
<1>8. PICK z : z = FALSE
  OBVIOUS
<1>9. u = [cells |-> d, size |-> m, tiny |-> FALSE, freed |-> FALSE, buff |-> b]
  BY <1>2, <1>3, <1>4, <1>7 DEF Text!Moved, Text!Content, Text!Padded
<1>10. StringRecord(u, d, m, z, b)
  BY <1>2, <1>9, <1>8 DEF StringRecord
<1>11. QED
  BY <1>6, <1>10, IsText

LEMMA ReqMem ==
  ASSUME NEW m \in Nat, NEW s, NEW t \in StringsOf(m, s), NEW u, u = Text!req_mem(t)
  PROVE  u \in StringsOf(m, s) /\ Text!capacity(t) \in Nat /\ Text!capacity(u) >= Text!capacity(t) + 1
<1>1. PICK c, l, y, b : StringRecord(t, c, m, y, b) /\ Holds(c, m, s, l) /\ Text!capacity(t) = l
  BY TextIs
<1>2. l \in Nat /\ m <= l
  BY <1>1 DEF Holds
<1>3. PICK n : n = IF l = 0 THEN 1 ELSE 2 * l
  OBVIOUS
<1>4. n \in Nat /\ n >= l + 1 /\ m <= n
  BY <1>2, <1>3
<1>5. u = Text!Moved(t, n)
  BY <1>1, <1>3 DEF Text!req_mem
<1>6. QED
  BY <1>1, <1>2, <1>4, <1>5, MovedText

(* The string asks for memory until there is enough of it, too. *)
LEMMA TextWithRoomIs ==
  ASSUME NEW m \in Nat, NEW s, NEW t \in StringsOf(m, s), NEW n \in Nat, NEW u, u = Text!WithRoom(t, n)
  PROVE  u \in StringsOf(m, s) /\ m + n <= Text!capacity(u)
<1> DEFINE B(w) == IF Text!Fits(w, n) THEN w ELSE Text!req_mem(w)
           turns == t.size + n
           F == [x \in (1 .. turns) \X StringsOf(m, s) |-> B(x[2])]
           T(g) == g = [k \in 0 .. turns |-> IF k = 0 THEN t ELSE B(g[k - 1])]
           f == CHOOSE g : T(g)
<1>1. turns \in Nat /\ turns = m + n
  BY DEF StringsOf
<1>2. u = f[turns]
  BY DEF Text!WithRoom
<1>3. ASSUME NEW w \in StringsOf(m, s)
      PROVE  /\ B(w) \in StringsOf(m, s) /\ Text!capacity(w) \in Nat
             /\ m + n <= Text!capacity(w) => B(w) = w
             /\ ~(m + n <= Text!capacity(w)) => Text!capacity(B(w)) >= Text!capacity(w) + 1
  <2>1. w.size = m
    BY DEF StringsOf
  <2>2. PICK x : x = Text!req_mem(w)
    OBVIOUS
  <2>3. x \in StringsOf(m, s) /\ Text!capacity(w) \in Nat /\ Text!capacity(x) >= Text!capacity(w) + 1
    BY <2>2, ReqMem
  <2>4. QED
    BY <2>1, <2>2, <2>3 DEF Text!Fits
<1> HIDE DEF B, turns
<1>4. \A k \in 1 .. turns : \A h \in StringsOf(m, s) : F[<<k, h>>] \in StringsOf(m, s) /\ F[<<k, h>>] = B(h)
  BY <1>3
<1> HIDE DEF F
<1>5. PICK g \in [0 .. turns -> StringsOf(m, s)] : Runs(g, turns, t, F)
  BY <1>1, <1>4, TurnsExist
<1>6. \A k \in 1 .. turns : g[k] = B(g[k - 1])
  <2>1. \A k \in 1 .. turns : g[k - 1] \in StringsOf(m, s)
    BY <1>1, <1>5
  <2>2. QED
    BY <1>4, <1>5, <2>1 DEF Runs
<1>7. T(g)
  <2>1. \A k \in 0 .. turns : g[k] = IF k = 0 THEN t ELSE B(g[k - 1])
    BY <1>1, <1>5, <1>6 DEF Runs
  <2>2. QED
    BY <1>5, <2>1
<1>8. T(f)
  BY <1>7
<1> HIDE DEF f
<1>9. f[0] = t /\ \A k \in 1 .. turns : f[k] = B(f[k - 1])
  <2>1. \A k \in 0 .. turns : f[k] = IF k = 0 THEN t ELSE B(f[k - 1])
    BY <1>8
  <2> HIDE DEF T
  <2>2. 0 \in 0 .. turns /\ \A k \in 1 .. turns : k \in 0 .. turns /\ k # 0
    BY <1>1
  <2>3. QED
    BY <2>1, <2>2
<1> DEFINE G == {k \in 0 .. turns : f[k] \in StringsOf(m, s)
                    /\ (m + n <= Text!capacity(f[k]) \/ k <= Text!capacity(f[k]))}
<1>10. 0 \in G
  BY <1>1, <1>3, <1>9
<1>11. ASSUME NEW k \in 1 .. turns, k - 1 \in G PROVE k \in G
  <2>1. f[k - 1] \in StringsOf(m, s) /\ f[k] = B(f[k - 1])
        /\ (m + n <= Text!capacity(f[k - 1]) \/ k - 1 <= Text!capacity(f[k - 1]))
    BY <1>9, <1>11
  <2>2. f[k] \in StringsOf(m, s) /\ Text!capacity(f[k]) \in Nat
    BY <1>3, <2>1
  <2>3. m + n <= Text!capacity(f[k]) \/ k <= Text!capacity(f[k])
    <3>1. CASE m + n <= Text!capacity(f[k - 1])
      BY <1>3, <2>1, <3>1
    <3>2. CASE ~(m + n <= Text!capacity(f[k - 1]))
      <4>1. Text!capacity(f[k]) >= Text!capacity(f[k - 1]) + 1 /\ Text!capacity(f[k - 1]) \in Nat
        BY <1>3, <2>1, <3>2
      <4>2. k - 1 <= Text!capacity(f[k - 1])
        BY <2>1, <3>2
      <4>3. QED
        BY <1>1, <2>2, <4>1, <4>2
    <3>3. QED
      BY <3>1, <3>2
  <2>4. k \in 0 .. turns
    BY <1>1
  <2>5. QED
    BY <2>2, <2>3, <2>4
<1> HIDE DEF G
<1>12. \A k \in 0 .. turns : k \in G
  BY <1>1, <1>10, <1>11, UpTo
<1>13. turns \in G
  BY <1>1, <1>12
<1>14. QED
  BY <1>1, <1>2, <1>13 DEF G

(* The string reads its cells as the vector does. *)
LEMMA SameCells ==
  /\ \A c, i, v : Text!Cells!Put(c, i, v) = Array!Put(c, i, v)
  /\ \A c, i : Text!Cells!At(c, i) = Array!At(c, i)
BY DEF Text!Cells!Put, Array!Put, Text!Cells!At, Array!At

(* n cells moved from behind the first ones to behind the first res, where one of *)
(* them is; of more than one the order is lost.                                   *)
Turned(c, r, first, n, res, l) ==
  /\ r \in Block(l) /\ \A i \in 1 .. l : ~(res < i /\ i <= res + n) => r[i] = c[i]
  /\ n <= 1 => Shifted(c, r, first, n, res, l)

(* Turning one element round at most is copying backward. *)
LEMMA Turns ==
  ASSUME NEW l, NEW first, NEW n, NEW res, Within2(l, first, n, res), NEW c \in Block(l),
         NEW last, last = first + n,
         NEW r, r = Text!reverse_copy(c, first, last, res)
  PROVE  Turned(c, r, first, n, res, l)
BY TurnedIs DEF Turned

(* The gap that an insertion opens, where no more than turned elements are turned. *)
Gap(c, d, m, it, n, l, turned) ==
  /\ d \in Block(l) /\ \A i \in 1 .. it : d[i] = c[i]
  /\ turned <= 1 => Opens(c, d, m, it, n, l)

(* With the new elements in the gap the cells hold what After says. *)
LEMMA GapHolds ==
  ASSUME NEW c, NEW m, NEW s, NEW l, Holds(c, m, s, l), NEW n \in Nat, NEW vals \in Tuples(Elements, n),
         NEW it \in 0 .. m, NEW j, j = m + n, j <= l, NEW turned, NEW d, Gap(c, d, m, it, n, l, turned),
         \A i \in 1 .. n : d[it + i] = vals[i], NEW q,
         q = SubSeq(s, 1, it) \o vals \o
               (IF turned <= 1 THEN SubSeq(s, it + 1, Len(s)) ELSE SubSeq(d, it + n + 1, j))
  PROVE  Holds(d, j, q, l)
<1>1. CASE turned <= 1
  <2>1. q = SubSeq(s, 1, it) \o vals \o SubSeq(s, it + 1, Len(s))
    BY <1>1
  <2>2. Opens(c, d, m, it, n, l)
    BY <1>1 DEF Gap
  <2>3. QED
    BY <2>1, <2>2, InsertHolds
<1>2. CASE ~(turned <= 1)
  <2>1. q = SubSeq(s, 1, it) \o vals \o SubSeq(d, it + n + 1, j)
    BY <1>2
  <2>2. d \in Block(l) /\ \A i \in 1 .. it : d[i] = c[i]
    BY DEF Gap
  <2>3. QED
    BY <2>1, <2>2, InsertHoldsRest
<1>3. QED
  BY <1>1, <1>2

(* Moving the elements behind an insertion, as the string does it, opens     *)
(* such a gap.                                                               *)
LEMMA TextOpenedIs ==
  ASSUME NEW c, NEW m, NEW s, NEW l, Holds(c, m, s, l), NEW n \in Nat, m + n <= l, NEW it \in 0 .. m,
         NEW u, NEW y, NEW b, StringRecord(u, c, m, y, b), NEW d, d = Text!Opened(u, it, n),
         NEW turned, turned = m - it - (IF y THEN 0 ELSE n)
  PROVE  Gap(c, d, m, it, n, l, turned)
<1>1. l \in Nat /\ m \in Nat /\ m <= l /\ c \in Block(l) /\ it \in Nat /\ it <= m
  BY DEF Holds
<1>2. u.tiny = y /\ u.cells = c /\ u.size = m /\ y \in BOOLEAN
  BY DEF StringRecord
<1>3. PICK a \in Nat : a = m - it
  BY <1>1
<1>4. PICK res \in Nat : res = it + n
  BY <1>1
<1>5. m = it + a /\ Within2(l, it, a, res)
  BY <1>1, <1>3, <1>4 DEF Within2
<1>6. ASSUME Shifted(c, d, it, a, res, l) PROVE Opens(c, d, m, it, n, l)
  <2>1. d \in Block(l) /\ \A i \in 1 .. l : d[i] = IF res < i /\ i <= res + a THEN c[it + (i - res)] ELSE c[i]
    BY <1>6 DEF Shifted
  <2>2. \A i \in 1 .. it : d[i] = c[i]
    <3>1. \A i \in 1 .. it : i \in 1 .. l /\ ~(res < i /\ i <= res + a)
      BY <1>1, <1>4
    <3>2. QED
      BY <2>1, <3>1
  <2>3. ASSUME NEW i \in it + n + 1 .. m + n PROVE d[i] = c[i - n]
    <3>1. i \in 1 .. l /\ res < i /\ i <= res + a /\ it + (i - res) = i - n
      BY <1>1, <1>3, <1>4
    <3>2. QED
      BY <2>1, <3>1
  <2>4. QED
    BY <2>1, <2>2, <2>3 DEF Opens
<1>7. CASE y
  <2>1. d = Text!reverse_copy(c, it, m, res) /\ turned = a
    BY <1>1, <1>2, <1>3, <1>4, <1>7 DEF Text!Opened
  <2>2. Turned(c, d, it, a, res, l)
    BY <1>1, <1>5, <2>1, Turns
  <2>3. d \in Block(l) /\ (\A i \in 1 .. l : ~(res < i /\ i <= res + a) => d[i] = c[i])
        /\ (a <= 1 => Shifted(c, d, it, a, res, l))
    BY <2>2 DEF Turned
  <2>4. \A i \in 1 .. it : i \in 1 .. l /\ ~(res < i /\ i <= res + a)
    BY <1>1, <1>4
  <2>5. QED
    BY <1>6, <2>1, <2>3, <2>4 DEF Gap
<1>8. CASE ~y /\ res > m
  <2>1. d = Text!Cells!copy(c, it, m, res)
    BY <1>2, <1>4, <1>8 DEF Text!Opened
  <2>2. d = Array!copy(c, it, m, res)
    BY <2>1, SameCopies
  <2>3. m = it + a /\ (res <= it \/ m <= res)
    BY <1>1, <1>5, <1>8
  <2>4. Shifted(c, d, it, a, res, l)
    BY <1>1, <1>5, <2>2, <2>3, CopyIs
  <2>5. Opens(c, d, m, it, n, l)
    BY <1>6, <2>4
  <2>6. QED
    BY <2>5 DEF Gap, Opens
<1>9. CASE ~y /\ ~(res > m)
  <2>1. PICK h \in Nat : h = m - n
    BY <1>1, <1>4, <1>9
  <2>2. PICK f : f = Text!Cells!copy(c, h, m, m)
    OBVIOUS
  <2>3. d = Text!reverse_copy(f, it, h, res)
    BY <1>2, <1>4, <1>9, <2>1, <2>2 DEF Text!Opened
  <2>4. Within2(l, h, n, m) /\ m = h + n /\ (m <= h \/ m <= m) /\ f = Array!copy(c, h, m, m)
    BY <1>1, <2>1, <2>2, SameCopies DEF Within2
  <2>5. Shifted(c, f, h, n, m, l)
    BY <1>1, <2>4, CopyIs
  <2>6. f \in Block(l) /\ \A i \in 1 .. l : f[i] = IF m < i /\ i <= m + n THEN c[h + (i - m)] ELSE c[i]
    BY <2>5 DEF Shifted
  <2>7. PICK k \in Nat : k = h - it
    BY <1>1, <1>4, <1>9, <2>1
  <2>8. Within2(l, it, k, res) /\ h = it + k /\ turned = k
    BY <1>1, <1>4, <1>9, <2>1, <2>7 DEF Within2
  <2>9. Turned(f, d, it, k, res, l)
    BY <2>3, <2>6, <2>8, Turns
  <2>10. d \in Block(l) /\ (\A i \in 1 .. l : ~(res < i /\ i <= res + k) => d[i] = f[i])
         /\ (k <= 1 => Shifted(f, d, it, k, res, l))
    BY <2>9 DEF Turned
  <2>11. \A i \in 1 .. it : d[i] = c[i]
    <3>1. \A i \in 1 .. it : i \in 1 .. l /\ ~(res < i /\ i <= res + k) /\ ~(m < i /\ i <= m + n)
      BY <1>1, <1>4
    <3>2. QED
      BY <2>6, <2>10, <3>1
  <2>12. ASSUME k <= 1, NEW i \in it + n + 1 .. m + n PROVE d[i] = c[i - n]
    <3>1. \A x \in 1 .. l : d[x] = IF res < x /\ x <= res + k THEN f[it + (x - res)] ELSE f[x]
      BY <2>10, <2>12 DEF Shifted
    <3>2. CASE i <= m
      <4>1. i \in 1 .. l /\ res < i /\ i <= res + k /\ it + (i - res) = i - n
            /\ i - n \in 1 .. l /\ ~(m < i - n)
        BY <1>1, <1>4, <2>1, <2>7, <3>2
      <4>2. d[i] = f[i - n] /\ f[i - n] = c[i - n]
        BY <2>6, <3>1, <4>1
      <4>3. QED
        BY <4>2
    <3>3. CASE ~(i <= m)
      <4>1. i \in 1 .. l /\ ~(i <= res + k) /\ m < i /\ i <= m + n /\ h + (i - m) = i - n
        BY <1>1, <1>4, <2>1, <2>7, <3>3
      <4>2. d[i] = f[i] /\ f[i] = c[i - n]
        BY <2>6, <3>1, <4>1
      <4>3. QED
        BY <4>2
    <3>4. QED
      BY <3>2, <3>3
  <2>13. QED
    BY <2>8, <2>10, <2>11, <2>12 DEF Gap, Opens
<1>10. QED
  BY <1>2, <1>7, <1>8, <1>9

(* A string with one element more. *)
LEMMA AppendedIs ==
  ASSUME NEW m \in Nat, NEW s, NEW t \in StringsOf(m, s), NEW v \in Elements,
         NEW j, j = m + 1, NEW q, q = Append(s, v), NEW r, r = Text!Appended(t, v)
  PROVE  r \in StringsOf(j, q)
<1>1. PICK n \in Nat : n = 1
  OBVIOUS
<1>2. PICK u : u = Text!WithRoom(t, n)
  OBVIOUS
<1>3. u \in StringsOf(m, s) /\ m + n <= Text!capacity(u)
  BY <1>2, TextWithRoomIs
<1>4. PICK c, l, y, b : StringRecord(u, c, m, y, b) /\ Holds(c, m, s, l) /\ Text!capacity(u) = l
  BY <1>3, TextIs
<1>5. u = [cells |-> c, size |-> m, tiny |-> y, freed |-> FALSE, buff |-> b] /\ y \in BOOLEAN /\ b \in Nat
  BY <1>4 DEF StringRecord
<1>6. l \in Nat /\ c \in Block(l) /\ j \in Nat /\ j <= l /\ s \in Tuples(Elements, m) /\ \A i \in 1 .. m : c[i] = s[i]
  BY <1>1, <1>3, <1>4 DEF Holds
<1>7. PICK d : d = Array!Put(c, m, v)
  OBVIOUS
<1>8. d \in Block(l) /\ \A i \in 1 .. l : d[i] = IF i = m + 1 THEN v ELSE c[i]
  <2>1. m \in 0 .. l - 1
    BY <1>6
  <2>2. QED
    BY <1>6, <1>7, <2>1, PutIs
<1>9. AndThen(q, Elements, j, s, m, v)
  BY <1>6, AppendIs
<1>10. \A i \in 1 .. j : d[i] = q[i]
  <2>1. \A i \in 1 .. j : i \in 1 .. l /\ (i = m + 1 \/ (i \in 1 .. m /\ i # m + 1))
    BY <1>6
  <2>2. QED
    BY <1>6, <1>8, <1>9, <2>1 DEF AndThen
<1>11. Holds(d, j, q, l)
  BY <1>6, <1>8, <1>9, <1>10 DEF AndThen, Holds
<1>12. r = [cells |-> d, size |-> j, tiny |-> y, freed |-> FALSE, buff |-> b]
  <2>1. r = [u EXCEPT !.cells = Text!Cells!Put(@, u.size, v), !.size = @ + 1]
    BY <1>1, <1>2 DEF Text!Appended
  <2>2. QED
    BY <1>5, <1>7, <2>1, SameCells
<1>13. StringRecord(r, d, j, y, b)
  BY <1>5, <1>12 DEF StringRecord
<1>14. QED
  BY <1>6, <1>11, <1>13, IsText

(* What an insertion makes of s: the rest is what the string is where it is turned. *)
After(s, t, it, vals, turned) ==
  SubSeq(s, 1, it) \o vals \o
    (IF turned <= 1 THEN SubSeq(s, it + 1, Len(s)) ELSE SubSeq(t.cells, it + Len(vals) + 1, t.size))

(* Insertion of one element, and of a range, into a string. *)
LEMMA TextInsertOneIs ==
  ASSUME NEW m \in Nat, NEW s, NEW t \in StringsOf(m, s), NEW it \in 0 .. m, NEW v \in Elements,
         NEW j, j = m + 1, NEW r, r = Text!InsertOne(t, it, v), NEW q, q = After(s, r, it, <<v>>, m - it)
  PROVE  r \in StringsOf(j, q)
<1>1. PICK n \in Nat : n = 1
  OBVIOUS
<1>2. PICK u : u = Text!WithRoom(t, n)
  OBVIOUS
<1>3. u \in StringsOf(m, s) /\ m + n <= Text!capacity(u)
  BY <1>2, TextWithRoomIs
<1>4. PICK c, l, y, b : StringRecord(u, c, m, y, b) /\ Holds(c, m, s, l) /\ Text!capacity(u) = l
  BY <1>3, TextIs
<1>5. u = [cells |-> c, size |-> m, tiny |-> y, freed |-> FALSE, buff |-> b] /\ y \in BOOLEAN /\ b \in Nat
  BY <1>4 DEF StringRecord
<1>6. l \in Nat /\ c \in Block(l) /\ j \in Nat /\ j <= l /\ it \in Nat /\ it <= m /\ j = m + n
  BY <1>1, <1>3, <1>4 DEF Holds
<1>7. PICK w : w = Array!At(c, m - 1)
  OBVIOUS
<1>8. w \in Elements
  <2>1. DOMAIN c = 1 .. l /\ Len(c) = l /\ \A i \in 1 .. l : c[i] \in Elements
    BY <1>6 DEF Block
  <2>2. m - 1 \in 0 .. l - 1 => (m - 1) + 1 \in 1 .. l
    BY <1>6
  <2>3. QED
    BY <1>7, <2>1, <2>2, ValuesAreElements DEF Array!At
<1>9. PICK e : e = IF y THEN c ELSE Array!Put(c, m, w)
  OBVIOUS
<1>10. e \in Block(l) /\ \A i \in 1 .. m : e[i] = c[i]
  <2>1. CASE y
    BY <1>6, <1>9, <2>1
  <2>2. CASE ~y
    <3>1. m \in 0 .. l - 1 /\ e = Array!Put(c, m, w)
      BY <1>6, <1>9, <2>2
    <3>2. e \in Block(l) /\ \A i \in 1 .. l : e[i] = IF i = m + 1 THEN w ELSE c[i]
      BY <1>6, <1>8, <3>1, PutIs
    <3>3. \A i \in 1 .. m : i \in 1 .. l /\ i # m + 1
      BY <1>6
    <3>4. QED
      BY <3>2, <3>3
  <2>3. QED
    BY <2>1, <2>2
<1>11. PICK k : k = it + 1
  OBVIOUS
<1>12. PICK f : f = Text!reverse_copy(e, it, m, k)
  OBVIOUS
<1>13. PICK a \in Nat : a = m - it
  BY <1>6
<1>14. Within2(l, it, a, k) /\ m = it + a
  BY <1>6, <1>11, <1>13 DEF Within2
<1>15. Turned(e, f, it, a, k, l)
  BY <1>10, <1>12, <1>14, Turns
<1>16. f \in Block(l) /\ (\A i \in 1 .. l : ~(k < i /\ i <= k + a) => f[i] = e[i])
       /\ (a <= 1 => Shifted(e, f, it, a, k, l))
  BY <1>15 DEF Turned
<1>17. PICK d : d = Array!Put(f, it, v)
  OBVIOUS
<1>18. d \in Block(l) /\ \A i \in 1 .. l : d[i] = IF i = it + 1 THEN v ELSE f[i]
  <2>1. it \in 0 .. l - 1
    BY <1>6
  <2>2. QED
    BY <1>6, <1>16, <1>17, <2>1, PutIs
<1>19. r = [cells |-> d, size |-> j, tiny |-> y, freed |-> FALSE, buff |-> b]
  <2>1. u.cells = c /\ u.size = m /\ u.tiny = y
    BY <1>5
  <2>2. e = IF u.tiny THEN u.cells ELSE Text!Cells!Put(u.cells, u.size, Text!Cells!At(u.cells, u.size - 1))
    BY <1>7, <1>9, <2>1, SameCells
  <2>3. r = [u EXCEPT !.cells = Text!Cells!Put(Text!reverse_copy(e, it, u.size, it + 1), it, v), !.size = @ + 1]
    BY <1>1, <1>2, <2>2 DEF Text!InsertOne
  <2>4. QED
    BY <1>5, <1>11, <1>12, <1>17, <2>1, <2>3, SameCells
<1>20. Gap(c, d, m, it, n, l, a)
  <2>1. \A i \in 1 .. it : d[i] = c[i]
    <3>1. \A i \in 1 .. it : i \in 1 .. l /\ i \in 1 .. m /\ i # it + 1 /\ ~(k < i /\ i <= k + a)
      BY <1>6, <1>11
    <3>2. QED
      BY <1>10, <1>16, <1>18, <3>1
  <2>2. ASSUME a <= 1, NEW i \in it + n + 1 .. m + n PROVE d[i] = c[i - n]
    <3>1. \A x \in 1 .. l : f[x] = IF k < x /\ x <= k + a THEN e[it + (x - k)] ELSE e[x]
      BY <1>16, <2>2 DEF Shifted
    <3>2. i \in 1 .. l /\ i # it + 1 /\ k < i /\ i <= k + a /\ it + (i - k) = i - n /\ i - n \in 1 .. m
      BY <1>1, <1>6, <1>11, <1>13
    <3>3. d[i] = f[i] /\ f[i] = e[i - n] /\ e[i - n] = c[i - n]
      BY <1>10, <1>18, <3>1, <3>2
    <3>4. QED
      BY <3>3
  <2>3. QED
    BY <1>18, <2>1, <2>2 DEF Gap, Opens
<1>21. PICK vals : vals = <<v>>
  OBVIOUS
<1>22. vals \in Tuples(Elements, n) /\ (\A i \in 1 .. n : vals[i] = v) /\ Len(vals) = n
  BY <1>1, <1>21, One
<1>23. \A i \in 1 .. n : d[it + i] = vals[i]
  <2>1. \A i \in 1 .. n : i = 1
    BY <1>1
  <2>2. it + 1 \in 1 .. l
    BY <1>6
  <2>3. QED
    BY <1>18, <1>22, <2>1, <2>2
<1>24. q = SubSeq(s, 1, it) \o vals \o
             (IF a <= 1 THEN SubSeq(s, it + 1, Len(s)) ELSE SubSeq(d, it + n + 1, j))
  <2>1. r.cells = d /\ r.size = j
    BY <1>19
  <2>2. QED
    BY <1>13, <1>21, <1>22, <2>1 DEF After
<1>25. Holds(d, j, q, l)
  BY <1>4, <1>6, <1>20, <1>22, <1>23, <1>24, GapHolds
<1>26. StringRecord(r, d, j, y, b)
  BY <1>5, <1>19 DEF StringRecord
<1>27. QED
  BY <1>6, <1>25, <1>26, IsText

(* The elements that an insertion into r of n elements turns round. *)
TurnsRound(turned, r, m, it, n) == turned = m - it - (IF r.tiny THEN 0 ELSE n)

LEMMA TextInsertRangeIs ==
  ASSUME NEW m \in Nat, NEW s, NEW t \in StringsOf(m, s), NEW it \in 0 .. m,
         NEW n \in Nat, NEW vals \in Tuples(Elements, n), NEW j, j = m + n,
         NEW r, r = Text!InsertRange(t, it, vals),
         NEW turned, TurnsRound(turned, r, m, it, n), NEW q, q = After(s, r, it, vals, turned)
  PROVE  r \in StringsOf(j, q)
<1>1. Len(vals) = n
  BY TupleIs
<1>2. PICK u : u = Text!WithRoom(t, n)
  OBVIOUS
<1>3. u \in StringsOf(m, s) /\ m + n <= Text!capacity(u)
  BY <1>2, TextWithRoomIs
<1>4. PICK c, l, y, b : StringRecord(u, c, m, y, b) /\ Holds(c, m, s, l) /\ Text!capacity(u) = l
  BY <1>3, TextIs
<1>5. u = [cells |-> c, size |-> m, tiny |-> y, freed |-> FALSE, buff |-> b] /\ y \in BOOLEAN /\ b \in Nat
  BY <1>4 DEF StringRecord
<1>6. l \in Nat /\ c \in Block(l) /\ j \in Nat /\ j <= l /\ it \in Nat /\ it <= m /\ m + n <= l
  BY <1>3, <1>4 DEF Holds
<1>7. PICK f : f = Text!Opened(u, it, n)
  OBVIOUS
<1>8. turned = m - it - (IF y THEN 0 ELSE n)
  <2>1. r = [u EXCEPT !.cells = Text!Cells!CopyIn(f, vals, it), !.size = @ + n]
    BY <1>1, <1>2, <1>7 DEF Text!InsertRange
  <2>2. r.tiny = y
    BY <1>5, <2>1
  <2>3. QED
    BY <2>2 DEF TurnsRound
<1>9. Gap(c, f, m, it, n, l, turned)
  BY <1>4, <1>6, <1>7, <1>8, TextOpenedIs
<1>10. PICK d : d = Array!CopyIn(f, vals, it)
  OBVIOUS
<1>11. f \in Block(l) /\ (\A i \in 1 .. it : f[i] = c[i]) /\ (turned <= 1 => Opens(c, f, m, it, n, l))
  BY <1>9 DEF Gap
<1>12. Overlaid(f, d, vals, n, it, l)
  BY <1>6, <1>10, <1>11, CopyInIs
<1>13. d \in Block(l) /\ \A i \in 1 .. l : d[i] = IF it < i /\ i <= it + n THEN vals[i - it] ELSE f[i]
  BY <1>12 DEF Overlaid
<1>14. r = [cells |-> d, size |-> j, tiny |-> y, freed |-> FALSE, buff |-> b]
  <2>1. r = [u EXCEPT !.cells = Text!Cells!CopyIn(f, vals, it), !.size = @ + n]
    BY <1>1, <1>2, <1>7 DEF Text!InsertRange
  <2>2. QED
    BY <1>5, <1>10, <2>1, SameCopyIn
<1>15. Gap(c, d, m, it, n, l, turned)
  <2>1. \A i \in 1 .. it : i \in 1 .. l /\ ~(it < i /\ i <= it + n)
    BY <1>6
  <2>2. \A i \in it + n + 1 .. m + n : i \in 1 .. l /\ ~(it < i /\ i <= it + n)
    BY <1>6
  <2>3. \A i \in 1 .. it : d[i] = c[i]
    BY <1>11, <1>13, <2>1
  <2>4. ASSUME turned <= 1 PROVE \A i \in it + n + 1 .. m + n : d[i] = c[i - n]
    <3>1. \A i \in it + n + 1 .. m + n : f[i] = c[i - n]
      BY <1>11, <2>4 DEF Opens
    <3>2. QED
      BY <1>13, <2>2, <3>1
  <2>5. QED
    BY <1>13, <2>3, <2>4 DEF Gap, Opens
<1>16. \A i \in 1 .. n : d[it + i] = vals[i]
  <2>1. \A i \in 1 .. n : it + i \in 1 .. l /\ it < it + i /\ it + i <= it + n /\ (it + i) - it = i
    BY <1>6
  <2>2. QED
    BY <1>13, <2>1
<1>17. q = SubSeq(s, 1, it) \o vals \o
             (IF turned <= 1 THEN SubSeq(s, it + 1, Len(s)) ELSE SubSeq(d, it + n + 1, j))
  <2>1. r.cells = d /\ r.size = j /\ r.tiny = y
    BY <1>14
  <2>2. QED
    BY <1>1, <1>8, <2>1 DEF After
<1>18. Holds(d, j, q, l)
  BY <1>4, <1>6, <1>15, <1>16, <1>17, GapHolds
<1>19. StringRecord(r, d, j, y, b)
  BY <1>5, <1>14 DEF StringRecord
<1>20. QED
  BY <1>6, <1>18, <1>19, IsText

(* A string without the elements of a range. *)
LEMMA TextErasedIs ==
  ASSUME NEW m \in Nat, NEW s, NEW t \in StringsOf(m, s), NEW first \in 0 .. m, NEW last \in first .. m,
         NEW j, j = m - (last - first), NEW q, q = SubSeq(s, 1, first) \o SubSeq(s, last + 1, Len(s)),
         NEW r, r = Text!Erased(t, first, last)
  PROVE  r \in StringsOf(j, q)
<1>1. PICK c, l, y, b : StringRecord(t, c, m, y, b) /\ Holds(c, m, s, l) /\ Text!capacity(t) = l
  BY TextIs
<1>2. t = [cells |-> c, size |-> m, tiny |-> y, freed |-> FALSE, buff |-> b] /\ y \in BOOLEAN /\ b \in Nat
  BY <1>1 DEF StringRecord
<1>3. PICK d : d = Array!copy(c, last, m, first)
  OBVIOUS
<1>4. r = [cells |-> d, size |-> j, tiny |-> y, freed |-> FALSE, buff |-> b]
  <2>1. r = [t EXCEPT !.cells = Text!Cells!copy(t.cells, last, t.size, first), !.size = @ - (last - first)]
    BY DEF Text!Erased
  <2>2. QED
    BY <1>2, <1>3, <2>1, SameCopies
<1>5. Holds(d, j, q, l)
  BY <1>1, <1>3, ErasedHolds
<1>6. StringRecord(r, d, j, y, b)
  BY <1>2, <1>4 DEF StringRecord
<1>7. j \in Nat
  OBVIOUS
<1>8. QED
  BY <1>5, <1>6, <1>7, IsText

(* A new string, of a buffer of b places. *)
LEMMA BuiltIs ==
  ASSUME NEW m \in Nat, NEW s \in Tuples(Elements, m), NEW b \in Nat, NEW t, t = Text!Built(b, s)
  PROVE  t \in StringsOf(m, s)
<1>1. Len(s) = m
  BY TupleIs
<1>2. PICK y \in BOOLEAN : y = (b > 0 /\ m <= b)
  OBVIOUS
<1>3. PICK c : c = IF y THEN s \o [i \in 1 .. b - m |-> Raw] ELSE s
  OBVIOUS
<1>4. t = [cells |-> c, size |-> m, tiny |-> y, freed |-> FALSE, buff |-> b]
  BY <1>1, <1>2, <1>3 DEF Text!Built, Text!Padded
<1>5. PICK l : l = IF y THEN b ELSE m
  OBVIOUS
<1>6. Holds(c, m, s, l)
  <2>1. CASE y
    BY <1>2, <1>3, <1>5, <2>1, PaddedHolds
  <2>2. CASE ~y
    <3>1. l = m /\ c = s /\ m \in 0 .. l
      BY <1>3, <1>5, <2>2
    <3>2. QED
      BY <3>1 DEF Holds, Block, Tuples
  <2>3. QED
    BY <2>1, <2>2
<1>7. StringRecord(t, c, m, y, b)
  BY <1>4 DEF StringRecord
<1>8. QED
  BY <1>6, <1>7, IsText

(* A string that has used memory it freed may be anything. *)
TextInv == rep.freed \/ (Len(items) \in Nat /\ rep \in StringsOf(Len(items), items))

(* A string of the elements that should be there keeps it. *)
LEMMA TextBecomes ==
  ASSUME NEW j \in Nat, NEW q, NEW r \in StringsOf(j, q), rep' = r, items' = q
  PROVE  TextInv'
<1>1. q \in Tuples(Elements, j)
  BY DEF StringsOf, Holds
<1>2. Len(q) = j
  BY <1>1, TupleIs
<1>3. QED
  BY <1>2 DEF TextInv

(* What is inserted, or a string is made from, are elements. *)
LEMMA TextsBounded ==
  \A s \in Text!Cells!Given : Len(s) \in Nat /\ s \in Tuples(Elements, Len(s))
BY ArraysBounded, SameNames

(* It holds at first, *)
LEMMA TextStarts == Text!Init => TextInv
<1> SUFFICES ASSUME Text!Init PROVE TextInv
  OBVIOUS
<1>1. PICK b \in BuffSizes, s \in Text!Cells!Given : rep = Text!Built(b, s) /\ items = s
  BY DEF Text!Init
<1>2. PICK m \in Nat : m = Len(s) /\ s \in Tuples(Elements, m)
  BY TextsBounded
<1>3. b \in Nat
  BY SequencesAssumption
<1>4. PICK t : t = Text!Built(b, s)
  OBVIOUS
<1>5. t \in StringsOf(m, s)
  BY <1>2, <1>3, <1>4, BuiltIs
<1>6. QED
  BY <1>1, <1>2, <1>4, <1>5 DEF TextInv

(* Of a part of s, as substr() takes it. *)
LEMMA SubstringIs ==
  ASSUME NEW m \in Nat, NEW s \in Tuples(Elements, m), NEW start_idx \in Nat, NEW len \in Nat,
         NEW q, q = Text!Substring(s, start_idx, len)
  PROVE  /\ q \in Tuples(Elements, Len(q)) /\ Len(q) \in Nat
         /\ SubSeq(s, start_idx + 1, start_idx + Len(q)) = q
<1>1. Len(s) = m
  BY TupleIs
<1>2. CASE start_idx > m
  <2>1. q = <<>>
    BY <1>1, <1>2 DEF Text!Substring
  <2>2. SubSeq(s, start_idx + 1, start_idx + Len(q)) = <<>>
    BY <1>1, <2>1
  <2>3. QED
    BY <2>1, <2>2 DEF Tuples
<1>3. CASE ~(start_idx > m)
  <2>1. PICK j \in Nat : j = IF len < m - start_idx THEN start_idx + len ELSE m
    BY <1>3
  <2>2. PICK i : i = start_idx + 1
    OBVIOUS
  <2>3. q = SubSeq(s, i, j)
    BY <1>1, <1>3, <2>1, <2>2 DEF Text!Substring
  <2>4. PICK n \in Nat : n = j - start_idx
    BY <1>3, <2>1
  <2>5. start_idx \in 0 .. m /\ j \in start_idx .. m
    BY <1>3, <2>1
  <2>6. Part(q, Elements, s, start_idx, n)
    BY <2>2, <2>3, <2>4, <2>5, PartIs
  <2>7. q \in Tuples(Elements, n) /\ Len(q) = n
    BY <2>6 DEF Part
  <2>8. start_idx + Len(q) = j
    BY <2>4, <2>7
  <2>9. QED
    BY <2>2, <2>3, <2>7, <2>8
<1>4. QED
  BY <1>2, <1>3

(* Other elements in the place of the old ones. *)
LEMMA ReplacedIs ==
  ASSUME NEW m \in Nat, NEW s, NEW t \in StringsOf(m, s), NEW q \in Tuples(Elements, m),
         NEW r, r = [t EXCEPT !.cells = q \o SubSeq(@, m + 1, Len(@))]
  PROVE  r \in StringsOf(m, q)
<1>1. PICK c, l, y, b : StringRecord(t, c, m, y, b) /\ Holds(c, m, s, l) /\ Text!capacity(t) = l
  BY TextIs
<1>2. t = [cells |-> c, size |-> m, tiny |-> y, freed |-> FALSE, buff |-> b] /\ y \in BOOLEAN /\ b \in Nat
  BY <1>1 DEF StringRecord
<1>3. l \in Nat /\ m \in 0 .. l /\ c \in Tuples(Elements, l) /\ s \in Tuples(Elements, m)
  BY <1>1 DEF Holds, Block, Tuples
<1>4. PICK i : i = m + 1
  OBVIOUS
<1>5. PICK x : x = SubSeq(c, i, l)
  OBVIOUS
<1>6. PICK n \in Nat : n = l - m
  BY <1>3
<1>7. l \in m .. l
  BY <1>3
<1>8. Part(x, Elements, c, m, n)
  BY <1>3, <1>4, <1>5, <1>6, <1>7, PartIs
<1>9. x \in Tuples(Elements, n)
  BY <1>8 DEF Part
<1>10. PICK d : d = q \o x
  OBVIOUS
<1>11. l = m + n
  BY <1>3, <1>6
<1>12. Concat(d, Elements, l, q, m, x, n)
  BY <1>9, <1>10, <1>11, ConcatIs
<1>13. Holds(d, m, q, l)
  BY <1>3, <1>12 DEF Concat, Holds, Block, Tuples
<1>14. Len(c) = l
  BY <1>3, TupleIs
<1>15. r = [cells |-> d, size |-> m, tiny |-> y, freed |-> FALSE, buff |-> b]
  BY <1>2, <1>4, <1>5, <1>10, <1>14
<1>16. StringRecord(r, d, m, y, b)
  BY <1>2, <1>15 DEF StringRecord
<1>17. QED
  BY <1>13, <1>16, IsText

(* The first elements of a string, in the same cells. *)
LEMMA TextEmptier ==
  ASSUME NEW m \in Nat, NEW s, NEW t \in StringsOf(m, s), NEW n \in 0 .. m, NEW q \in Tuples(Elements, n),
         \A i \in 1 .. n : q[i] = s[i], NEW r, r = [t EXCEPT !.size = n]
  PROVE  r \in StringsOf(n, q)
<1>1. PICK c, l, y, b : StringRecord(t, c, m, y, b) /\ Holds(c, m, s, l) /\ Text!capacity(t) = l
  BY TextIs
<1>2. t = [cells |-> c, size |-> m, tiny |-> y, freed |-> FALSE, buff |-> b] /\ y \in BOOLEAN /\ b \in Nat
  BY <1>1 DEF StringRecord
<1>3. Holds(c, n, q, l)
  BY <1>1, FirstOnes
<1>4. r = [cells |-> c, size |-> n, tiny |-> y, freed |-> FALSE, buff |-> b]
  BY <1>2
<1>5. n \in Nat
  OBVIOUS
<1>6. StringRecord(r, c, n, y, b)
  BY <1>2, <1>4 DEF StringRecord
<1>7. QED
  BY <1>3, <1>6, <1>5, IsText

(* The empty string. *)
LEMMA EmptyIs ==
  ASSUME NEW b \in Nat, NEW n, n = 0, NEW q, q = <<>>, NEW r, r = Text!Built(b, <<>>)
  PROVE  r \in StringsOf(n, q)
<1>1. n \in Nat /\ q \in Tuples(Elements, n) /\ r = Text!Built(b, q)
  BY DEF Tuples
<1>2. QED
  BY <1>1, BuiltIs

(* and every operation of the string keeps it. *)
LEMMA TextKeeps == TextInv /\ Text!Next => TextInv'
<1> SUFFICES ASSUME TextInv, Text!Next PROVE TextInv'
  OBVIOUS
<1>1. ASSUME rep' = rep, items' = items PROVE TextInv'
  BY <1>1 DEF TextInv
<1>2. ASSUME NEW t, NEW q, Text!Become(t, q), NEW j \in Nat, ~rep.freed => t \in StringsOf(j, q) PROVE TextInv'
  BY <1>2, TextBecomes DEF Text!Become
<1>3. ASSUME NEW t, NEW q, Text!Become(t, q) PROVE ~rep.freed
  BY <1>3 DEF Text!Become
<1>4. CASE rep.freed
  <2>1. ASSUME NEW t, NEW q, Text!Become(t, q) PROVE FALSE
    BY <1>3, <1>4, <2>1
  <2>2. \A it, vals : ~Text!insert(it, vals) /\ ~Text!insert_range(it, vals) /\ ~Text!erase(it, vals)
    BY <2>1 DEF Text!insert, Text!insert_range, Text!erase
  <2>3. \A v, w : ~Text!push_back(v) /\ ~Text!replace(v, w) /\ ~Text!assign_substr(v, w)
    BY <2>1 DEF Text!push_back, Text!replace, Text!assign_substr
  <2>4. ~Text!clear /\ ~Text!assign_away
    BY <2>1 DEF Text!clear, Text!assign_away
  <2>5. Text!pop_back => rep' = rep /\ items' = items
    BY <2>1 DEF Text!pop_back
  <2>6. \A n : Text!reserve(n) => rep' = rep /\ items' = items
    BY <2>1 DEF Text!reserve
  <2>7. Text!move_away => rep' = rep /\ items' = items
    BY <2>1 DEF Text!move_away
  <2>8. QED
    BY <1>1, <2>2, <2>3, <2>4, <2>5, <2>6, <2>7 DEF Text!Next
<1>5. CASE ~rep.freed
  <2>1. PICK m \in Nat : m = Len(items) /\ rep \in StringsOf(m, items)
    BY <1>5 DEF TextInv
  <2>2. PICK c, l, y, b : StringRecord(rep, c, m, y, b) /\ Holds(c, m, items, l) /\ Text!capacity(rep) = l
    BY <2>1, TextIs
  <2>3. rep = [cells |-> c, size |-> m, tiny |-> y, freed |-> FALSE, buff |-> b] /\ y \in BOOLEAN /\ b \in Nat
    BY <2>2 DEF StringRecord
  <2>4. l \in Nat /\ m \in 0 .. l /\ items \in Tuples(Elements, m) /\ \A i \in 1 .. m : items[i] \in Elements
    BY <2>2 DEF Holds, Tuples
  <2>5. Text!Content(rep) = items
    BY <2>2, <2>3, ContentIs DEF Text!Content
  <2>6. ASSUME NEW v \in Values, Text!push_back(v) PROVE TextInv'
    <3>1. PICK j \in Nat : j = m + 1
      OBVIOUS
    <3>2. PICK q : q = Append(items, v)
      OBVIOUS
    <3>3. PICK r : r = Text!Appended(rep, v)
      OBVIOUS
    <3>4. r \in StringsOf(j, q)
      BY <2>1, <3>1, <3>2, <3>3, AppendedIs, ValuesAreElements
    <3>5. QED
      BY <1>2, <2>6, <3>2, <3>3, <3>4 DEF Text!push_back
  <2>7. CASE Text!pop_back
    <3>1. CASE m = 0
      BY <1>1, <2>3, <2>7, <3>1 DEF Text!pop_back
    <3>2. CASE m # 0
      <4>1. PICK n : n = m - 1
        OBVIOUS
      <4>2. PICK q : q = SubSeq(items, 1, Len(items) - 1)
        OBVIOUS
      <4>3. n \in Nat /\ n \in 0 .. m /\ Part(q, Elements, items, 0, n)
        BY <2>4, <3>2, <4>1, <4>2, FrontIs
      <4>4. q \in Tuples(Elements, n) /\ \A i \in 1 .. n : q[i] = items[i]
        BY <4>3 DEF Part
      <4>5. PICK r : r = [rep EXCEPT !.size = n]
        OBVIOUS
      <4>6. r \in StringsOf(n, q)
        BY <2>1, <4>3, <4>4, <4>5, TextEmptier
      <4>7. Text!Become(r, q)
        BY <2>3, <2>7, <3>2, <4>1, <4>2, <4>5 DEF Text!pop_back
      <4>8. QED
        BY <1>2, <4>3, <4>6, <4>7
    <3>3. QED
      BY <3>1, <3>2
  <2>8. ASSUME NEW it \in Text!Position, NEW v \in Values, Text!insert(it, v) PROVE TextInv'
    <3>1. PICK j \in Nat : j = m + 1
      OBVIOUS
    <3>2. PICK r : r = Text!InsertOne(rep, it, v)
      OBVIOUS
    <3>3. PICK q : q = After(items, r, it, <<v>>, m - it)
      OBVIOUS
    <3>4. it \in 0 .. m
      BY <2>3 DEF Text!Position
    <3>5. r \in StringsOf(j, q)
      BY <2>1, <3>1, <3>2, <3>3, <3>4, TextInsertOneIs, ValuesAreElements
    <3>6. rep.size - it = m - it
      BY <2>3
    <3>7. Text!Become(r, q)
      BY <2>8, <3>2, <3>3, <3>6 DEF Text!insert, Text!After, After
    <3>8. QED
      BY <1>2, <3>5, <3>7
  <2>9. ASSUME NEW it \in Text!Position, NEW vals \in Text!Cells!Given,
               Text!insert_range(it, vals)
        PROVE  TextInv'
    <3>1. PICK n \in Nat : n = Len(vals) /\ vals \in Tuples(Elements, n)
      BY TextsBounded
    <3>2. PICK j \in Nat : j = m + n
      OBVIOUS
    <3>3. PICK r : r = Text!InsertRange(rep, it, vals)
      OBVIOUS
    <3>4. PICK turned : turned = m - it - (IF r.tiny THEN 0 ELSE n)
      OBVIOUS
    <3>5. TurnsRound(turned, r, m, it, n)
      BY <3>4 DEF TurnsRound
    <3>6. PICK q : q = After(items, r, it, vals, turned)
      OBVIOUS
    <3>7. it \in 0 .. m
      BY <2>3 DEF Text!Position
    <3>8. r \in StringsOf(j, q)
      BY <2>1, <3>1, <3>2, <3>3, <3>6, <3>7, <3>5, TextInsertRangeIs
    <3>9. rep.size - it - (IF r.tiny THEN 0 ELSE Len(vals)) = turned
      BY <2>3, <3>1, <3>4
    <3>10. Text!Become(r, q)
      BY <2>9, <3>3, <3>6, <3>9 DEF Text!insert_range, Text!After, After
    <3>11. QED
      BY <1>2, <3>8, <3>10
  <2>10. ASSUME NEW first \in Text!Position, NEW last \in first .. rep.size, Text!erase(first, last) PROVE TextInv'
    <3>1. first \in 0 .. m /\ last \in first .. m
      BY <2>3 DEF Text!Position
    <3>2. PICK j : j = m - (last - first)
      OBVIOUS
    <3>3. PICK q : q = SubSeq(items, 1, first) \o SubSeq(items, last + 1, Len(items))
      OBVIOUS
    <3>4. PICK r : r = Text!Erased(rep, first, last)
      OBVIOUS
    <3>5. r \in StringsOf(j, q)
      BY <2>1, <3>1, <3>2, <3>3, <3>4, TextErasedIs
    <3>6. j \in Nat
      BY <3>1, <3>2
    <3>7. QED
      BY <1>2, <2>10, <3>3, <3>4, <3>5, <3>6 DEF Text!erase
  <2>11. CASE Text!clear
    <3>1. PICK q : q = <<>>
      OBVIOUS
    <3>2. PICK n : n = 0
      OBVIOUS
    <3>3. n \in Nat /\ n \in 0 .. m /\ q \in Tuples(Elements, n) /\ \A i \in 1 .. n : q[i] = items[i]
      BY <3>1, <3>2 DEF Tuples
    <3>4. PICK r : r = [rep EXCEPT !.size = n]
      OBVIOUS
    <3>5. r \in StringsOf(n, q)
      BY <2>1, <3>3, <3>4, TextEmptier
    <3>6. QED
      BY <1>2, <2>11, <3>1, <3>2, <3>3, <3>4, <3>5 DEF Text!clear
  <2>12. ASSUME NEW val \in Values, NEW new_val \in Values, Text!replace(val, new_val) PROVE TextInv'
    <3>1. PICK q : q = [i \in 1 .. m |-> IF items[i] = val THEN new_val ELSE items[i]]
      OBVIOUS
    <3>2. PICK r : r = [rep EXCEPT !.cells = q \o SubSeq(@, m + 1, Len(@))]
      OBVIOUS
    <3>3. q \in Tuples(Elements, m)
      BY <2>4, <3>1, ValuesAreElements DEF Tuples
    <3>4. r \in StringsOf(m, q)
      BY <2>1, <3>2, <3>3, ReplacedIs
    <3>5. rep.size = m
      BY <2>3
    <3>6. Text!Become(r, q)
      BY <2>1, <2>5, <2>12, <3>1, <3>2, <3>5 DEF Text!replace
    <3>7. QED
      BY <1>2, <3>4, <3>6
  <2>13. ASSUME NEW n \in Nat, Text!reserve(n) PROVE TextInv'
    <3>1. PICK r : r = Text!Moved(rep, n)
      OBVIOUS
    <3>2. m <= n
      BY <2>2, <2>4, <2>13 DEF Text!reserve
    <3>3. r \in StringsOf(m, items)
      BY <2>1, <3>1, <3>2, MovedText
    <3>4. ASSUME Text!Become([rep EXCEPT !.freed = TRUE], items) PROVE TextInv'
      <4>1. rep' = [rep EXCEPT !.freed = TRUE]
        BY <3>4 DEF Text!Become
      <4>2. rep'.freed
        BY <2>3, <4>1
      <4>3. QED
        BY <4>2 DEF TextInv
    <3>5. QED
      BY <1>1, <1>2, <2>13, <3>1, <3>3, <3>4 DEF Text!reserve
  <2>14. ASSUME NEW start_idx \in Nat, NEW len \in Nat, Text!assign_substr(start_idx, len) PROVE TextInv'
    <3>1. PICK q : q = Text!Substring(items, start_idx, len)
      OBVIOUS
    <3>2. /\ q \in Tuples(Elements, Len(q)) /\ Len(q) \in Nat
          /\ SubSeq(items, start_idx + 1, start_idx + Len(q)) = q
      BY <2>4, <3>1, SubstringIs
    <3>3. PICK j \in Nat : j = Len(q)
      BY <3>2
    <3>4. PICK r : r = Text!Built(b, q)
      OBVIOUS
    <3>5. r \in StringsOf(j, q)
      BY <2>3, <3>2, <3>3, <3>4, BuiltIs
    <3>6. Text!Become(r, q)
      BY <2>3, <2>5, <2>14, <3>1, <3>2, <3>4 DEF Text!assign_substr
    <3>7. QED
      BY <1>2, <3>5, <3>6
  <2>15. Text!Become(Text!Built(rep.buff, <<>>), <<>>) => TextInv'
    <3>1. PICK n : n = 0
      OBVIOUS
    <3>2. PICK q : q = <<>>
      OBVIOUS
    <3>3. PICK r : r = Text!Built(b, <<>>)
      OBVIOUS
    <3>4. r \in StringsOf(n, q)
      BY <2>3, <3>1, <3>2, <3>3, EmptyIs
    <3>5. n \in Nat /\ rep.buff = b
      BY <2>3, <3>1
    <3>6. QED
      BY <1>2, <3>2, <3>3, <3>4, <3>5
  <2>16. Text!move_away \/ Text!assign_away => TextInv'
    BY <1>1, <2>15 DEF Text!move_away, Text!assign_away
  <2>17. \A n : n \in 0 .. MaxInsert \/ n \in 0 .. MaxText => n \in Nat
    OBVIOUS
  <2>18. QED
    BY <2>6, <2>7, <2>8, <2>9, <2>10, <2>11, <2>12, <2>13, <2>14, <2>16, <2>17 DEF Text!Next
<1>6. QED
  BY <1>4, <1>5

(* The string then holds its elements, and compares as their sequence does. *)
LEMMA TextIsString == TextInv => Text!IsString
<1> SUFFICES ASSUME TextInv, ~rep.freed
             PROVE  /\ Text!Content(rep) = items
                    /\ rep.buff = 0 => \A s \in Text!Cells!Given :
                                         Text!Equal(rep, Text!Built(0, s)) <=> s = items
  BY DEF Text!IsString
<1>1. PICK m \in Nat : m = Len(items) /\ rep \in StringsOf(m, items)
  BY DEF TextInv
<1>2. PICK c, l, y, b : StringRecord(rep, c, m, y, b) /\ Holds(c, m, items, l) /\ Text!capacity(rep) = l
  BY <1>1, TextIs
<1>3. rep = [cells |-> c, size |-> m, tiny |-> y, freed |-> FALSE, buff |-> b] /\ y \in BOOLEAN /\ b \in Nat
  BY <1>2 DEF StringRecord
<1>4. l \in Nat /\ m <= l /\ c \in Tuples(Elements, l) /\ items \in Tuples(Elements, m)
      /\ \A i \in 1 .. m : c[i] = items[i]
  BY <1>2 DEF Holds, Block, Tuples
<1>5. Text!Content(rep) = items
  BY <1>2, <1>3, ContentIs DEF Text!Content
<1>6. ASSUME rep.buff = 0, NEW s \in Text!Cells!Given
      PROVE  Text!Equal(rep, Text!Built(0, s)) <=> s = items
  <2>1. PICK n \in Nat : n = Len(s) /\ s \in Tuples(Elements, n)
    BY TextsBounded
  <2>2. PICK u : u = Text!Built(0, s)
    OBVIOUS
  <2>3. u.cells = s /\ u.size = n
    BY <2>1, <2>2 DEF Text!Built
  <2>4. Len(c) = l
    BY <1>4, TupleIs
  <2>5. Text!Equal(rep, u) <=> m = n /\ \A i \in 0 .. m - 1 : Array!At(c, i) = Array!At(s, i)
    BY <1>3, <1>6, <2>3, SameCells DEF Text!Equal
  <2>6. ASSUME m = n PROVE (\A i \in 0 .. m - 1 : Array!At(c, i) = Array!At(s, i)) <=> s = items
    <3>1. \A i \in 0 .. m - 1 : i + 1 \in 1 .. m /\ Array!At(c, i) = items[i + 1] /\ Array!At(s, i) = s[i + 1]
      <4>1. ASSUME NEW i \in 0 .. m - 1
            PROVE  i + 1 \in 1 .. m /\ Array!At(c, i) = items[i + 1] /\ Array!At(s, i) = s[i + 1]
        <5>1. i \in 0 .. l - 1 /\ i + 1 \in 1 .. m /\ i \in 0 .. n - 1
          BY <1>4, <2>6
        <5>2. QED
          BY <1>4, <2>1, <2>4, <5>1 DEF Array!At
      <4>2. QED
        BY <4>1
    <3>2. ASSUME \A i \in 0 .. m - 1 : Array!At(c, i) = Array!At(s, i) PROVE s = items
      <4>1. ASSUME NEW i \in 1 .. m PROVE s[i] = items[i]
        <5>1. PICK h \in 0 .. m - 1 : i = h + 1
          <6>1. i - 1 \in 0 .. m - 1 /\ i = (i - 1) + 1
            OBVIOUS
          <6>2. QED
            BY <6>1
        <5>2. Array!At(c, h) = Array!At(s, h) /\ Array!At(c, h) = items[i] /\ Array!At(s, h) = s[i]
          BY <3>1, <3>2, <5>1
        <5>3. QED
          BY <5>2
      <4>2. s \in Tuples(Elements, m)
        BY <2>1, <2>6
      <4>3. QED
        BY <1>4, <4>1, <4>2, SameTuples
    <3>3. ASSUME s = items PROVE \A i \in 0 .. m - 1 : Array!At(c, i) = Array!At(s, i)
      BY <3>1, <3>3
    <3>4. QED
      BY <3>2, <3>3
  <2>7. s = items => m = n
    BY <1>1, <2>1
  <2>8. QED
    BY <2>2, <2>5, <2>6, <2>7
<1>7. QED
  BY <1>5, <1>6

-----------------------------------------------------------------------------
(* The lists                                                                 *)

(* What a list holds, and its places: its nodes, the one before the first and the *)
(* one behind the last.                                                           *)
Things == Values \cup {Default}
Places == (1 .. MaxNodes) \cup {0, -1}
Lists == [double : BOOLEAN, next : [Places -> Int], prev : [Places -> Int],
          val : [1 .. MaxNodes -> Things \cup {0}]]

(* t is linked along the n + 2 places p and holds s. *)
Chain(t, p, s, n) ==
  /\ t \in Lists /\ n \in 0 .. MaxNodes /\ s \in Tuples(Things, n)
  /\ p \in [0 .. n + 1 -> Places] /\ p[0] = 0 /\ p[n + 1] = -1
  /\ \A k \in 1 .. n : p[k] \in 1 .. MaxNodes
  /\ \A h, k \in 0 .. n + 1 : p[h] = p[k] => h = k
  /\ \A k \in 0 .. n : t.next[p[k]] = p[k + 1]
  /\ t.double => \A k \in 1 .. n + 1 : t.prev[p[k]] = p[k - 1]
  /\ \A k \in 1 .. n : t.val[p[k]] = s[k]

(* The walk along p from h on. *)
Walked(r, p, h, w) == Len(r) = w /\ r = [k \in 1 .. w |-> p[h + k - 1]]

(* The assumptions, as the proofs use them. *)
LEMMA Bounds == MaxNodes \in Nat /\ 0 \notin Things
BY SequencesAssumption DEF Things, List!Unused

(* A loop over next from a place to a later one comes to those in between. *)
LEMMA WalkIs ==
  ASSUME NEW t, NEW p, NEW s, NEW n, Chain(t, p, s, n), NEW h \in 0 .. n + 1, NEW j \in h .. n + 1,
         NEW a, a = p[h], NEW b, b = p[j], NEW w, w = j - h, NEW r, r = List!Walk(t, a, b)
  PROVE  Walked(r, p, h, w)
<1> DEFINE B(x) == IF x = b THEN b ELSE t.next[x]
           m == MaxNodes + 1
           S == {p[k] : k \in h .. j}
           F == [x \in (1 .. m) \X S |-> B(x[2])]
           T(g) == g = [k \in 0 .. m |-> IF k = 0 THEN a ELSE B(g[k - 1])]
           f == CHOOSE g : T(g)
           turns == CHOOSE i \in 0 .. m : f[i] = b /\ \A k \in 0 .. i - 1 : f[k] # b
<1>1. n \in Nat /\ n <= MaxNodes /\ MaxNodes \in Nat /\ m \in Nat /\ h \in Nat /\ j \in Nat /\ w \in Nat /\ w <= m
      /\ h <= j /\ j <= n + 1 /\ j = h + w
  BY Bounds DEF Chain
<1>2. r = [k \in 1 .. turns |-> f[k - 1]]
  BY DEF List!Walk
<1>3. \A k \in h .. j : p[k] = b => k = j
  <2>1. \A x, y \in 0 .. n + 1 : p[x] = p[y] => x = y
    BY DEF Chain
  <2>2. j \in 0 .. n + 1 /\ \A k \in h .. j : k \in 0 .. n + 1
    BY <1>1
  <2>3. QED
    BY <2>1, <2>2
<1>4. \A k \in h .. j - 1 : B(p[k]) = p[k + 1] /\ k \in h .. j /\ k + 1 \in h .. j /\ p[k] # b
  <2>1. ASSUME NEW k \in h .. j - 1 PROVE k \in 0 .. n /\ k \in h .. j /\ k # j /\ k + 1 \in h .. j
    BY <1>1
  <2>2. \A k \in 0 .. n : t.next[p[k]] = p[k + 1]
    BY DEF Chain
  <2>3. QED
    BY <1>3, <2>1, <2>2
<1>5. \A x \in S : B(x) \in S
  <2>1. ASSUME NEW k \in h .. j PROVE B(p[k]) \in S
    <3>1. CASE k = j
      BY <3>1
    <3>2. CASE k # j
      <4>1. k \in h .. j - 1
        BY <1>1, <3>2
      <4>2. QED
        BY <1>4, <4>1
    <3>3. QED
      BY <3>1, <3>2
  <2>2. QED
    BY <2>1
<1>6. a \in S
  <2>1. h \in h .. j
    BY <1>1
  <2>2. QED
    BY <2>1
<1> HIDE DEF B, S, m
<1>7. \A k \in 1 .. m : \A x \in S : F[<<k, x>>] \in S /\ F[<<k, x>>] = B(x)
  BY <1>5
<1> HIDE DEF F
<1>8. PICK g \in [0 .. m -> S] : Runs(g, m, a, F)
  BY <1>1, <1>6, <1>7, TurnsExist
<1>9. \A k \in 1 .. m : g[k] = B(g[k - 1])
  <2>1. \A k \in 1 .. m : g[k - 1] \in S
    BY <1>1, <1>8
  <2>2. QED
    BY <1>7, <1>8, <2>1 DEF Runs
<1>10. T(g)
  <2>1. \A k \in 0 .. m : g[k] = IF k = 0 THEN a ELSE B(g[k - 1])
    BY <1>1, <1>8, <1>9 DEF Runs
  <2>2. QED
    BY <1>8, <2>1
<1>11. T(f)
  BY <1>10
<1> HIDE DEF f
<1>12. f[0] = a /\ \A k \in 1 .. m : f[k] = B(f[k - 1])
  <2>1. \A k \in 0 .. m : f[k] = IF k = 0 THEN a ELSE B(f[k - 1])
    BY <1>11
  <2> HIDE DEF T
  <2>2. 0 \in 0 .. m /\ \A k \in 1 .. m : k \in 0 .. m /\ k # 0
    BY <1>1
  <2>3. QED
    BY <2>1, <2>2
<1>13. \A k \in 0 .. w : f[k] = p[h + k]
  <2> DEFINE G == {k \in 0 .. w : f[k] = p[h + k]}
  <2>1. 0 \in G
    BY <1>1, <1>12
  <2>2. ASSUME NEW k \in 1 .. w, k - 1 \in G PROVE k \in G
    <3>1. f[k - 1] = p[h + (k - 1)] /\ k \in 1 .. m
      BY <1>1, <2>2
    <3>2. PICK x : x = h + (k - 1)
      OBVIOUS
    <3>3. x \in h .. j - 1 /\ x + 1 = h + k
      BY <1>1, <3>2
    <3>4. B(p[x]) = p[x + 1]
      BY <1>4, <3>3
    <3>5. f[k] = p[h + k]
      BY <1>12, <3>1, <3>2, <3>3, <3>4
    <3>6. QED
      BY <3>5, <1>1
  <2> HIDE DEF G
  <2>3. \A k \in 0 .. w : k \in G
    BY <1>1, <2>1, <2>2, UpTo
  <2>4. QED
    BY <2>3 DEF G
<1>14. \A k \in 0 .. w : f[k] = b <=> k = w
  <2>1. ASSUME NEW k \in 0 .. w PROVE f[k] = b <=> k = w
    <3>1. h + k \in h .. j /\ (h + k = j <=> k = w)
      BY <1>1
    <3>2. QED
      BY <1>3, <1>13, <3>1
  <2>2. QED
    BY <2>1
<1>15. turns = w
  <2>1. w \in 0 .. m /\ f[w] = b /\ \A k \in 0 .. w - 1 : f[k] # b
    <3>1. w \in 0 .. w /\ \A k \in 0 .. w - 1 : k \in 0 .. w /\ k # w
      BY <1>1
    <3>2. QED
      BY <1>1, <1>14, <3>1
  <2>2. ASSUME NEW i \in 0 .. m, f[i] = b, \A k \in 0 .. i - 1 : f[k] # b PROVE i = w
    <3>1. CASE i < w
      <4>1. i \in 0 .. w /\ i # w
        BY <1>1, <3>1
      <4>2. QED
        BY <1>14, <2>2, <4>1
    <3>2. CASE i > w
      <4>1. w \in 0 .. i - 1
        BY <1>1, <3>2
      <4>2. QED
        BY <2>1, <2>2, <4>1
    <3>3. i < w \/ i = w \/ i > w
      BY <1>1
    <3>4. QED
      BY <3>1, <3>2, <3>3
  <2>3. QED
    BY <2>1, <2>2
<1> HIDE DEF turns
<1>16. \A k \in 1 .. w : f[k - 1] = p[h + k - 1]
  <2>1. ASSUME NEW k \in 1 .. w PROVE f[k - 1] = p[h + k - 1]
    <3>1. PICK i : i = k - 1
      OBVIOUS
    <3>2. i \in 0 .. w /\ h + i = h + k - 1
      BY <1>1, <3>1
    <3>3. QED
      BY <1>13, <3>1, <3>2
  <2>2. QED
    BY <2>1
<1>17. r = [k \in 1 .. w |-> p[h + k - 1]]
  BY <1>2, <1>15, <1>16
<1>18. QED
  BY <1>1, <1>17 DEF Walked

(* The nodes in their order, the others not in use. *)
Place(n, k) == IF k <= n THEN k ELSE -1
Straight(n) == [k \in 0 .. n + 1 |-> Place(n, k)]
Line(t, s, n) == Chain(t, Straight(n), s, n) /\ \A a \in n + 1 .. MaxNodes : t.val[a] = 0

(* k nodes for vals added to t behind p, the last of them not linked any further. *)
Added(u, t, n, p, vals, k) ==
  /\ u \in [list : Lists, last : Places] /\ u.list.double = t.double
  /\ u.last = IF k = 0 THEN p ELSE n + k
  /\ \A a \in Places : u.list.next[a] =
       IF k > 0 /\ a = p THEN n + 1 ELSE IF n < a /\ a < n + k THEN a + 1 ELSE t.next[a]
  /\ t.double => \A a \in Places : u.list.prev[a] =
       IF k > 0 /\ a = n + 1 THEN p ELSE IF n + 1 < a /\ a <= n + k THEN a - 1 ELSE t.prev[a]
  /\ \A a \in 1 .. MaxNodes : u.list.val[a] = IF n < a /\ a <= n + k THEN vals[a - n] ELSE t.val[a]

(* Where nodes are added. *)
Addable(t, s, n, p, vals, c) ==
  Line(t, s, n) /\ p \in 0 .. n /\ c \in Nat /\ vals \in Tuples(Things, c) /\ n + c <= MaxNodes

(* A node more, as the loop adds it. *)
AddOne(u, v) == [list |-> List!AddNode(u.list, u.last, v), last |-> List!New(u.list)]

(* What a list in its order says, place by place. *)
LEMMA LineIs ==
  ASSUME NEW t, NEW s, NEW n, Line(t, s, n)
  PROVE  /\ n \in Nat /\ n <= MaxNodes /\ MaxNodes \in Nat /\ t \in Lists /\ s \in Tuples(Things, n)
         /\ \A k \in 0 .. n : t.next[k] = Place(n, k + 1)
         /\ t.double => \A k \in 1 .. n + 1 : t.prev[Place(n, k)] = k - 1
         /\ \A k \in 1 .. n : t.val[k] = s[k] /\ t.val[k] # 0
         /\ \A k \in n + 1 .. MaxNodes : t.val[k] = 0
<1> DEFINE p == Straight(n)
<1>1. Chain(t, p, s, n) /\ \A k \in n + 1 .. MaxNodes : t.val[k] = 0
  BY DEF Line
<1>2. n \in Nat /\ n <= MaxNodes /\ MaxNodes \in Nat /\ t \in Lists /\ s \in Tuples(Things, n)
  BY <1>1, Bounds DEF Chain
<1>3. \A k \in 0 .. n + 1 : p[k] = Place(n, k)
  BY DEF Straight
<1> HIDE DEF p
<1>4. (\A k \in 0 .. n : t.next[p[k]] = p[k + 1]) /\ (t.double => \A k \in 1 .. n + 1 : t.prev[p[k]] = p[k - 1])
      /\ \A k \in 1 .. n : t.val[p[k]] = s[k]
  BY <1>1 DEF Chain
<1>5. \A k \in 0 .. n : k \in 0 .. n + 1 /\ k + 1 \in 0 .. n + 1 /\ Place(n, k) = k
  BY <1>2 DEF Place
<1>6. \A k \in 0 .. n : t.next[k] = Place(n, k + 1)
  BY <1>3, <1>4, <1>5
<1>7. ASSUME t.double, NEW k \in 1 .. n + 1 PROVE t.prev[Place(n, k)] = k - 1
  <2>1. PICK h : h = k - 1
    OBVIOUS
  <2>2. h \in 0 .. n + 1 /\ k \in 0 .. n + 1 /\ Place(n, h) = h
    BY <1>2, <2>1 DEF Place
  <2>3. t.prev[p[k]] = p[h]
    BY <1>4, <1>7, <2>1
  <2>4. QED
    BY <1>3, <2>1, <2>2, <2>3
<1>8. ASSUME NEW k \in 1 .. n PROVE t.val[k] = s[k] /\ t.val[k] # 0
  <2>1. k \in 0 .. n + 1 /\ Place(n, k) = k
    BY <1>2 DEF Place
  <2>2. t.val[k] = s[k] /\ s[k] \in Things
    BY <1>2, <1>3, <1>4, <2>1 DEF Tuples
  <2>3. QED
    BY <2>2, Bounds
<1>9. QED
  BY <1>1, <1>2, <1>6, <1>7, <1>8

(* The node a list gets is the one behind those in use. *)
LEMMA NewIs ==
  ASSUME NEW t, NEW s, NEW n, NEW p, NEW vals, NEW c, Addable(t, s, n, p, vals, c), NEW k \in 1 .. c,
         NEW u, Added(u, t, n, p, vals, k - 1)
  PROVE  List!New(u.list) = n + k
<1>1. Line(t, s, n) /\ c \in Nat /\ vals \in Tuples(Things, c) /\ n + c <= MaxNodes
  BY DEF Addable
<1>2. n \in Nat /\ n <= MaxNodes /\ MaxNodes \in Nat /\ (\A a \in 1 .. n : t.val[a] # 0)
      /\ \A a \in n + 1 .. MaxNodes : t.val[a] = 0
  BY <1>1, LineIs
<1>3. \A a \in 1 .. MaxNodes : u.list.val[a] = IF n < a /\ a <= n + (k - 1) THEN vals[a - n] ELSE t.val[a]
  BY DEF Added
<1>4. n + k \in 1 .. MaxNodes
  BY <1>1, <1>2
<1>5. ASSUME NEW a \in 1 .. MaxNodes PROVE u.list.val[a] = 0 <=> n + k <= a
  <2>1. CASE a <= n
    <3>1. a \in 1 .. n /\ ~(n < a) /\ ~(n + k <= a)
      BY <1>1, <1>2, <2>1
    <3>2. QED
      BY <1>2, <1>3, <3>1
  <2>2. CASE n < a /\ a <= n + (k - 1)
    <3>1. a - n \in 1 .. c /\ ~(n + k <= a)
      BY <1>1, <1>2, <2>2
    <3>2. u.list.val[a] = vals[a - n] /\ vals[a - n] \in Things
      BY <1>1, <1>3, <2>2, <3>1 DEF Tuples
    <3>3. QED
      BY <3>1, <3>2, Bounds
  <2>3. CASE n + k <= a
    <3>1. a \in n + 1 .. MaxNodes /\ ~(a <= n + (k - 1))
      BY <1>1, <1>2, <2>3
    <3>2. QED
      BY <1>2, <1>3, <2>3, <3>1
  <2>4. a <= n \/ (n < a /\ a <= n + (k - 1)) \/ n + k <= a
    BY <1>1, <1>2
  <2>5. QED
    BY <2>1, <2>2, <2>3, <2>4
<1>6. \A a \in 1 .. MaxNodes :
        (u.list.val[a] = 0 /\ \A b \in 1 .. MaxNodes : u.list.val[b] = 0 => a <= b) <=> a = n + k
  <2>1. ASSUME NEW a \in 1 .. MaxNodes, u.list.val[a] = 0, \A b \in 1 .. MaxNodes : u.list.val[b] = 0 => a <= b
        PROVE  a = n + k
    <3>1. n + k <= a /\ u.list.val[n + k] = 0
      BY <1>4, <1>5, <2>1
    <3>2. a <= n + k
      BY <1>4, <2>1, <3>1
    <3>3. QED
      BY <1>4, <3>1, <3>2
  <2>2. u.list.val[n + k] = 0 /\ \A b \in 1 .. MaxNodes : u.list.val[b] = 0 => n + k <= b
    BY <1>4, <1>5
  <2>3. QED
    BY <2>1, <2>2
<1>7. QED
  BY <1>4, <1>6 DEF List!New, List!Node, List!Unused

(* A turn of the loop adds the next node. *)
LEMMA AddOneIs ==
  ASSUME NEW t, NEW s, NEW n, NEW p, NEW vals, NEW c, Addable(t, s, n, p, vals, c), NEW k \in 1 .. c,
         NEW u, Added(u, t, n, p, vals, k - 1), NEW x, x = AddOne(u, vals[k])
  PROVE  Added(x, t, n, p, vals, k)
<1>1. Line(t, s, n) /\ p \in 0 .. n /\ c \in Nat /\ vals \in Tuples(Things, c) /\ n + c <= MaxNodes
  BY DEF Addable
<1>2. n \in Nat /\ MaxNodes \in Nat /\ p \in Places
  BY <1>1, LineIs DEF Places
<1>3. PICK a : a = n + k
  OBVIOUS
<1>4. List!New(u.list) = a /\ a \in Places /\ a \in 1 .. MaxNodes /\ a # p
  BY <1>1, <1>2, <1>3, NewIs DEF Places
<1>5. PICK l, q : l = u.list /\ q = u.last
  OBVIOUS
<1>6. l \in Lists /\ q \in Places /\ l.double = t.double /\ q = IF k = 1 THEN p ELSE n + (k - 1)
  BY <1>1, <1>5 DEF Added
<1>7. PICK v \in Things : v = vals[k]
  BY <1>1 DEF Tuples
<1>8. PICK y : y = List!AddNode(l, q, v)
  OBVIOUS
<1>9. /\ y \in Lists /\ y.double = l.double
      /\ y.next = [l.next EXCEPT ![q] = a]
      /\ y.prev = IF l.double THEN [l.prev EXCEPT ![a] = q] ELSE l.prev
      /\ y.val = [l.val EXCEPT ![a] = v]
  <2>1. y = [l EXCEPT !.next[q] = a, !.prev = IF l.double THEN [@ EXCEPT ![a] = q] ELSE @, !.val[a] = v]
    BY <1>4, <1>5, <1>6, <1>8 DEF List!AddNode, List!connect, Lists
  <2>2. a \in Int /\ q \in Int
    BY <1>4, <1>6 DEF Places
  <2>3. QED
    BY <1>4, <1>6, <2>1, <2>2 DEF Lists
<1>10. x = [list |-> y, last |-> a]
  BY <1>4, <1>5, <1>7, <1>8 DEF AddOne
<1>11. \A b \in Places : y.next[b] =
         IF k > 0 /\ b = p THEN n + 1 ELSE IF n < b /\ b < n + k THEN b + 1 ELSE t.next[b]
  <2>1. ASSUME NEW b \in Places
        PROVE  y.next[b] = IF k > 0 /\ b = p THEN n + 1 ELSE IF n < b /\ b < n + k THEN b + 1 ELSE t.next[b]
    <3>1. y.next[b] = IF b = q THEN a ELSE l.next[b]
      BY <1>6, <1>9 DEF Lists
    <3>2. l.next[b] = IF k - 1 > 0 /\ b = p THEN n + 1 ELSE IF n < b /\ b < n + (k - 1) THEN b + 1 ELSE t.next[b]
      BY <1>5 DEF Added
    <3>3. b \in Int
      BY <1>2 DEF Places
    <3>4. CASE k = 1
      BY <1>1, <1>2, <1>3, <1>6, <3>1, <3>2, <3>3, <3>4
    <3>5. CASE k # 1
      BY <1>1, <1>2, <1>3, <1>6, <3>1, <3>2, <3>3, <3>5
    <3>6. QED
      BY <3>4, <3>5
  <2>2. QED
    BY <2>1
<1>12. ASSUME t.double, NEW b \in Places
       PROVE  y.prev[b] = IF k > 0 /\ b = n + 1 THEN p ELSE IF n + 1 < b /\ b <= n + k THEN b - 1 ELSE t.prev[b]
  <2>1. y.prev[b] = IF b = a THEN q ELSE l.prev[b]
    BY <1>4, <1>6, <1>9, <1>12 DEF Lists
  <2>2. l.prev[b] = IF k - 1 > 0 /\ b = n + 1 THEN p ELSE IF n + 1 < b /\ b <= n + (k - 1) THEN b - 1 ELSE t.prev[b]
    BY <1>5, <1>12 DEF Added
  <2>3. b \in Int
    BY <1>2 DEF Places
  <2>4. CASE k = 1
    BY <1>1, <1>2, <1>3, <1>6, <2>1, <2>2, <2>3, <2>4
  <2>5. CASE k # 1
    BY <1>1, <1>2, <1>3, <1>6, <2>1, <2>2, <2>3, <2>5
  <2>6. QED
    BY <2>4, <2>5
<1>13. ASSUME NEW b \in 1 .. MaxNodes
       PROVE  y.val[b] = IF n < b /\ b <= n + k THEN vals[b - n] ELSE t.val[b]
  <2>1. y.val[b] = IF b = a THEN v ELSE l.val[b]
    BY <1>4, <1>6, <1>9 DEF Lists
  <2>2. l.val[b] = IF n < b /\ b <= n + (k - 1) THEN vals[b - n] ELSE t.val[b]
    BY <1>5 DEF Added
  <2>3. CASE b = a
    <3>1. n < b /\ b <= n + k /\ b - n = k
      BY <1>1, <1>2, <1>3, <2>3
    <3>2. QED
      BY <1>7, <2>1, <2>3, <3>1
  <2>4. CASE b # a
    <3>1. n < b /\ b <= n + k <=> n < b /\ b <= n + (k - 1)
      BY <1>1, <1>2, <1>3, <2>4
    <3>2. QED
      BY <2>1, <2>2, <2>4, <3>1
  <2>5. QED
    BY <2>3, <2>4
<1>14. x \in [list : Lists, last : Places] /\ x.list = y /\ x.last = n + k /\ k # 0 /\ y.double = t.double
  BY <1>3, <1>4, <1>6, <1>9, <1>10
<1>15. QED
  BY <1>11, <1>12, <1>13, <1>14 DEF Added

(* Adding nodes one after the other. *)
LEMMA AddNodesIs ==
  ASSUME NEW t, NEW s, NEW n, NEW p, NEW vals, NEW c, Addable(t, s, n, p, vals, c),
         NEW u, u = List!AddNodes(t, p, vals)
  PROVE  Added(u, t, n, p, vals, c)
<1> DEFINE S == [list : Lists, last : Places]
           B(x, k) == [list |-> List!AddNode(x.list, x.last, vals[k]), last |-> List!New(x.list)]
           F == [x \in (1 .. c) \X S |-> IF Added(x[2], t, n, p, vals, x[1] - 1) THEN B(x[2], x[1]) ELSE x[2]]
           start == [list |-> t, last |-> p]
           T(g) == g = [k \in 0 .. c |-> IF k = 0 THEN start ELSE B(g[k - 1], k)]
           f == CHOOSE g : T(g)
<1>1. Line(t, s, n) /\ p \in 0 .. n /\ c \in Nat /\ vals \in Tuples(Things, c) /\ n + c <= MaxNodes
      /\ n \in Nat /\ MaxNodes \in Nat /\ t \in Lists /\ Len(vals) = c
  <2>1. Line(t, s, n) /\ p \in 0 .. n /\ c \in Nat /\ vals \in Tuples(Things, c) /\ n + c <= MaxNodes
    BY DEF Addable
  <2>2. n \in Nat /\ MaxNodes \in Nat /\ t \in Lists
    BY <2>1, LineIs
  <2>3. Len(vals) = c
    BY <2>1, TupleIs
  <2>4. QED
    BY <2>1, <2>2, <2>3
<1>2. u = f[c]
  BY <1>1 DEF List!AddNodes
<1>3. ASSUME NEW k \in 1 .. c, NEW x, Added(x, t, n, p, vals, k - 1)
      PROVE  Added(B(x, k), t, n, p, vals, k)
  <2>1. B(x, k) = AddOne(x, vals[k])
    BY DEF AddOne
  <2> HIDE DEF B
  <2>2. PICK y : y = AddOne(x, vals[k])
    OBVIOUS
  <2>3. Added(y, t, n, p, vals, k)
    BY <1>3, <2>2, AddOneIs
  <2>4. QED
    BY <2>1, <2>2, <2>3
<1>4. start \in S /\ Added(start, t, n, p, vals, 0)
  <2>1. start.list = t /\ start.last = p /\ p \in Places
    BY <1>1 DEF Places
  <2>2. start \in S
    BY <1>1, <2>1
  <2>3. \A a \in Places : ~(n < a /\ a < n + 0) /\ ~(n + 1 < a /\ a <= n + 0)
    BY <1>1 DEF Places
  <2>4. \A a \in 1 .. MaxNodes : ~(n < a /\ a <= n + 0)
    BY <1>1
  <2> HIDE DEF start
  <2>5. QED
    BY <2>1, <2>2, <2>3, <2>4 DEF Added
<1> HIDE DEF B, start
<1>5. \A k \in 1 .. c : \A x \in S : F[<<k, x>>] = (IF Added(x, t, n, p, vals, k - 1) THEN B(x, k) ELSE x)
  OBVIOUS
<1>6. \A k \in 1 .. c : \A x \in S : F[<<k, x>>] \in S
  <2>1. \A k \in 1 .. c : \A x : Added(x, t, n, p, vals, k) => x \in S
    BY DEF Added
  <2> HIDE DEF F, S
  <2>2. QED
    BY <1>3, <1>5, <2>1
<1> HIDE DEF F, S
<1>7. PICK g \in [0 .. c -> S] : Runs(g, c, start, F)
  BY <1>1, <1>4, <1>6, TurnsExist
<1>8. g[0] = start /\ \A k \in 1 .. c : g[k] = F[<<k, g[k - 1]>>]
  BY <1>7 DEF Runs
<1>9. \A k \in 0 .. c : Added(g[k], t, n, p, vals, k)
  <2> DEFINE G == {k \in 0 .. c : Added(g[k], t, n, p, vals, k)}
  <2>1. 0 \in G
    BY <1>1, <1>4, <1>8
  <2>2. ASSUME NEW k \in 1 .. c, k - 1 \in G PROVE k \in G
    <3>1. Added(g[k - 1], t, n, p, vals, k - 1) /\ g[k - 1] \in S
      BY <1>1, <1>7, <2>2
    <3>2. g[k] = B(g[k - 1], k)
      BY <1>5, <1>8, <3>1
    <3>3. Added(g[k], t, n, p, vals, k)
      BY <1>3, <3>1, <3>2
    <3>4. QED
      BY <1>1, <3>3
  <2> HIDE DEF G
  <2>3. \A k \in 0 .. c : k \in G
    BY <1>1, <2>1, <2>2, UpTo
  <2>4. QED
    BY <2>3 DEF G
<1>10. \A k \in 1 .. c : g[k] = B(g[k - 1], k)
  <2>1. \A k \in 1 .. c : Added(g[k - 1], t, n, p, vals, k - 1) /\ g[k - 1] \in S
    <3>1. \A k \in 1 .. c : k - 1 \in 0 .. c
      BY <1>1
    <3>2. QED
      BY <1>7, <1>9, <3>1
  <2>2. QED
    BY <1>5, <1>8, <2>1
<1>11. T(g)
  <2>1. \A k \in 0 .. c : g[k] = IF k = 0 THEN start ELSE B(g[k - 1], k)
    BY <1>1, <1>8, <1>10
  <2>2. QED
    BY <1>7, <2>1
<1>12. T(f)
  BY <1>11
<1> HIDE DEF f
<1>13. f[0] = start /\ \A k \in 1 .. c : f[k] = B(f[k - 1], k)
  <2>1. \A k \in 0 .. c : f[k] = IF k = 0 THEN start ELSE B(f[k - 1], k)
    BY <1>12
  <2> HIDE DEF T
  <2>2. 0 \in 0 .. c /\ \A k \in 1 .. c : k \in 0 .. c /\ k # 0
    BY <1>1
  <2>3. QED
    BY <2>1, <2>2
<1>14. \A k \in 0 .. c : Added(f[k], t, n, p, vals, k)
  <2> DEFINE G == {k \in 0 .. c : Added(f[k], t, n, p, vals, k)}
  <2>1. 0 \in G
    BY <1>1, <1>4, <1>13
  <2>2. ASSUME NEW k \in 1 .. c, k - 1 \in G PROVE k \in G
    <3>1. Added(f[k - 1], t, n, p, vals, k - 1)
      BY <2>2
    <3>2. Added(f[k], t, n, p, vals, k)
      BY <1>3, <1>13, <3>1
    <3>3. QED
      BY <1>1, <3>2
  <2> HIDE DEF G
  <2>3. \A k \in 0 .. c : k \in G
    BY <1>1, <2>1, <2>2, UpTo
  <2>4. QED
    BY <2>3 DEF G
<1>15. c \in 0 .. c
  BY <1>1
<1>16. QED
  BY <1>2, <1>14, <1>15

(* r is t with q linked to a. *)
Connected(r, t, q, a) ==
  /\ r \in Lists /\ r.double = t.double /\ r.val = t.val
  /\ \A x \in Places : r.next[x] = IF x = q THEN a ELSE t.next[x]
  /\ t.double => \A x \in Places : r.prev[x] = IF x = a THEN q ELSE t.prev[x]

(* Linking two places changes no other link. *)
LEMMA ConnectIs ==
  ASSUME NEW t \in Lists, NEW q \in Places, NEW a \in Places, NEW r, r = List!connect(t, q, a)
  PROVE  Connected(r, t, q, a)
<1>1. r = [t EXCEPT !.next[q] = a, !.prev = IF t.double THEN [@ EXCEPT ![a] = q] ELSE @]
  BY DEF List!connect
<1>2. a \in Int /\ q \in Int
  BY Bounds DEF Places
<1>3. t.next \in [Places -> Int] /\ t.prev \in [Places -> Int]
  BY DEF Lists
<1>4. t = [double |-> t.double, next |-> t.next, prev |-> t.prev, val |-> t.val]
      /\ t.double \in BOOLEAN /\ t.val \in [1 .. MaxNodes -> Things \cup {0}]
  BY DEF Lists
<1>5. PICK e, f : e = [t.next EXCEPT ![q] = a] /\ f = IF t.double THEN [t.prev EXCEPT ![a] = q] ELSE t.prev
  OBVIOUS
<1>6. e \in [Places -> Int] /\ f \in [Places -> Int]
  BY <1>2, <1>3, <1>5
<1>7. r = [double |-> t.double, next |-> e, prev |-> f, val |-> t.val]
  BY <1>1, <1>4, <1>5
<1>8. /\ r \in Lists /\ r.double = t.double /\ r.val = t.val
      /\ r.next = [t.next EXCEPT ![q] = a]
      /\ r.prev = IF t.double THEN [t.prev EXCEPT ![a] = q] ELSE t.prev
  BY <1>4, <1>5, <1>6, <1>7 DEF Lists
<1>9. QED
  BY <1>3, <1>8 DEF Connected

(* The nodes from the first up to before the last are deleted. *)
Without(r, t, first, last) ==
  /\ r \in Lists /\ r.double = t.double
  /\ \A x \in Places : ~(first <= x /\ x < last) => r.next[x] = t.next[x]
  /\ t.double => \A x \in Places : ~(first <= x /\ x < last) => r.prev[x] = t.prev[x]
  /\ \A x \in 1 .. MaxNodes : r.val[x] = IF first <= x /\ x < last THEN 0 ELSE t.val[x]

(* Deleting nodes leaves the others as they are. *)
LEMMA DeleteIs ==
  ASSUME NEW t \in Lists, NEW i \in Nat \ {0}, NEW w \in Nat, NEW j, j = i + w,
         NEW x, x = [k \in 1 .. w |-> i + k - 1], NEW r, r = List!Delete(t, x)
  PROVE  Without(r, t, i, j)
<1>1. List!Range(x) = {y \in Int : i <= y /\ y < j}
  <2>1. List!Range(x) = {x[k] : k \in 1 .. w}
    BY DEF List!Range
  <2>2. \A k \in 1 .. w : x[k] = i + k - 1 /\ x[k] \in Int /\ i <= x[k] /\ x[k] < j
    OBVIOUS
  <2>3. ASSUME NEW y \in Int, i <= y, y < j PROVE \E k \in 1 .. w : x[k] = y
    <3>1. y - i + 1 \in 1 .. w /\ i + (y - i + 1) - 1 = y
      BY <2>3
    <3>2. QED
      BY <2>2, <3>1
  <2>4. QED
    BY <2>1, <2>2, <2>3
<1>2. t.next \in [Places -> Int] /\ t.prev \in [Places -> Int] /\ t.val \in [1 .. MaxNodes -> Things \cup {0}]
      /\ t = [double |-> t.double, next |-> t.next, prev |-> t.prev, val |-> t.val] /\ t.double \in BOOLEAN
  BY DEF Lists
<1>3. Places \subseteq Int /\ 1 .. MaxNodes \subseteq Int
  BY Bounds DEF Places
<1>4. r = [t EXCEPT !.next = [a \in DOMAIN @ |-> IF a \in List!Range(x) THEN -2 ELSE @[a]],
                    !.prev = [a \in DOMAIN @ |-> IF a \in List!Range(x) THEN -2 ELSE @[a]],
                    !.val = [a \in DOMAIN @ |-> IF a \in List!Range(x) THEN 0 ELSE @[a]]]
  BY DEF List!Delete, List!Freed, List!Unused
<1>5. /\ r.double = t.double
      /\ r.next = [a \in Places |-> IF a \in List!Range(x) THEN -2 ELSE t.next[a]]
      /\ r.prev = [a \in Places |-> IF a \in List!Range(x) THEN -2 ELSE t.prev[a]]
      /\ r.val = [a \in 1 .. MaxNodes |-> IF a \in List!Range(x) THEN 0 ELSE t.val[a]]
      /\ r = [double |-> r.double, next |-> r.next, prev |-> r.prev, val |-> r.val]
  BY <1>2, <1>4
<1>6. r \in Lists
  <2>1. PICK e, f : e = r.next /\ f = r.prev
    OBVIOUS
  <2>2. e = [a \in Places |-> IF a \in List!Range(x) THEN -2 ELSE t.next[a]]
        /\ f = [a \in Places |-> IF a \in List!Range(x) THEN -2 ELSE t.prev[a]]
    BY <1>5, <2>1
  <2>3. \A a \in Places : t.next[a] \in Int /\ t.prev[a] \in Int
    BY <1>2
  <2>4. e \in [Places -> Int] /\ f \in [Places -> Int]
    BY <2>2, <2>3
  <2>5. r.next \in [Places -> Int]
    BY <2>1, <2>4
  <2>6. r.prev \in [Places -> Int]
    BY <2>1, <2>4
  <2>7. r.val \in [1 .. MaxNodes -> Things \cup {0}]
    BY <1>2, <1>5
  <2>8. QED
    BY <1>2, <1>5, <2>5, <2>6, <2>7 DEF Lists
<1>7. \A y \in Places : y \in List!Range(x) <=> i <= y /\ y < j
  BY <1>1, <1>3
<1>8. \A y \in 1 .. MaxNodes : y \in List!Range(x) <=> i <= y /\ y < j
  BY <1>1, <1>3
<1>9. \A y \in Places : ~(i <= y /\ y < j) => r.next[y] = t.next[y] /\ r.prev[y] = t.prev[y]
  BY <1>5, <1>7
<1>10. \A y \in 1 .. MaxNodes : r.val[y] = IF i <= y /\ y < j THEN 0 ELSE t.val[y]
  BY <1>5, <1>8
<1>11. QED
  BY <1>5, <1>6, <1>9, <1>10 DEF Without

(* The places after c nodes, n + 1 and so on, have been put behind the first it. *)
Longer(n, it, c) ==
  [k \in 0 .. n + c + 1 |->
     IF k <= it THEN k ELSE IF k <= it + c THEN n + (k - it) ELSE Place(n, k - c)]

(* The places of a line of j nodes, from the start to the end. *)
Path(p, j) ==
  /\ p \in [0 .. j + 1 -> Places] /\ p[0] = 0 /\ p[j + 1] = -1
  /\ \A k \in 1 .. j : p[k] \in 1 .. MaxNodes
  /\ \A h, k \in 0 .. j + 1 : p[h] = p[k] => h = k

(* They are distinct places of the list. *)
LEMMA LongerIs ==
  ASSUME NEW n \in Nat, NEW it \in 0 .. n, NEW c \in Nat, n + c <= MaxNodes, NEW j, j = n + c,
         NEW p, p = Longer(n, it, c)
  PROVE  Path(p, j)
<1>1. MaxNodes \in Nat
  BY Bounds
<1>2. p = [k \in 0 .. j + 1 |->
             IF k <= it THEN k ELSE IF k <= it + c THEN n + (k - it) ELSE IF k - c <= n THEN k - c ELSE -1]
  BY DEF Longer, Place
<1>3. ASSUME NEW k \in 0 .. j + 1
      PROVE  /\ p[k] = IF k <= it THEN k ELSE IF k <= it + c THEN n + (k - it) ELSE IF k - c <= n THEN k - c ELSE -1
             /\ p[k] \in Int /\ -1 <= p[k] /\ p[k] <= MaxNodes /\ (p[k] = -1 <=> k = j + 1) /\ (p[k] = 0 <=> k = 0)
  <2>1. p[k] = IF k <= it THEN k ELSE IF k <= it + c THEN n + (k - it) ELSE IF k - c <= n THEN k - c ELSE -1
    BY <1>2
  <2>2. QED
    BY <1>1, <2>1
<1>4. ASSUME NEW k \in 0 .. j + 1 PROVE p[k] \in Places
  <2>1. p[k] \in 1 .. MaxNodes \/ p[k] = 0 \/ p[k] = -1
    BY <1>1, <1>3
  <2>2. QED
    BY <2>1 DEF Places
<1>5. p \in [0 .. j + 1 -> Places]
  BY <1>2, <1>4
<1>6. 0 \in 0 .. j + 1 /\ j + 1 \in 0 .. j + 1
  OBVIOUS
<1>7. p[0] = 0 /\ p[j + 1] = -1
  BY <1>3, <1>6
<1>8. ASSUME NEW k \in 1 .. j PROVE p[k] \in 1 .. MaxNodes
  <2>1. k \in 0 .. j + 1 /\ k # 0 /\ k # j + 1
    OBVIOUS
  <2>2. QED
    BY <1>1, <1>3, <2>1
<1>9. ASSUME NEW h \in 0 .. j + 1, NEW k \in 0 .. j + 1, p[h] = p[k] PROVE h = k
  BY <1>3, <1>9
<1>10. QED
  BY <1>5, <1>7, <1>8, <1>9 DEF Path

(* Added nodes, linked to what follows, are linked along them. *)
LEMMA InsertLinks ==
  ASSUME NEW t, NEW s, NEW n, NEW it, NEW vals, NEW c, Addable(t, s, n, it, vals, c),
         NEW a, a = Place(n, it + 1), NEW u, Added(u, t, n, it, vals, c),
         NEW r, Connected(r, u.list, u.last, a), NEW j, j = n + c, NEW p, p = Longer(n, it, c)
  PROVE  /\ \A k \in 0 .. j : r.next[p[k]] = p[k + 1]
         /\ r.double => \A k \in 1 .. j + 1 : r.prev[p[k]] = p[k - 1]
<1>1. Line(t, s, n) /\ it \in 0 .. n /\ c \in Nat /\ n + c <= MaxNodes
  BY DEF Addable
<1>2. n \in Nat /\ MaxNodes \in Nat /\ (\A k \in 0 .. n : t.next[k] = Place(n, k + 1))
      /\ (t.double => \A k \in 1 .. n + 1 : t.prev[Place(n, k)] = k - 1)
  BY <1>1, LineIs
<1>3. p \in [0 .. j + 1 -> Places]
  BY <1>1, <1>2, LongerIs DEF Path
<1>4. PICK last : last = IF c = 0 THEN it ELSE n + c
  OBVIOUS
<1>5. u.last = last /\ r.double = t.double
  BY <1>4 DEF Added, Connected
<1>6. \A x \in Places : r.next[x] =
        IF x = last THEN a ELSE
        IF c > 0 /\ x = it THEN n + 1 ELSE IF n < x /\ x < n + c THEN x + 1 ELSE t.next[x]
  BY <1>5 DEF Added, Connected
<1>7. t.double => \A x \in Places : r.prev[x] =
        IF x = a THEN last ELSE
        IF c > 0 /\ x = n + 1 THEN it ELSE IF n + 1 < x /\ x <= n + c THEN x - 1 ELSE t.prev[x]
  BY <1>5 DEF Added, Connected
<1>8. \A k \in 0 .. j + 1 : p[k] =
        IF k <= it THEN k ELSE IF k <= it + c THEN n + (k - it) ELSE Place(n, k - c)
  BY DEF Longer
<1>9. ASSUME NEW k \in 0 .. j PROVE r.next[p[k]] = p[k + 1]
  <2>1. PICK h : h = k + 1
    OBVIOUS
  <2>2. PICK x : x = p[k]
    OBVIOUS
  <2>3. h \in 0 .. j + 1 /\ k \in 0 .. j + 1
    BY <1>1, <1>2, <2>1
  <2>4. x \in Places /\ x = IF k <= it THEN k ELSE IF k <= it + c THEN n + (k - it) ELSE Place(n, k - c)
    BY <1>3, <1>8, <2>2, <2>3
  <2>5. p[h] = IF h <= it THEN h ELSE IF h <= it + c THEN n + (h - it) ELSE Place(n, h - c)
    BY <1>8, <2>3
  <2>6. CASE k < it
    <3>1. x = k /\ x # last /\ x # it /\ ~(n < x) /\ x \in 0 .. n /\ p[h] = k + 1 /\ Place(n, x + 1) = k + 1
      BY <1>1, <1>2, <1>4, <2>1, <2>4, <2>5, <2>6 DEF Place
    <3>2. r.next[x] = Place(n, x + 1)
      BY <1>2, <1>6, <2>4, <3>1
    <3>3. QED
      BY <2>1, <2>2, <3>1, <3>2
  <2>7. CASE k = it /\ c = 0
    <3>1. x = last /\ h - c = it + 1 /\ ~(h <= it) /\ ~(h <= it + c)
      BY <1>1, <1>2, <1>4, <2>1, <2>4, <2>7
    <3>2. r.next[x] = a /\ p[h] = a
      BY <1>6, <2>4, <2>5, <3>1
    <3>3. QED
      BY <2>1, <2>2, <3>2
  <2>8. CASE k = it /\ c > 0
    <3>1. x = it /\ x # last /\ p[h] = n + 1
      BY <1>1, <1>2, <1>4, <2>1, <2>4, <2>5, <2>8
    <3>2. r.next[x] = n + 1
      BY <1>6, <2>4, <2>8, <3>1
    <3>3. QED
      BY <2>1, <2>2, <3>1, <3>2
  <2>9. CASE it < k /\ k < it + c
    <3>1. x = n + (k - it) /\ x # last /\ x # it /\ n < x /\ x < n + c /\ p[h] = x + 1
      BY <1>1, <1>2, <1>4, <2>1, <2>4, <2>5, <2>9
    <3>2. r.next[x] = x + 1
      BY <1>6, <2>4, <3>1
    <3>3. QED
      BY <2>1, <2>2, <3>1, <3>2
  <2>10. CASE k = it + c /\ c > 0
    <3>1. x = last /\ h - c = it + 1 /\ ~(h <= it) /\ ~(h <= it + c)
      BY <1>1, <1>2, <1>4, <2>1, <2>4, <2>10
    <3>2. r.next[x] = a /\ p[h] = a
      BY <1>6, <2>4, <2>5, <3>1
    <3>3. QED
      BY <2>1, <2>2, <3>2
  <2>11. CASE it + c < k
    <3>1. x = k - c /\ x \in 0 .. n /\ x # last /\ x # it /\ ~(n < x) /\ ~(h <= it) /\ ~(h <= it + c) /\ h - c = x + 1
      BY <1>1, <1>2, <1>4, <2>1, <2>4, <2>11 DEF Place
    <3>2. r.next[x] = Place(n, x + 1) /\ p[h] = Place(n, x + 1)
      BY <1>2, <1>6, <2>4, <2>5, <3>1
    <3>3. QED
      BY <2>1, <2>2, <3>2
  <2>12. k < it \/ (k = it /\ c = 0) \/ (k = it /\ c > 0) \/ (it < k /\ k < it + c) \/ (k = it + c /\ c > 0) \/ it + c < k
    BY <1>1, <1>2
  <2>13. QED
    BY <2>6, <2>7, <2>8, <2>9, <2>10, <2>11, <2>12
<1>10. ASSUME r.double, NEW k \in 1 .. j + 1 PROVE r.prev[p[k]] = p[k - 1]
  <2>1. PICK h : h = k - 1
    OBVIOUS
  <2>2. PICK x : x = p[k]
    OBVIOUS
  <2>3. h \in 0 .. j + 1 /\ k \in 0 .. j + 1
    BY <1>1, <1>2, <2>1
  <2>4. x \in Places /\ x = IF k <= it THEN k ELSE IF k <= it + c THEN n + (k - it) ELSE Place(n, k - c)
    BY <1>3, <1>8, <2>2, <2>3
  <2>5. p[h] = IF h <= it THEN h ELSE IF h <= it + c THEN n + (h - it) ELSE Place(n, h - c)
    BY <1>8, <2>3
  <2>6. (\A i \in 1 .. n + 1 : t.prev[Place(n, i)] = i - 1) /\ \A i \in Places : r.prev[i] =
          IF i = a THEN last ELSE
          IF c > 0 /\ i = n + 1 THEN it ELSE IF n + 1 < i /\ i <= n + c THEN i - 1 ELSE t.prev[i]
    BY <1>2, <1>5, <1>7, <1>10
  <2>7. CASE k <= it
    <3>1. x = k /\ x # a /\ x # n + 1 /\ ~(n + 1 < x) /\ k \in 1 .. n + 1 /\ Place(n, k) = x /\ p[h] = k - 1
      BY <1>1, <1>2, <2>1, <2>4, <2>5, <2>7 DEF Place
    <3>2. r.prev[x] = t.prev[x] /\ t.prev[x] = k - 1
      BY <2>4, <2>6, <3>1
    <3>3. QED
      BY <2>1, <2>2, <3>1, <3>2
  <2>8. CASE k = it + 1 /\ c > 0
    <3>1. ~(k <= it) /\ k <= it + c /\ n + (k - it) = n + 1 /\ h = it /\ h <= it
      BY <1>1, <1>2, <2>1, <2>8
    <3>2. a # n + 1
      BY <1>1, <1>2 DEF Place
    <3>3. x = n + 1 /\ x # a /\ p[h] = it
      BY <2>4, <2>5, <3>1, <3>2
    <3>4. r.prev[x] = it
      BY <2>4, <2>6, <2>8, <3>3
    <3>5. QED
      BY <2>1, <2>2, <3>3, <3>4
  <2>9. CASE it + 1 < k /\ k <= it + c
    <3>1. x = n + (k - it) /\ x # a /\ x # n + 1 /\ n + 1 < x /\ x <= n + c /\ p[h] = x - 1
      BY <1>1, <1>2, <2>1, <2>4, <2>5, <2>9 DEF Place
    <3>2. r.prev[x] = x - 1
      BY <2>4, <2>6, <3>1
    <3>3. QED
      BY <2>1, <2>2, <3>1, <3>2
  <2>10. CASE k = it + c + 1
    <3>1. ~(k <= it) /\ ~(k <= it + c) /\ k - c = it + 1 /\ p[h] = last
      BY <1>1, <1>2, <1>4, <2>1, <2>5, <2>10
    <3>2. x = a
      BY <2>4, <3>1
    <3>3. r.prev[x] = last
      BY <2>4, <2>6, <3>2
    <3>4. QED
      BY <2>1, <2>2, <3>1, <3>3
  <2>11. CASE it + c + 1 < k
    <3>1. PICK i : i = k - c
      OBVIOUS
    <3>2. i \in 1 .. n + 1 /\ x = Place(n, i) /\ p[h] = i - 1 /\ it + 1 < i
      BY <1>1, <1>2, <2>1, <2>4, <2>5, <2>11, <3>1 DEF Place
    <3>3. x # a /\ ~(c > 0 /\ x = n + 1) /\ ~(n + 1 < x)
      BY <1>1, <1>2, <3>2 DEF Place
    <3>4. r.prev[x] = t.prev[x] /\ t.prev[x] = i - 1
      BY <2>4, <2>6, <3>2, <3>3
    <3>5. QED
      BY <2>1, <2>2, <3>2, <3>4
  <2>12. k <= it \/ (k = it + 1 /\ c > 0) \/ (it + 1 < k /\ k <= it + c) \/ k = it + c + 1 \/ it + c + 1 < k
    BY <1>1, <1>2
  <2>13. QED
    BY <2>7, <2>8, <2>9, <2>10, <2>11, <2>12
<1>11. QED
  BY <1>9, <1>10

(* The nodes of an insertion hold what was to be inserted. *)
LEMMA InsertChain ==
  ASSUME NEW t, NEW s, NEW n, NEW it, NEW vals, NEW c, Addable(t, s, n, it, vals, c),
         NEW a, a = Place(n, it + 1), NEW u, u = List!AddNodes(t, it, vals),
         NEW r, r = List!connect(u.list, u.last, a), NEW j, j = n + c,
         NEW q, With(q, Things, j, s, it, vals, c)
  PROVE  \E p : Chain(r, p, q, j)
<1>1. Line(t, s, n) /\ it \in 0 .. n /\ c \in Nat /\ n + c <= MaxNodes /\ vals \in Tuples(Things, c)
  BY DEF Addable
<1>2. n \in Nat /\ MaxNodes \in Nat /\ (\A k \in 1 .. n : t.val[k] = s[k])
  BY <1>1, LineIs
<1>3. Added(u, t, n, it, vals, c)
  BY AddNodesIs
<1>4. u.list \in Lists /\ u.last \in Places
      /\ \A x \in 1 .. MaxNodes : u.list.val[x] = IF n < x /\ x <= n + c THEN vals[x - n] ELSE t.val[x]
  BY <1>3 DEF Added
<1>5. a \in Places
  <2>1. a \in 1 .. MaxNodes \/ a = -1
    BY <1>1, <1>2 DEF Place
  <2>2. QED
    BY <2>1 DEF Places
<1>6. Connected(r, u.list, u.last, a)
  BY <1>4, <1>5, ConnectIs
<1>7. PICK p : p = Longer(n, it, c)
  OBVIOUS
<1>8. /\ p \in [0 .. j + 1 -> Places] /\ p[0] = 0 /\ p[j + 1] = -1
      /\ \A k \in 1 .. j : p[k] \in 1 .. MaxNodes
      /\ \A h, k \in 0 .. j + 1 : p[h] = p[k] => h = k
  <2>1. n \in Nat /\ it \in 0 .. n /\ c \in Nat /\ n + c <= MaxNodes /\ j = n + c /\ p = Longer(n, it, c)
    BY <1>1, <1>2, <1>7
  <2>2. Path(p, j)
    BY <2>1, LongerIs
  <2>3. QED
    BY <2>2 DEF Path
<1>9. /\ \A k \in 0 .. j : r.next[p[k]] = p[k + 1]
      /\ r.double => \A k \in 1 .. j + 1 : r.prev[p[k]] = p[k - 1]
  BY <1>3, <1>6, <1>7, InsertLinks
<1>10. q \in Tuples(Things, j) /\ (\A i \in 1 .. it : q[i] = s[i]) /\ (\A i \in 1 .. c : q[it + i] = vals[i])
      /\ \A i \in it + c + 1 .. j : q[i] = s[i - c]
  BY DEF With
<1>11. r \in Lists /\ r.val = u.list.val
  BY <1>6 DEF Connected
<1>12. ASSUME NEW k \in 1 .. j PROVE r.val[p[k]] = q[k]
  <2>1. PICK x : x = p[k]
    OBVIOUS
  <2>2. k \in 0 .. j + 1
    BY <1>1, <1>2
  <2>3. x = IF k <= it THEN k ELSE IF k <= it + c THEN n + (k - it) ELSE Place(n, k - c)
    BY <1>7, <2>1, <2>2 DEF Longer
  <2>4. x \in 1 .. MaxNodes /\ r.val[x] = IF n < x /\ x <= n + c THEN vals[x - n] ELSE t.val[x]
    BY <1>4, <1>8, <1>11, <2>1
  <2>5. CASE k <= it
    <3>1. x = k /\ k \in 1 .. it /\ k \in 1 .. n /\ ~(n < x)
      BY <1>1, <1>2, <2>3, <2>5
    <3>2. QED
      BY <1>2, <1>10, <2>1, <2>4, <3>1
  <2>6. CASE it < k /\ k <= it + c
    <3>1. PICK i \in 1 .. c : k = it + i
      <4>1. k - it \in 1 .. c /\ k = it + (k - it)
        BY <1>1, <1>2, <2>6
      <4>2. QED
        BY <4>1
    <3>2. x = n + i /\ n < x /\ x <= n + c /\ x - n = i
      BY <1>1, <1>2, <2>3, <2>6, <3>1
    <3>3. r.val[x] = vals[i] /\ q[k] = vals[i]
      BY <1>10, <2>4, <3>1, <3>2
    <3>4. QED
      BY <2>1, <3>3
  <2>7. CASE it + c < k
    <3>1. x = k - c /\ k - c \in 1 .. n /\ ~(n < x) /\ k \in it + c + 1 .. j
      BY <1>1, <1>2, <2>3, <2>7 DEF Place
    <3>2. QED
      BY <1>2, <1>10, <2>1, <2>4, <3>1
  <2>8. k <= it \/ (it < k /\ k <= it + c) \/ it + c < k
    BY <1>1, <1>2
  <2>9. QED
    BY <2>5, <2>6, <2>7, <2>8
<1>13. j \in 0 .. MaxNodes
  BY <1>1, <1>2
<1>14. Chain(r, p, q, j)
  BY <1>8, <1>9, <1>10, <1>11, <1>12, <1>13 DEF Chain
<1>15. QED
  BY <1>14

(* The places without w nodes from i on. *)
Shorter(n, i, w) == [k \in 0 .. n - w + 1 |-> IF k < i THEN k ELSE Place(n, k + w)]

(* Linking what is around deleted nodes leaves the list without their        *)
(* elements.                                                                 *)
LEMMA EraseChain ==
  ASSUME NEW t, NEW s, NEW n, Line(t, s, n), NEW i \in 1 .. n + 1, NEW j \in i .. n + 1,
         NEW a, a = Place(n, i), NEW b, b = Place(n, j), NEW o, o = i - 1, NEW r,
         r = List!connect(List!Delete(t, List!Walk(t, a, b)), o, b),
         NEW l, l = n - (j - i), NEW y, y = j - 1, NEW q, LessThose(q, Things, l, s, o, y)
  PROVE  \E p : Chain(r, p, q, l)
<1>1. n \in Nat /\ n <= MaxNodes /\ MaxNodes \in Nat /\ t \in Lists
      /\ (\A k \in 0 .. n : t.next[k] = Place(n, k + 1))
      /\ (t.double => \A k \in 1 .. n + 1 : t.prev[Place(n, k)] = k - 1)
      /\ (\A k \in 1 .. n : t.val[k] = s[k])
  BY LineIs
<1>2. PICK w \in Nat : w = j - i
  BY <1>1
<1>3. j = i + w /\ l = n - w /\ l \in Nat /\ i \in Nat \ {0} /\ i <= l + 1
  BY <1>1, <1>2
<1>4. PICK x : x = List!Walk(t, a, b)
  OBVIOUS
<1>5. x = [k \in 1 .. w |-> i + k - 1]
  <2> DEFINE z == Straight(n)
  <2>1. \A k \in 0 .. n + 1 : z[k] = Place(n, k)
    BY DEF Straight
  <2>2. Chain(t, z, s, n)
    BY DEF Line
  <2> HIDE DEF z
  <2>3. i \in 0 .. n + 1 /\ j \in i .. n + 1 /\ j \in 0 .. n + 1
    BY <1>1
  <2>4. a = z[i] /\ b = z[j]
    BY <2>1, <2>3
  <2>5. Walked(x, z, i, w)
    BY <1>2, <1>4, <2>2, <2>3, <2>4, WalkIs
  <2>6. x = [k \in 1 .. w |-> z[i + k - 1]]
    BY <2>5 DEF Walked
  <2>7. \A k \in 1 .. w : z[i + k - 1] = i + k - 1
    <3>1. \A k \in 1 .. w : i + k - 1 \in 0 .. n + 1 /\ i + k - 1 <= n
      BY <1>1, <1>3
    <3>2. QED
      BY <2>1, <3>1 DEF Place
  <2>8. QED
    BY <2>6, <2>7
<1>6. PICK d : d = List!Delete(t, x)
  OBVIOUS
<1>7. Without(d, t, i, j)
  BY <1>1, <1>3, <1>5, <1>6, DeleteIs
<1>8. b \in Places /\ o \in Places
  <2>1. (b \in 1 .. MaxNodes \/ b = -1) /\ (o \in 1 .. MaxNodes \/ o = 0)
    BY <1>1 DEF Place
  <2>2. QED
    BY <2>1 DEF Places
<1>9. d \in Lists /\ r = List!connect(d, o, b)
  BY <1>4, <1>6, <1>7 DEF Without
<1>10. Connected(r, d, o, b)
  BY <1>8, <1>9, ConnectIs
<1>11. r \in Lists /\ r.double = t.double
       /\ (\A k \in Places : ~(i <= k /\ k < j) => r.next[k] = IF k = o THEN b ELSE t.next[k])
       /\ (\A k \in 1 .. MaxNodes : ~(i <= k /\ k < j) => r.val[k] = t.val[k])
       /\ (t.double => \A k \in Places : ~(i <= k /\ k < j) => r.prev[k] = IF k = b THEN o ELSE t.prev[k])
  BY <1>7, <1>10 DEF Connected, Without
<1>12. PICK p : p = Shorter(n, i, w)
  OBVIOUS
<1>13. p = [k \in 0 .. l + 1 |-> IF k < i THEN k ELSE IF k + w <= n THEN k + w ELSE -1]
  BY <1>3, <1>12 DEF Shorter, Place
<1>14. ASSUME NEW k \in 0 .. l + 1
       PROVE  /\ p[k] = IF k < i THEN k ELSE IF k + w <= n THEN k + w ELSE -1
              /\ p[k] \in Places /\ ~(i <= p[k] /\ p[k] < j) /\ p[k] \in Int
              /\ (p[k] = -1 <=> k = l + 1) /\ (p[k] = 0 <=> k = 0)
              /\ (k # 0 /\ k # l + 1 => p[k] \in 1 .. MaxNodes)
  <2>1. p[k] = IF k < i THEN k ELSE IF k + w <= n THEN k + w ELSE -1
    BY <1>13
  <2>2. k \in Nat /\ k <= l + 1
    BY <1>3
  <2>3. /\ ~(i <= p[k] /\ p[k] < j) /\ p[k] \in Int
        /\ (p[k] = -1 <=> k = l + 1) /\ (p[k] = 0 <=> k = 0)
        /\ (k # 0 /\ k # l + 1 => p[k] \in 1 .. MaxNodes)
    BY <1>1, <1>3, <2>1, <2>2
  <2>4. p[k] \in Places
    BY <2>3 DEF Places
  <2>5. QED
    BY <2>1, <2>3, <2>4
<1>15. p \in [0 .. l + 1 -> Places] /\ p[0] = 0 /\ p[l + 1] = -1
  <2>1. 0 \in 0 .. l + 1 /\ l + 1 \in 0 .. l + 1
    BY <1>3
  <2>2. QED
    BY <1>13, <1>14, <2>1
<1>16. \A k \in 1 .. l : p[k] \in 1 .. MaxNodes
  <2>1. \A k \in 1 .. l : k \in 0 .. l + 1 /\ k # 0 /\ k # l + 1
    BY <1>3
  <2>2. QED
    BY <1>14, <2>1
<1>17. ASSUME NEW h \in 0 .. l + 1, NEW k \in 0 .. l + 1, p[h] = p[k] PROVE h = k
  BY <1>1, <1>3, <1>14, <1>17
<1>18. ASSUME NEW k \in 0 .. l PROVE r.next[p[k]] = p[k + 1]
  <2>1. PICK h : h = k + 1
    OBVIOUS
  <2>2. PICK z : z = p[k]
    OBVIOUS
  <2>3. h \in 0 .. l + 1 /\ k \in 0 .. l + 1
    BY <1>3, <2>1
  <2>4. z = (IF k < i THEN k ELSE IF k + w <= n THEN k + w ELSE -1)
        /\ r.next[z] = IF z = o THEN b ELSE t.next[z]
    BY <1>11, <1>14, <2>2, <2>3
  <2>5. p[h] = IF h < i THEN h ELSE IF h + w <= n THEN h + w ELSE -1
    BY <1>14, <2>3
  <2>6. CASE k < o
    <3>1. z = k /\ z # o /\ k \in 0 .. n /\ p[h] = k + 1 /\ Place(n, k + 1) = k + 1
      BY <1>1, <1>3, <2>1, <2>4, <2>5, <2>6 DEF Place
    <3>2. QED
      BY <1>1, <2>1, <2>2, <2>4, <3>1
  <2>7. CASE k = o
    <3>1. z = o /\ p[h] = b
      BY <1>1, <1>3, <2>1, <2>4, <2>5, <2>7 DEF Place
    <3>2. QED
      BY <2>1, <2>2, <2>4, <3>1
  <2>8. CASE k > o
    <3>1. z = k + w /\ z # o /\ z \in 0 .. n /\ p[h] = Place(n, z + 1)
      BY <1>1, <1>3, <2>1, <2>4, <2>5, <2>8 DEF Place
    <3>2. QED
      BY <1>1, <2>1, <2>2, <2>4, <3>1
  <2>9. k < o \/ k = o \/ k > o
    BY <1>3
  <2>10. QED
    BY <2>6, <2>7, <2>8, <2>9
<1>19. ASSUME r.double, NEW k \in 1 .. l + 1 PROVE r.prev[p[k]] = p[k - 1]
  <2>1. PICK h : h = k - 1
    OBVIOUS
  <2>2. PICK z : z = p[k]
    OBVIOUS
  <2>3. h \in 0 .. l + 1 /\ k \in 0 .. l + 1
    BY <1>3, <2>1
  <2>4. z = (IF k < i THEN k ELSE IF k + w <= n THEN k + w ELSE -1)
        /\ r.prev[z] = IF z = b THEN o ELSE t.prev[z]
    BY <1>11, <1>14, <1>19, <2>2, <2>3
  <2>5. p[h] = IF h < i THEN h ELSE IF h + w <= n THEN h + w ELSE -1
    BY <1>14, <2>3
  <2>6. \A f \in 1 .. n + 1 : t.prev[Place(n, f)] = f - 1
    BY <1>1, <1>11, <1>19
  <2>7. CASE k < i
    <3>1. z = k /\ z # b /\ k \in 1 .. n + 1 /\ Place(n, k) = z /\ p[h] = k - 1
      BY <1>1, <1>3, <2>1, <2>4, <2>5, <2>7 DEF Place
    <3>2. QED
      BY <2>1, <2>2, <2>4, <2>6, <3>1
  <2>8. CASE k = i
    <3>1. z = b /\ p[h] = o
      BY <1>1, <1>3, <2>1, <2>4, <2>5, <2>8 DEF Place
    <3>2. QED
      BY <2>1, <2>2, <2>4, <3>1
  <2>9. CASE k > i
    <3>1. PICK f : f = k + w
      OBVIOUS
    <3>2. f \in 1 .. n + 1 /\ z = Place(n, f) /\ z # b /\ p[h] = f - 1
      BY <1>1, <1>3, <2>1, <2>4, <2>5, <2>9, <3>1 DEF Place
    <3>3. QED
      BY <2>1, <2>2, <2>4, <2>6, <3>2
  <2>10. k < i \/ k = i \/ k > i
    BY <1>3
  <2>11. QED
    BY <2>7, <2>8, <2>9, <2>10
<1>20. q \in Tuples(Things, l) /\ (\A k \in 1 .. o : q[k] = s[k]) /\ \A k \in o + 1 .. l : q[k] = s[k + (y - o)]
  BY DEF LessThose
<1>21. ASSUME NEW k \in 1 .. l PROVE r.val[p[k]] = q[k]
  <2>1. PICK z : z = p[k]
    OBVIOUS
  <2>2. k \in 0 .. l + 1
    BY <1>3
  <2>3. z = (IF k < i THEN k ELSE IF k + w <= n THEN k + w ELSE -1) /\ z \in 1 .. MaxNodes /\ r.val[z] = t.val[z]
    BY <1>11, <1>14, <1>16, <2>1, <2>2
  <2>4. CASE k < i
    <3>1. z = k /\ k \in 1 .. o /\ k \in 1 .. n
      BY <1>1, <1>3, <2>3, <2>4
    <3>2. QED
      BY <1>1, <1>20, <2>1, <2>3, <3>1
  <2>5. CASE ~(k < i)
    <3>1. z = k + w /\ z \in 1 .. n /\ k \in o + 1 .. l /\ k + (y - o) = z
      BY <1>1, <1>3, <2>3, <2>5
    <3>2. QED
      BY <1>1, <1>20, <2>1, <2>3, <3>1
  <2>6. QED
    BY <2>4, <2>5
<1>22. l \in 0 .. MaxNodes
  BY <1>1, <1>3
<1>23. Chain(r, p, q, l)
  BY <1>11, <1>15, <1>16, <1>17, <1>18, <1>19, <1>20, <1>21, <1>22 DEF Chain
<1>24. QED
  BY <1>23

(* Both lists come to the node before one, each in its own way. *)
LEMMA BeforeIs ==
  ASSUME NEW t, NEW s, NEW n, Line(t, s, n), NEW i \in 1 .. n + 1, NEW a, a = Place(n, i)
  PROVE  List!Before(t, a) = i - 1
<1>1. n \in Nat /\ (t.double => \A k \in 1 .. n + 1 : t.prev[Place(n, k)] = k - 1) /\ t.double \in BOOLEAN
  BY LineIs DEF Lists
<1>2. CASE t.double
  BY <1>1, <1>2 DEF List!Before
<1>3. CASE ~t.double
  <2> DEFINE z == Straight(n)
  <2>1. \A k \in 0 .. n + 1 : z[k] = Place(n, k)
    BY DEF Straight
  <2>2. Chain(t, z, s, n)
    BY DEF Line
  <2> HIDE DEF z
  <2>3. PICK h, b : h = 0 /\ b = 0
    OBVIOUS
  <2>4. h \in 0 .. n + 1 /\ i \in h .. n + 1 /\ i \in 0 .. n + 1
    BY <1>1, <2>3
  <2>5. b = z[h] /\ a = z[i] /\ i = i - h
    BY <1>1, <2>1, <2>3, <2>4 DEF Place
  <2>6. PICK x : x = List!Walk(t, b, a)
    OBVIOUS
  <2>7. Walked(x, z, h, i)
    BY <2>2, <2>4, <2>5, <2>6, WalkIs
  <2>8. Len(x) = i /\ x = [k \in 1 .. i |-> z[h + k - 1]]
    BY <2>7 DEF Walked
  <2>9. h + i - 1 = i - 1 /\ i - 1 \in 0 .. n + 1 /\ i - 1 <= n
    BY <1>1, <2>3
  <2>10. x[i] = i - 1
    BY <2>1, <2>8, <2>9 DEF Place
  <2>11. List!Before(t, a) = x[Len(x)]
    BY <1>3, <2>3, <2>6 DEF List!Before, List!Start
  <2>12. QED
    BY <2>8, <2>10, <2>11
<1>4. QED
  BY <1>1, <1>2, <1>3

(* What the renumbering makes of an address, and of a number. *)
Number(x, a) == IF a \in List!Range(x) THEN CHOOSE i \in DOMAIN x : x[i] = a ELSE a
Address(x, a) == IF a \in DOMAIN x THEN x[a] ELSE a

(* A list that is linked along any places is in its order after the          *)
(* renumbering.                                                              *)
LEMMA RenumberedIs ==
  ASSUME NEW t, NEW p, NEW s, NEW n, Chain(t, p, s, n), NEW r, r = List!Renumbered(t)
  PROVE  Line(r, s, n)
<1>1. /\ t \in Lists /\ n \in Nat /\ n <= MaxNodes /\ MaxNodes \in Nat
      /\ p \in [0 .. n + 1 -> Places] /\ p[0] = 0 /\ p[n + 1] = -1
      /\ (\A k \in 1 .. n : p[k] \in 1 .. MaxNodes)
      /\ (\A h, k \in 0 .. n + 1 : p[h] = p[k] => h = k)
  BY Bounds DEF Chain
<1>2. /\ n \in 0 .. MaxNodes /\ s \in Tuples(Things, n)
      /\ (\A k \in 0 .. n : t.next[p[k]] = p[k + 1])
      /\ (t.double => \A k \in 1 .. n + 1 : t.prev[p[k]] = p[k - 1])
      /\ (\A k \in 1 .. n : t.val[p[k]] = s[k])
  BY DEF Chain
<1>3. PICK x : x = List!Nodes(t)
  OBVIOUS
<1>4. x = [k \in 1 .. n |-> p[k]]
  <2>1. PICK h, j : h = 1 /\ j = n + 1
    OBVIOUS
  <2>2. PICK a, b : a = p[h] /\ b = p[j]
    OBVIOUS
  <2>3. h \in 0 .. n + 1 /\ j \in h .. n + 1 /\ n = j - h
    BY <1>1, <2>1
  <2>4. 0 \in 0 .. n /\ h = 0 + 1
    BY <1>1, <2>1
  <2>5. a = t.next[0] /\ b = -1
    BY <1>1, <1>2, <2>1, <2>2, <2>4
  <2>6. x = List!Walk(t, a, b)
    BY <1>3, <2>5 DEF List!Nodes, List!Start, List!Stop
  <2>7. Walked(x, p, h, n)
    BY <2>2, <2>3, <2>6, WalkIs
  <2>8. x = [k \in 1 .. n |-> p[h + k - 1]]
    BY <2>7 DEF Walked
  <2>9. \A k \in 1 .. n : h + k - 1 = k
    BY <1>1, <2>1
  <2>10. QED
    BY <2>8, <2>9
<1>5. DOMAIN x = 1 .. n /\ (\A k \in 1 .. n : x[k] = p[k]) /\ List!Range(x) = {p[k] : k \in 1 .. n}
  BY <1>4 DEF List!Range
<1>6. \A k \in 0 .. n + 1 : Number(x, p[k]) = Place(n, k)
  <2>1. ASSUME NEW k \in 1 .. n PROVE Number(x, p[k]) = Place(n, k)
    <3>1. \A i \in 1 .. n : x[i] = p[k] <=> i = k
      <4>1. \A i \in 1 .. n : i \in 0 .. n + 1
        BY <1>1
      <4>2. QED
        BY <1>1, <1>5, <4>1
    <3>2. p[k] \in List!Range(x)
      BY <1>5
    <3>3. (CHOOSE i \in DOMAIN x : x[i] = p[k]) = k
      BY <1>5, <3>1
    <3>4. QED
      BY <1>1, <3>2, <3>3 DEF Number, Place
  <2>2. ASSUME NEW k \in {0, n + 1} PROVE Number(x, p[k]) = Place(n, k)
    <3>1. p[k] = Place(n, k) /\ p[k] \notin 1 .. MaxNodes
      BY <1>1 DEF Place
    <3>2. p[k] \notin List!Range(x)
      BY <1>1, <1>5, <3>1
    <3>3. QED
      BY <3>1, <3>2 DEF Number
  <2>3. \A k \in 0 .. n + 1 : k \in 1 .. n \/ k \in {0, n + 1}
    BY <1>1
  <2>4. QED
    BY <2>1, <2>2, <2>3
<1>7. \A k \in 0 .. n + 1 : Address(x, Place(n, k)) = p[k] /\ Place(n, k) \in Places
                            /\ Place(n, k) \in (1 .. n) \cup {0, -1}
  <2>1. ASSUME NEW k \in 1 .. n PROVE Place(n, k) = k /\ k \in Places /\ Address(x, k) = p[k]
    BY <1>1, <1>5, <2>1 DEF Place, Address, Places
  <2>2. Place(n, 0) = 0 /\ Place(n, n + 1) = -1 /\ 0 \in Places /\ -1 \in Places
    BY <1>1 DEF Place, Places
  <2>3. 0 \notin 1 .. n /\ -1 \notin 1 .. n
    BY <1>1
  <2>4. Address(x, 0) = p[0] /\ Address(x, -1) = p[n + 1]
    BY <1>1, <1>5, <2>3 DEF Address
  <2>5. \A k \in 0 .. n + 1 : k \in 1 .. n \/ k = 0 \/ k = n + 1
    BY <1>1
  <2>6. QED
    BY <2>1, <2>2, <2>4, <2>5
<1>8. ASSUME NEW a \in Places PROVE Address(x, a) \in Places
  <2>1. \A k \in 1 .. n : x[k] \in 1 .. MaxNodes
    BY <1>1, <1>5
  <2>2. QED
    BY <1>5, <2>1 DEF Address, Places
<1>9. ASSUME NEW a \in Int PROVE Number(x, a) \in Int
  <2>1. CASE a \in List!Range(x)
    <3>1. PICK k \in 1 .. n : x[k] = a
      BY <1>5, <2>1
    <3>2. (CHOOSE i \in DOMAIN x : x[i] = a) \in 1 .. n
      BY <1>5, <3>1
    <3>3. QED
      BY <2>1, <3>2 DEF Number
  <2>2. CASE a \notin List!Range(x)
    BY <2>2 DEF Number
  <2>3. QED
    BY <2>1, <2>2
<1>10. t.next \in [Places -> Int] /\ t.prev \in [Places -> Int] /\ t.val \in [1 .. MaxNodes -> Things \cup {0}]
      /\ t.double \in BOOLEAN /\ DOMAIN t.next = Places /\ DOMAIN t.prev = Places
  BY <1>1 DEF Lists
<1> DEFINE used(a) == a \in (1 .. n) \cup {0, -1}
           next == [a \in Places |-> IF used(a) THEN Number(x, t.next[Address(x, a)]) ELSE -2]
           prev == [a \in Places |-> IF used(a) THEN Number(x, t.prev[Address(x, a)]) ELSE -2]
           val == [a \in 1 .. MaxNodes |-> IF used(a) THEN t.val[Address(x, a)] ELSE 0]
<1>11. r = [double |-> t.double, next |-> next, prev |-> prev, val |-> val]
  BY <1>3, <1>5, <1>10 DEF List!Renumbered, List!Node, List!Start, List!Stop, List!Freed, List!Unused, Number, Address
<1>12. next \in [Places -> Int] /\ prev \in [Places -> Int]
  <2>1. \A a \in Places : t.next[Address(x, a)] \in Int /\ t.prev[Address(x, a)] \in Int
    BY <1>8, <1>10
  <2>2. \A a \in Places : Number(x, t.next[Address(x, a)]) \in Int /\ Number(x, t.prev[Address(x, a)]) \in Int
    BY <1>9, <2>1
  <2>3. QED
    BY <2>2
<1>13. ASSUME NEW a \in 1 .. MaxNodes PROVE val[a] = IF a <= n THEN s[a] ELSE 0
  <2>1. CASE a <= n
    <3>1. a \in 1 .. n
      BY <1>1, <2>1
    <3>2. Address(x, a) = p[a] /\ used(a)
      BY <1>5, <3>1 DEF Address
    <3>3. QED
      BY <1>2, <2>1, <3>1, <3>2
  <2>2. CASE ~(a <= n)
    <3>1. ~used(a)
      BY <1>1, <2>2
    <3>2. QED
      BY <2>2, <3>1
  <2>3. QED
    BY <2>1, <2>2
<1>14. val \in [1 .. MaxNodes -> Things \cup {0}]
  <2>1. \A a \in 1 .. MaxNodes : val[a] \in Things \cup {0}
    <3>1. \A a \in 1 .. MaxNodes : a <= n => a \in 1 .. n
      BY <1>1
    <3>2. \A a \in 1 .. n : s[a] \in Things
      BY <1>2 DEF Tuples
    <3>3. QED
      BY <1>13, <3>1, <3>2
  <2>2. QED
    BY <2>1
<1>15. r \in Lists
  BY <1>10, <1>11, <1>12, <1>14 DEF Lists
<1>16. ASSUME NEW k \in 0 .. n PROVE r.next[Place(n, k)] = Place(n, k + 1)
  <2>1. k \in 0 .. n + 1 /\ k + 1 \in 0 .. n + 1
    BY <1>1
  <2>2. next[Place(n, k)] = Number(x, t.next[p[k]])
    BY <1>7, <2>1
  <2>3. QED
    BY <1>2, <1>6, <1>11, <2>1, <2>2
<1>17. ASSUME r.double, NEW k \in 1 .. n + 1 PROVE r.prev[Place(n, k)] = Place(n, k - 1)
  <2>1. k \in 0 .. n + 1 /\ k - 1 \in 0 .. n + 1
    BY <1>1
  <2>2. prev[Place(n, k)] = Number(x, t.prev[p[k]])
    BY <1>7, <2>1
  <2>3. t.prev[p[k]] = p[k - 1]
    BY <1>2, <1>11, <1>17
  <2>4. QED
    BY <1>6, <1>11, <2>1, <2>2, <2>3
<1> HIDE DEF next, prev
<1>18. \A k \in 1 .. n : r.val[Place(n, k)] = s[k]
  <2>1. \A k \in 1 .. n : Place(n, k) = k /\ k \in 1 .. MaxNodes /\ k <= n
    BY <1>1 DEF Place
  <2>2. QED
    BY <1>11, <1>13, <2>1
<1>19. \A a \in n + 1 .. MaxNodes : r.val[a] = 0
  <2>1. \A a \in n + 1 .. MaxNodes : a \in 1 .. MaxNodes /\ ~(a <= n)
    BY <1>1
  <2>2. QED
    BY <1>11, <1>13, <2>1
<1> HIDE DEF val
<1>20. PICK z : z = Straight(n)
  OBVIOUS
<1>21. z \in [0 .. n + 1 -> Places] /\ \A k \in 0 .. n + 1 : z[k] = Place(n, k)
  BY <1>7, <1>20 DEF Straight
<1>22. z[0] = 0 /\ z[n + 1] = -1 /\ (\A k \in 1 .. n : z[k] \in 1 .. MaxNodes)
       /\ \A h, k \in 0 .. n + 1 : z[h] = z[k] => h = k
  <2>1. 0 \in 0 .. n + 1 /\ n + 1 \in 0 .. n + 1 /\ \A k \in 1 .. n : k \in 0 .. n + 1
    BY <1>1
  <2>2. ASSUME NEW h \in 0 .. n + 1, NEW k \in 0 .. n + 1, z[h] = z[k] PROVE h = k
    BY <1>1, <1>21, <2>2 DEF Place
  <2>3. z[0] = 0 /\ z[n + 1] = -1 /\ \A k \in 1 .. n : z[k] \in 1 .. MaxNodes
    BY <1>1, <1>21, <2>1 DEF Place
  <2>4. QED
    BY <2>2, <2>3
<1>23. (\A k \in 0 .. n : r.next[z[k]] = z[k + 1]) /\ (\A k \in 1 .. n : r.val[z[k]] = s[k])
  <2>1. \A k \in 0 .. n : k \in 0 .. n + 1 /\ k + 1 \in 0 .. n + 1
    BY <1>1
  <2>2. \A k \in 1 .. n : k \in 0 .. n + 1
    BY <1>1
  <2>3. QED
    BY <1>16, <1>18, <1>21, <2>1, <2>2
<1>24. r.double => \A k \in 1 .. n + 1 : r.prev[z[k]] = z[k - 1]
  <2>1. \A k \in 1 .. n + 1 : k \in 0 .. n + 1 /\ k - 1 \in 0 .. n + 1
    BY <1>1
  <2>2. QED
    BY <1>17, <1>21, <2>1
<1>25. Chain(r, z, s, n)
  BY <1>2, <1>15, <1>21, <1>22, <1>23, <1>24 DEF Chain
<1>26. QED
  BY <1>19, <1>20, <1>25 DEF Line

(* The list's inductive invariant: in its order, it holds the elements;      *)
(* others are not in use.                                                    *)
ListInv == Line(rep, items, Len(items))

(* The nodes, in the order of the list. *)
LEMMA NodesAre ==
  ASSUME NEW t, NEW s, NEW n, Line(t, s, n), NEW x, x = List!Nodes(t)
  PROVE  Len(x) = n /\ x = [k \in 1 .. n |-> k]
<1>1. n \in Nat /\ (\A k \in 0 .. n : t.next[k] = Place(n, k + 1))
  BY LineIs
<1> DEFINE z == Straight(n)
<1>2. \A k \in 0 .. n + 1 : z[k] = Place(n, k)
  BY DEF Straight
<1>3. Chain(t, z, s, n)
  BY DEF Line
<1> HIDE DEF z
<1>4. PICK h, j : h = 1 /\ j = n + 1
  OBVIOUS
<1>5. PICK a, b : a = z[h] /\ b = z[j]
  OBVIOUS
<1>6. h \in 0 .. n + 1 /\ j \in h .. n + 1 /\ j \in 0 .. n + 1 /\ n = j - h
  BY <1>1, <1>4
<1>7. a = t.next[0] /\ b = -1
  <2>1. 0 \in 0 .. n /\ 0 + 1 = h
    BY <1>1, <1>4
  <2>2. a = Place(n, h) /\ b = Place(n, j) /\ t.next[0] = Place(n, h)
    BY <1>1, <1>2, <1>5, <1>6, <2>1
  <2>3. QED
    BY <1>1, <1>4, <2>2 DEF Place
<1>8. x = List!Walk(t, a, b)
  BY <1>7 DEF List!Nodes, List!Start, List!Stop
<1>9. Walked(x, z, h, n)
  BY <1>3, <1>5, <1>6, <1>8, WalkIs
<1>10. Len(x) = n /\ x = [k \in 1 .. n |-> z[h + k - 1]]
  BY <1>9 DEF Walked
<1>11. \A k \in 1 .. n : z[h + k - 1] = k
  <2>1. \A k \in 1 .. n : h + k - 1 = k /\ k \in 0 .. n + 1 /\ k <= n
    BY <1>1, <1>4
  <2>2. QED
    BY <1>2, <2>1 DEF Place
<1>12. QED
  BY <1>10, <1>11

(* Insertion in front of a node or at the end. *)
LEMMA InsertBeforeIs ==
  ASSUME NEW t, NEW s, NEW n, NEW it, NEW vals, NEW c, Addable(t, s, n, it, vals, c),
         NEW a, a = Place(n, it + 1), NEW r, r = List!InsertBefore(t, a, vals), NEW j, j = n + c,
         NEW q, With(q, Things, j, s, it, vals, c)
  PROVE  \E p : Chain(r, p, q, j)
<1>1. Line(t, s, n) /\ it \in 0 .. n
  BY DEF Addable
<1>2. n \in Nat
  BY <1>1, LineIs
<1>3. PICK i : i = it + 1
  OBVIOUS
<1>4. i \in 1 .. n + 1 /\ i - 1 = it
  BY <1>1, <1>2, <1>3
<1>5. List!Before(t, a) = i - 1
  BY <1>1, <1>3, <1>4, BeforeIs
<1>6. PICK u : u = List!AddNodes(t, it, vals)
  OBVIOUS
<1>7. r = List!connect(u.list, u.last, a)
  BY <1>4, <1>5, <1>6 DEF List!InsertBefore
<1>8. QED
  BY <1>6, <1>7, InsertChain

(* A list without the elements of a range. *)
LEMMA ListEraseRangeIs ==
  ASSUME NEW t, NEW s, NEW n, Line(t, s, n), NEW i \in 1 .. n + 1, NEW j \in i .. n + 1,
         NEW a, a = Place(n, i), NEW b, b = Place(n, j), NEW r, r = List!EraseRange(t, a, b),
         NEW o, o = i - 1, NEW y, y = j - 1, NEW l, l = n - (j - i), NEW q, LessThose(q, Things, l, s, o, y)
  PROVE  \E p : Chain(r, p, q, l)
<1>1. List!Before(t, a) = i - 1
  BY BeforeIs
<1>2. r = List!connect(List!Delete(t, List!Walk(t, a, b)), o, b)
  BY <1>1 DEF List!EraseRange
<1>3. QED
  BY <1>2, EraseChain

(* A linked list of the elements that should be there keeps the invariant. *)
LEMMA ListBecomes ==
  ASSUME NEW t, NEW p, NEW q, NEW j, Chain(t, p, q, j), List!Become(t, q)
  PROVE  ListInv'
<1>1. rep' = List!Renumbered(t) /\ items' = q
  BY DEF List!Become
<1>2. PICK r : r = List!Renumbered(t)
  OBVIOUS
<1>3. Line(r, q, j)
  BY <1>2, RenumberedIs
<1>4. j \in Nat /\ q \in Tuples(Things, j)
  BY Bounds DEF Chain
<1>5. Len(q) = j
  BY <1>4, TupleIs
<1>6. QED
  BY <1>1, <1>2, <1>3, <1>5 DEF ListInv

(* What is inserted are a list's elements. *)
LEMMA ListsBounded ==
  \A n \in 0 .. 2 : \A s \in [1 .. n -> Values] : Len(s) \in Nat /\ s \in Tuples(Things, Len(s))
<1> SUFFICES ASSUME NEW n \in 0 .. 2, NEW s \in [1 .. n -> Values]
             PROVE  Len(s) \in Nat /\ s \in Tuples(Things, Len(s))
  OBVIOUS
<1>1. s \in Seq(Values)
  OBVIOUS
<1>2. s \in Seq(Things)
  BY <1>1 DEF Things
<1>3. QED
  BY <1>2, SequenceIs

LEMMA OneThing ==
  ASSUME NEW v \in Things, NEW c, c = 1, NEW vals, vals = <<v>>
  PROVE  vals \in Tuples(Things, c)
BY DEF Tuples

(* An element in front of all, or behind all. *)
LEMMA FrontWith ==
  ASSUME NEW n \in Nat, NEW s \in Tuples(Things, n), NEW v \in Things, NEW c, c = 1, NEW vals, vals = <<v>>,
         NEW j, j = n + c, NEW it, it = 0, NEW q, q = vals \o s
  PROVE  With(q, Things, j, s, it, vals, c)
<1>1. vals \in Tuples(Things, c) /\ c \in Nat
  BY OneThing
<1>2. j = c + n
  OBVIOUS
<1>3. Concat(q, Things, j, vals, c, s, n)
  BY <1>1, <1>2, ConcatIs
<1>4. q \in Tuples(Things, j) /\ Len(q) = j /\ (\A i \in 1 .. c : q[i] = vals[i]) /\ \A i \in 1 .. n : q[c + i] = s[i]
  BY <1>3 DEF Concat
<1>5. ASSUME NEW i \in it + c + 1 .. j PROVE q[i] = s[i - c]
  <2>1. i - c \in 1 .. n /\ c + (i - c) = i
    BY <1>1
  <2>2. QED
    BY <1>4, <2>1
<1>6. \A i \in 1 .. c : it + i = i
  BY <1>1
<1>7. \A i \in 1 .. it : q[i] = s[i]
  OBVIOUS
<1>8. \A i \in 1 .. c : q[it + i] = vals[i]
  BY <1>4, <1>6
<1>9. QED
  BY <1>4, <1>5, <1>7, <1>8 DEF With

LEMMA BackWith ==
  ASSUME NEW n \in Nat, NEW s \in Tuples(Things, n), NEW v \in Things, NEW c, c = 1, NEW vals, vals = <<v>>,
         NEW j, j = n + c, NEW q, q = Append(s, v)
  PROVE  With(q, Things, j, s, n, vals, c)
<1>1. j = n + 1
  OBVIOUS
<1>2. AndThen(q, Things, j, s, n, v)
  BY <1>1, AppendIs
<1>3. q \in Tuples(Things, j) /\ Len(q) = j /\ (\A i \in 1 .. n : q[i] = s[i]) /\ q[j] = v
  BY <1>2 DEF AndThen
<1>4. \A i \in 1 .. c : n + i = j /\ vals[i] = v
  OBVIOUS
<1>5. \A i \in n + c + 1 .. j : q[i] = s[i - c]
  OBVIOUS
<1>6. \A i \in 1 .. c : q[n + i] = vals[i]
  BY <1>3, <1>4
<1>7. QED
  BY <1>3, <1>5, <1>6 DEF With

(* The invariant holds at first. *)
LEMMA ListStarts == List!Init => ListInv
<1> SUFFICES ASSUME List!Init PROVE ListInv
  OBVIOUS
<1>1. PICK double \in BOOLEAN : rep = List!EmptyList(double)
  BY DEF List!Init
<1>2. items = <<>>
  BY DEF List!Init
<1>3. PICK n : n = 0
  OBVIOUS
<1>4. Len(items) = n /\ items \in Tuples(Things, n)
  BY <1>2, <1>3 DEF Tuples
<1>5. PICK e, v : e = [a \in Places |-> -2] /\ v = [a \in 1 .. MaxNodes |-> 0]
  OBVIOUS
<1>6. PICK t : t = [double |-> double, next |-> e, prev |-> e, val |-> v]
  OBVIOUS
<1>7. List!Node \cup {List!Start, List!Stop} = Places /\ List!Node = 1 .. MaxNodes
  BY DEF Places, List!Node, List!Start, List!Stop
<1>8. PICK q, a : q = 0 /\ a = -1
  OBVIOUS
<1>9. rep = List!connect(t, q, a)
  BY <1>1, <1>5, <1>6, <1>7, <1>8 DEF List!EmptyList, List!Start, List!Stop, List!Freed, List!Unused
<1>10. t \in Lists
  <2>1. e \in [Places -> Int] /\ v \in [1 .. MaxNodes -> Things \cup {0}]
    BY <1>5
  <2>2. QED
    BY <1>6, <2>1 DEF Lists
<1>11. q \in Places /\ a \in Places
  BY <1>8 DEF Places
<1>12. Connected(rep, t, q, a)
  BY <1>9, <1>10, <1>11, ConnectIs
<1>13. /\ rep \in Lists /\ rep.double = t.double /\ rep.val = t.val
       /\ \A x \in Places : rep.next[x] = IF x = q THEN a ELSE t.next[x]
       /\ t.double => \A x \in Places : rep.prev[x] = IF x = a THEN q ELSE t.prev[x]
  BY <1>12 DEF Connected
<1>14. rep.next[q] = a /\ (rep.double => rep.prev[a] = q) /\ rep.val = v
  BY <1>6, <1>11, <1>13
<1>15. PICK z : z = Straight(n)
  OBVIOUS
<1>16. z[0] = 0 /\ z[1] = -1 /\ z \in [0 .. n + 1 -> Places]
  <2>1. 0 .. n + 1 = {0, 1} /\ Place(n, 0) = 0 /\ Place(n, 1) = -1
    BY <1>3 DEF Place
  <2>2. z = [k \in 0 .. n + 1 |-> Place(n, k)]
    BY <1>15 DEF Straight
  <2>3. Place(n, 0) \in Places /\ Place(n, 1) \in Places
    BY <2>1 DEF Places
  <2>4. QED
    BY <2>1, <2>2, <2>3
<1>17. Chain(rep, z, items, n)
  <2>1. n \in 0 .. MaxNodes
    BY <1>3, Bounds
  <2>2. \A k \in 1 .. n : FALSE
    BY <1>3
  <2>3. \A h, k \in 0 .. n + 1 : z[h] = z[k] => h = k
    <3>1. \A h \in 0 .. n + 1 : h = 0 \/ h = 1
      BY <1>3
    <3>2. QED
      BY <1>16, <3>1
  <2>4. \A k \in 0 .. n : rep.next[z[k]] = z[k + 1]
    <3>1. \A k \in 0 .. n : k = 0 /\ k + 1 = 1
      BY <1>3
    <3>2. rep.next[z[0]] = z[1]
      BY <1>8, <1>14, <1>16
    <3>3. QED
      BY <3>1, <3>2
  <2>5. ASSUME rep.double PROVE \A k \in 1 .. n + 1 : rep.prev[z[k]] = z[k - 1]
    <3>1. \A k \in 1 .. n + 1 : k = 1 /\ k - 1 = 0
      BY <1>3
    <3>2. rep.prev[z[1]] = z[0]
      BY <1>8, <1>14, <1>16, <2>5
    <3>3. QED
      BY <3>1, <3>2
  <2>6. z[n + 1] = -1
    BY <1>3, <1>16
  <2>7. QED
    BY <1>4, <1>13, <1>16, <2>1, <2>2, <2>3, <2>4, <2>5, <2>6 DEF Chain
<1>18. \A k \in n + 1 .. MaxNodes : rep.val[k] = 0
  BY <1>3, <1>5, <1>14
<1>19. QED
  BY <1>4, <1>15, <1>17, <1>18 DEF ListInv, Line

(* What insert_after() and its kin leave, as the operations use them. *)
LEMMA InsertKeeps ==
  ASSUME NEW n \in Nat, Line(rep, items, n), NEW it \in 0 .. n, NEW c \in Nat, n + c <= MaxNodes,
         NEW vals \in Tuples(Things, c), NEW a, a = Place(n, it + 1), NEW j, j = n + c,
         NEW q, With(q, Things, j, items, it, vals, c), List!Become(List!InsertBefore(rep, a, vals), q)
  PROVE  ListInv'
<1>1. Addable(rep, items, n, it, vals, c)
  BY DEF Addable
<1>2. PICK r : r = List!InsertBefore(rep, a, vals)
  OBVIOUS
<1>3. PICK p : Chain(r, p, q, j)
  BY <1>1, <1>2, InsertBeforeIs
<1>4. QED
  BY <1>2, <1>3, ListBecomes

LEMMA EraseKeeps ==
  ASSUME NEW n \in Nat, Line(rep, items, n), NEW i \in 1 .. n + 1, NEW j \in i .. n + 1,
         NEW a, a = Place(n, i), NEW b, b = Place(n, j), NEW o, o = i - 1, NEW y, y = j - 1,
         NEW l, l = n - (j - i), NEW q, LessThose(q, Things, l, items, o, y),
         List!Become(List!EraseRange(rep, a, b), q)
  PROVE  ListInv'
<1>1. PICK r : r = List!EraseRange(rep, a, b)
  OBVIOUS
<1>2. PICK p : Chain(r, p, q, l)
  BY <1>1, ListEraseRangeIs
<1>3. QED
  BY <1>1, <1>2, ListBecomes

(* A sequence without its first element, and without its last. *)
LEMMA TailIs ==
  ASSUME NEW S, NEW n \in Nat, NEW s \in Tuples(S, n), n # 0, NEW o, o = 0, NEW y, y = 1, NEW l, l = n - 1,
         NEW q, q = Tail(s)
  PROVE  LessThose(q, S, l, s, o, y)
<1>1. s \in Seq(S) /\ Len(s) = n /\ \A i \in 1 .. n : s[i] \in S
  BY TupleIs
<1>2. s # <<>> /\ l \in Nat
  BY <1>1
<1>3. q \in Seq(S) /\ Len(q) = l /\ \A i \in 1 .. l : q[i] = s[i + 1]
  BY <1>1, <1>2
<1>4. q \in Tuples(S, l)
  BY <1>3, SequenceIs
<1>5. (\A i \in 1 .. o : FALSE) /\ o + 1 = 1 /\ y - o = 1
  OBVIOUS
<1>6. \A i \in o + 1 .. l : q[i] = s[i + (y - o)]
  BY <1>3, <1>5
<1>7. QED
  BY <1>3, <1>4, <1>5, <1>6 DEF LessThose

LEMMA LessLast ==
  ASSUME NEW S, NEW n \in Nat, NEW s \in Tuples(S, n), n # 0, NEW l, l = n - 1,
         NEW q, q = SubSeq(s, 1, Len(s) - 1)
  PROVE  LessThose(q, S, l, s, l, n)
<1>1. l \in Nat /\ Part(q, S, s, 0, l)
  BY FrontIs
<1>2. q \in Tuples(S, l) /\ Len(q) = l /\ \A k \in 1 .. l : q[k] = s[0 + k]
  BY <1>1 DEF Part
<1>3. \A k \in 1 .. l : 0 + k = k
  BY <1>1
<1>4. \A k \in l + 1 .. l : FALSE
  BY <1>1
<1>5. \A i \in 1 .. l : q[i] = s[i]
  BY <1>2, <1>3
<1>6. QED
  BY <1>2, <1>4, <1>5 DEF LessThose

(* A list made longer with nodes at its end, or cut off behind a node. *)
LEMMA ListResizes ==
  ASSUME NEW n \in Nat, Line(rep, items, n), NEW w \in 0 .. MaxNodes, List!resize(w)
  PROVE  ListInv'
<1>1. MaxNodes \in Nat /\ w \in Nat /\ n <= MaxNodes /\ items \in Tuples(Things, n)
      /\ (\A k \in 0 .. n : rep.next[k] = Place(n, k + 1))
  BY Bounds, LineIs
<1>2. Len(items) = n /\ \A i \in 1 .. n : items[i] \in Things
  BY <1>1, TupleIs
<1>3. PICK q : q = [i \in 1 .. w |-> IF i <= n THEN items[i] ELSE Default]
  OBVIOUS
<1>4. PICK r : r = List!Resized(rep, w)
  OBVIOUS
<1>5. List!Become(r, q)
  BY <1>2, <1>3, <1>4 DEF List!resize
<1>6. q \in Tuples(Things, w) /\ Len(q) = w
  <2>1. \A i \in 1 .. w : i <= n => i \in 1 .. n
    OBVIOUS
  <2>2. Default \in Things
    BY DEF Things
  <2>3. q \in Tuples(Things, w)
    BY <1>2, <1>3, <2>1, <2>2 DEF Tuples
  <2>4. QED
    BY <1>1, <2>3, TupleIs
<1>7. PICK s : s = List!Nodes(rep)
  OBVIOUS
<1>8. Len(s) = n /\ s = [k \in 1 .. n |-> k]
  BY <1>7, NodesAre
<1>9. PICK a : a = -1
  OBVIOUS
<1>10. Place(n, n + 1) = a
  BY <1>9 DEF Place
<1>11. CASE w > n
  <2>1. PICK c \in Nat : c = w - n
    BY <1>1, <1>11
  <2>2. PICK vals : vals = [i \in 1 .. c |-> Default]
    OBVIOUS
  <2>3. vals \in Tuples(Things, c)
    BY <2>2 DEF Tuples, Things
  <2>4. (IF s = <<>> THEN 0 ELSE s[Len(s)]) = n
    <3>1. CASE n = 0
      <4>1. Len(s) = 0 /\ s = [k \in 1 .. 0 |-> k]
        BY <1>8, <3>1
      <4>2. s = <<>>
        BY <4>1
      <4>3. QED
        BY <3>1, <4>2
    <3>2. CASE n # 0
      <4>1. s # <<>> /\ n \in 1 .. n
        BY <1>8, <3>2
      <4>2. QED
        BY <1>8, <4>1
    <3>3. QED
      BY <3>1, <3>2
  <2>5. PICK u : u = List!AddNodes(rep, n, vals)
    OBVIOUS
  <2>6. r = List!connect(u.list, u.last, a)
    <3>1. w > Len(s) /\ vals = [i \in 1 .. (w - Len(s)) |-> Default]
      BY <1>8, <1>11, <2>1, <2>2
    <3>2. (IF s = <<>> THEN List!Start ELSE s[Len(s)]) = n
      BY <2>4 DEF List!Start
    <3>3. a = List!Stop
      BY <1>9 DEF List!Stop
    <3>4. QED
      BY <1>4, <1>7, <2>5, <3>1, <3>2, <3>3 DEF List!Resized
  <2>7. PICK it : it = n
    OBVIOUS
  <2>8. Addable(rep, items, n, it, vals, c) /\ it + 1 = n + 1 /\ w = n + c
    BY <1>1, <2>1, <2>3, <2>7 DEF Addable
  <2>9. With(q, Things, w, items, it, vals, c)
    <3>1. \A i \in 1 .. it : i \in 1 .. w /\ i <= n
      BY <1>11, <2>7
    <3>2. \A i \in 1 .. c : it + i \in 1 .. w /\ ~(it + i <= n)
      BY <2>1, <2>7
    <3>3. \A i \in it + c + 1 .. w : FALSE
      BY <2>1, <2>7
    <3>4. \A i \in 1 .. it : q[i] = items[i]
      BY <1>3, <3>1
    <3>5. \A i \in 1 .. c : q[it + i] = vals[i]
      BY <1>3, <2>2, <3>2
    <3>6. QED
      BY <1>6, <3>3, <3>4, <3>5 DEF With
  <2>10. a = Place(n, it + 1) /\ u = List!AddNodes(rep, it, vals)
    BY <1>10, <2>5, <2>7
  <2>11. PICK p : Chain(r, p, q, w)
    BY <2>6, <2>8, <2>9, <2>10, InsertChain
  <2>12. QED
    BY <1>5, <2>11, ListBecomes
<1>12. CASE ~(w > n)
  <2>1. PICK i, j, y : i = w + 1 /\ j = n + 1 /\ y = n
    OBVIOUS
  <2>2. i \in 1 .. n + 1 /\ j \in i .. n + 1 /\ w = i - 1 /\ y = j - 1 /\ w = n - (j - i) /\ w \in 0 .. n
    BY <1>1, <1>12, <2>1
  <2>3. PICK b : b = Place(n, i)
    OBVIOUS
  <2>4. a = Place(n, j)
    BY <1>10, <2>1
  <2>5. (IF w = 0 THEN 0 ELSE s[w]) = w
    <3>1. CASE w = 0
      BY <3>1
    <3>2. CASE w # 0
      <4>1. w \in 1 .. n
        BY <2>2, <3>2
      <4>2. QED
        BY <1>8, <4>1
    <3>3. QED
      BY <3>1, <3>2
  <2>6. rep.next[w] = b
    BY <1>1, <2>1, <2>2, <2>3
  <2>7. r = List!connect(List!Delete(rep, List!Walk(rep, b, a)), w, a)
    <3>1. ~(w > Len(s))
      BY <1>8, <1>12
    <3>2. (IF w = 0 THEN List!Start ELSE s[w]) = w /\ List!Stop = a
      BY <1>9, <2>5 DEF List!Start, List!Stop
    <3>3. QED
      BY <1>4, <1>7, <2>6, <3>1, <3>2 DEF List!Resized
  <2>8. LessThose(q, Things, w, items, w, y)
    <3>1. \A k \in 1 .. w : k <= n
      BY <2>2
    <3>2. \A k \in w + 1 .. w : FALSE
      BY <1>1
    <3>3. \A k \in 1 .. w : q[k] = items[k]
      BY <1>3, <3>1
    <3>4. QED
      BY <1>6, <3>2, <3>3 DEF LessThose
  <2>9. PICK p : Chain(r, p, q, w)
    BY <2>2, <2>3, <2>4, <2>7, <2>8, EraseChain
  <2>10. QED
    BY <1>5, <2>9, ListBecomes
<1>13. QED
  BY <1>11, <1>12

(* Every operation of the list keeps the invariant. *)
LEMMA ListKeeps == ListInv /\ List!Next => ListInv'
<1> SUFFICES ASSUME ListInv, List!Next PROVE ListInv'
  OBVIOUS
<1>1. PICK n : n = Len(items) /\ Line(rep, items, n)
  BY DEF ListInv
<1>2. /\ n \in Nat /\ n <= MaxNodes /\ MaxNodes \in Nat /\ items \in Tuples(Things, n)
      /\ \A k \in 0 .. n : rep.next[k] = Place(n, k + 1)
  BY <1>1, LineIs
<1>3. Values \subseteq Things
  BY DEF Things
<1>4. \A c : List!Room(c) => n + c <= MaxNodes
  BY <1>1 DEF List!Room
<1>5. PICK a : a = -1
  OBVIOUS
<1>6. a = Place(n, n + 1) /\ a = List!Stop
  BY <1>2, <1>5 DEF Place, List!Stop
<1>7. PICK head : head = rep.next[0]
  OBVIOUS
<1>8. head = Place(n, 1) /\ head = rep.next[List!Start]
  <2>1. 0 \in 0 .. n /\ 0 + 1 = 1
    BY <1>2
  <2>2. QED
    BY <1>2, <1>7, <2>1 DEF List!Start
<1>9. \A i \in 1 .. n + 1 : List!At(i) = Place(n, i)
  BY <1>1, <1>5, <1>6 DEF List!At, Place
<1>10. PICK one : one = 1
  OBVIOUS
<1>11. (items = <<>> <=> n = 0) /\ (head = a <=> n = 0)
  <2>1. items = <<>> <=> n = 0
    BY <1>1, <1>2, TupleIs
  <2>2. head = a <=> n = 0
    BY <1>2, <1>5, <1>8 DEF Place
  <2>3. QED
    BY <2>1, <2>2
<1>12. ASSUME NEW v \in Values, List!push_front(v) PROVE ListInv'
  <2>1. PICK vals, q, j, it : vals = <<v>> /\ q = vals \o items /\ j = n + one /\ it = 0
    OBVIOUS
  <2>2. v \in Things /\ vals \in Tuples(Things, one)
    BY <1>3, <1>10, <2>1, OneThing
  <2>3. With(q, Things, j, items, it, vals, one)
    BY <1>2, <1>10, <2>1, <2>2, FrontWith
  <2>4. List!Become(List!InsertBefore(rep, head, vals), q) /\ n + one <= MaxNodes
    BY <1>4, <1>8, <1>10, <1>12, <2>1 DEF List!push_front, List!PushFront
  <2>5. it \in 0 .. n /\ one \in Nat /\ it + 1 = 1
    BY <1>2, <1>10, <2>1
  <2>6. head = Place(n, it + 1)
    BY <1>8, <2>5
  <2>7. QED
    BY <1>1, <1>2, <2>1, <2>2, <2>3, <2>4, <2>5, <2>6, InsertKeeps
<1>13. ASSUME NEW v \in Values, List!push_back(v) PROVE ListInv'
  <2>1. PICK vals, q, j, it : vals = <<v>> /\ q = Append(items, v) /\ j = n + one /\ it = n
    OBVIOUS
  <2>2. v \in Things /\ vals \in Tuples(Things, one)
    BY <1>3, <1>10, <2>1, OneThing
  <2>3. With(q, Things, j, items, it, vals, one)
    BY <1>2, <1>10, <2>1, <2>2, BackWith
  <2>4. List!Become(List!InsertBefore(rep, a, vals), q) /\ n + one <= MaxNodes
    BY <1>4, <1>6, <1>10, <1>13, <2>1 DEF List!push_back, List!PushBack
  <2>5. it \in 0 .. n /\ one \in Nat
    BY <1>2, <1>10, <2>1
  <2>6. a = Place(n, it + 1)
    BY <1>6, <2>1
  <2>7. QED
    BY <1>1, <1>2, <2>1, <2>2, <2>3, <2>4, <2>5, <2>6, InsertKeeps
<1>14. CASE List!pop_front
  <2>1. CASE n = 0
    <3>1. List!Become(rep, items)
      BY <1>6, <1>8, <1>11, <1>14, <2>1 DEF List!pop_front, List!PopFront
    <3>2. Chain(rep, Straight(n), items, n)
      BY <1>1 DEF Line
    <3>3. QED
      BY <3>1, <3>2, ListBecomes
  <2>2. CASE n # 0
    <3>1. PICK i, j, o, y, l, q : i = 1 /\ j = 2 /\ o = 0 /\ y = 1 /\ l = n - 1 /\ q = Tail(items)
      OBVIOUS
    <3>2. i \in 1 .. n + 1 /\ j \in i .. n + 1 /\ o = i - 1 /\ y = j - 1 /\ l = n - (j - i)
      BY <1>2, <2>2, <3>1
    <3>3. LessThose(q, Things, l, items, o, y)
      BY <1>2, <2>2, <3>1, TailIs
    <3>4. PICK b : b = Place(n, j)
      OBVIOUS
    <3>5. head = Place(n, i) /\ rep.next[head] = b
      <4>1. head = 1 /\ 1 \in 0 .. n /\ 1 + 1 = j
        BY <1>2, <1>8, <2>2, <3>1 DEF Place
      <4>2. QED
        BY <1>2, <1>8, <3>1, <3>4, <4>1
    <3>6. List!Become(List!EraseRange(rep, head, b), q)
      BY <1>6, <1>8, <1>11, <1>14, <2>2, <3>1, <3>5 DEF List!pop_front, List!PopFront
    <3>7. QED
      BY <1>1, <1>2, <3>2, <3>3, <3>4, <3>5, <3>6, EraseKeeps
  <2>3. QED
    BY <2>1, <2>2
<1>15. CASE List!pop_back
  <2>1. CASE n = 0
    <3>1. List!Become(rep, items)
      BY <1>6, <1>8, <1>11, <1>15, <2>1 DEF List!pop_back, List!PopBack
    <3>2. Chain(rep, Straight(n), items, n)
      BY <1>1 DEF Line
    <3>3. QED
      BY <3>1, <3>2, ListBecomes
  <2>2. CASE n # 0
    <3>1. PICK j, l, q : j = n + 1 /\ l = n - 1 /\ q = SubSeq(items, 1, Len(items) - 1)
      OBVIOUS
    <3>2. n \in 1 .. n + 1 /\ j \in n .. n + 1 /\ j \in 1 .. n + 1 /\ n = j - 1 /\ l = n - (j - n)
      BY <1>2, <2>2, <3>1
    <3>3. LessThose(q, Things, l, items, l, n)
      BY <1>2, <2>2, <3>1, LessLast
    <3>4. PICK b : b = Place(n, n)
      OBVIOUS
    <3>5. b = n /\ a = Place(n, j)
      BY <1>2, <1>6, <3>1, <3>4 DEF Place
    <3>6. List!Before(rep, a) = j - 1
      BY <1>1, <3>2, <3>5, BeforeIs
    <3>7. List!Before(rep, List!Stop) = b
      BY <1>6, <3>2, <3>5, <3>6
    <3>8. List!Become(List!EraseRange(rep, b, a), q)
      BY <1>6, <1>8, <1>11, <1>15, <2>2, <3>1, <3>7 DEF List!pop_back, List!PopBack
    <3>9. QED
      BY <1>1, <1>2, <3>1, <3>2, <3>3, <3>4, <3>5, <3>8, EraseKeeps
  <2>3. QED
    BY <2>1, <2>2
<1>16. ASSUME NEW i \in List!Position, NEW w \in 0 .. 2, NEW vals \in [1 .. w -> Values], List!insert(i, vals)
       PROVE  ListInv'
  <2>1. PICK c \in Nat : c = Len(vals) /\ vals \in Tuples(Things, c)
    BY ListsBounded
  <2>2. PICK it : it = i - 1
    OBVIOUS
  <2>3. PICK j, q, b : /\ j = n + c /\ b = Place(n, i)
                       /\ q = SubSeq(items, 1, i - 1) \o vals \o SubSeq(items, i, Len(items))
    OBVIOUS
  <2>4. i \in 1 .. n + 1
    BY <1>1, <1>16 DEF List!Position
  <2>5. it \in 0 .. n /\ i = it + 1
    BY <1>2, <2>4, <2>2
  <2>6. q = SubSeq(items, 1, it) \o vals \o SubSeq(items, it + 1, Len(items))
    BY <2>3, <2>5, <2>2
  <2>7. With(q, Things, j, items, it, vals, c)
    BY <1>2, <2>1, <2>3, <2>5, <2>6, InsertedIs
  <2>8. List!Become(List!InsertBefore(rep, b, vals), q) /\ n + c <= MaxNodes
    BY <1>4, <1>9, <1>16, <2>1, <2>3, <2>4 DEF List!insert
  <2>9. b = Place(n, it + 1)
    BY <2>3, <2>5
  <2>10. QED
    BY <1>1, <1>2, <2>1, <2>3, <2>5, <2>7, <2>8, <2>9, InsertKeeps
<1>17. ASSUME NEW i \in List!Position, NEW j \in i .. Len(items) + 1, List!erase(i, j) PROVE ListInv'
  <2>1. i \in 1 .. n + 1 /\ j \in i .. n + 1 /\ j \in 1 .. n + 1
    BY <1>1, <1>2 DEF List!Position
  <2>2. PICK o, y, l : o = i - 1 /\ y = j - 1 /\ l = n - (j - i)
    OBVIOUS
  <2>3. PICK q, b, d : /\ b = Place(n, i) /\ d = Place(n, j)
                       /\ q = SubSeq(items, 1, i - 1) \o SubSeq(items, j, Len(items))
    OBVIOUS
  <2>4. o \in 0 .. n /\ y \in o .. n /\ l = n - (y - o) /\ j = y + 1
    BY <1>2, <2>1, <2>2
  <2>5. q = SubSeq(items, 1, o) \o SubSeq(items, y + 1, Len(items))
    BY <2>4, <2>2, <2>3
  <2>6. LessThose(q, Things, l, items, o, y)
    BY <1>2, <2>4, <2>5, ErasedIs
  <2>7. List!Become(List!EraseRange(rep, b, d), q)
    BY <1>9, <1>17, <2>1, <2>3 DEF List!erase, List!Without
  <2>8. QED
    BY <1>1, <1>2, <2>1, <2>6, <2>7, <2>2, <2>3, EraseKeeps
<1>18. ASSUME NEW w \in 0 .. MaxNodes, List!resize(w) PROVE ListInv'
  BY <1>1, <1>2, <1>18, ListResizes
<1>19. QED
  BY <1>12, <1>13, <1>14, <1>15, <1>16, <1>17, <1>18 DEF List!Next

(* The list then is the sequence of its elements, with its nodes linked both *)
(* ways.                                                                     *)
LEMMA ListIsSequence == ListInv => List!IsSequence
<1> SUFFICES ASSUME ListInv PROVE List!IsSequence
  OBVIOUS
<1>1. PICK n : n = Len(items) /\ Line(rep, items, n)
  BY DEF ListInv
<1>2. /\ n \in Nat /\ items \in Tuples(Things, n)
      /\ \A k \in 0 .. n : rep.next[k] = Place(n, k + 1)
      /\ rep.double => \A k \in 1 .. n + 1 : rep.prev[Place(n, k)] = k - 1
      /\ \A k \in 1 .. n : rep.val[k] = items[k] /\ rep.val[k] # 0
  BY <1>1, LineIs
<1>3. PICK s : s = List!Nodes(rep)
  OBVIOUS
<1>4. Len(s) = n /\ s = [k \in 1 .. n |-> k]
  BY <1>1, <1>3, NodesAre
<1>5. [i \in DOMAIN s |-> rep.val[s[i]]] = items
  <2>1. DOMAIN s = 1 .. n /\ \A i \in 1 .. n : s[i] = i
    BY <1>4
  <2>2. [i \in DOMAIN s |-> rep.val[s[i]]] = [i \in 1 .. n |-> items[i]]
    BY <1>2, <2>1
  <2>3. QED
    BY <1>2, <2>2, TupleIs
<1>6. ASSUME rep.double, NEW a \in List!Range(s) \cup {List!Stop} PROVE rep.next[rep.prev[a]] = a
  <2>1. PICK k \in 1 .. n + 1 : a = Place(n, k)
    <3>1. CASE a \in List!Range(s)
      <4>1. PICK i \in 1 .. n : a = s[i]
        BY <1>4, <3>1 DEF List!Range
      <4>2. a = Place(n, i) /\ i \in 1 .. n + 1
        BY <1>2, <1>4, <4>1 DEF Place
      <4>3. QED
        BY <4>2
    <3>2. CASE a = List!Stop
      <4>1. a = Place(n, n + 1) /\ n + 1 \in 1 .. n + 1
        BY <1>2, <3>2 DEF Place, List!Stop
      <4>2. QED
        BY <4>1
    <3>3. QED
      BY <3>1, <3>2
  <2>2. PICK h : h = k - 1
    OBVIOUS
  <2>3. h \in 0 .. n /\ h + 1 = k
    BY <1>2, <2>2
  <2>4. rep.prev[a] = h
    BY <1>2, <1>6, <2>1, <2>2
  <2>5. QED
    BY <1>2, <2>1, <2>3, <2>4
<1>7. QED
  BY <1>3, <1>5, <1>6 DEF List!IsSequence

-----------------------------------------------------------------------------
(* All of them                                                               *)

(* The inductive invariant of each. *)
SequencesInv ==
  /\ kind = "vector" => ArrayInv
  /\ kind = "string" => TextInv
  /\ kind = "list" => ListInv

(* All of them keep theirs. *)
LEMMA SequencesKeepInv == LinearSpec => []SequencesInv
<1>1. LinearInit => SequencesInv
  BY ArrayStarts, TextStarts, ListStarts DEF LinearInit, SequencesInv
<1>2. SequencesInv /\ [LinearNext]_vars => SequencesInv'
  <2> SUFFICES ASSUME SequencesInv, [LinearNext]_vars PROVE SequencesInv'
    OBVIOUS
  <2>1. CASE LinearNext
    BY <2>1, ArrayKeeps, TextKeeps, ListKeeps DEF LinearNext, SequencesInv
  <2>2. CASE UNCHANGED vars
    <3>1. kind' = kind /\ rep' = rep /\ items' = items
      BY <2>2 DEF vars
    <3>2. ArrayInv' = ArrayInv
      BY <3>1 DEF ArrayInv
    <3>3. TextInv' = TextInv
      BY <3>1 DEF TextInv
    <3>4. ListInv' = ListInv
      BY <3>1 DEF ListInv
    <3>5. QED
      BY <3>1, <3>2, <3>3, <3>4, <2>2 DEF SequencesInv
  <2>3. QED
    BY <2>1, <2>2
<1>3. QED
  BY <1>1, <1>2, PTL DEF LinearSpec

(* A vector, a string or a list holds the elements it was given in their     *)
(* order, after any operations, and every node of a doubly linked list is    *)
(* the next one of the one before: for any elements, any limits, and a       *)
(* string's buffer of any size.                                              *)
THEOREM SequencesKeepTheirOrder == LinearSpec => []SequencesAreSequences
<1>1. SequencesInv => SequencesAreSequences
  BY ArrayIsSequence, TextIsString, ListIsSequence DEF SequencesInv, SequencesAreSequences
<1>2. QED
  BY <1>1, SequencesKeepInv, PTL
=============================================================================
