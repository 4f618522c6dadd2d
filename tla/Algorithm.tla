------------------------------ MODULE Algorithm ------------------------------
(***************************************************************************)
(* algorithm.hpp: the loops of the library's algorithms, over a range that *)
(* is a whole sequence.  An iterator is a position counted from 0, last is *)
(* the length.  Most algorithms are there twice, with < or == and with an  *)
(* order or a predicate of the caller's: less stands for the order of both *)
(* copies (of merge, set_union, includes and lexicographical_compare only  *)
(* the copy with < compiles).  A predicate P is the set of what it holds   *)
(* for.  An algorithm that draws random numbers is modelled by the set of  *)
(* its results.                                                            *)
(***************************************************************************)
EXTENDS Integers, Sequences, FiniteSets, SequencesExt, FiniteSetsExt

CONSTANTS
  Values,       \* the elements, integers
  MaxLen,       \* bound: the length of the range
  MaxOther,     \* bound: the length of the second range
  less(_, _)    \* the order

VARIABLES rep,    \* the range, and a second one
          items   \* ghost: what the algorithms should have made of the range

At(s, i) == s[i + 1]
Put(s, i, v) == [s EXCEPT ![i + 1] = v]
Swap(s, i, j) == [s EXCEPT ![i + 1] = At(s, j), ![j + 1] = At(s, i)]
First(S, last) == IF S = {} THEN last ELSE Min(S)
Upwards(i, j) == [k \in 1..(IF j < i THEN 0 ELSE j - i + 1) |-> i + k - 1]

-----------------------------------------------------------------------------
(* Sorting. *)

\* A slip to rule out: the pivot is put down before the scans have met.
SplitShort(s, l, r, pivot) == <<Put(s, l, pivot), l>>

\* The loop of partition over the positions l to r, of which one is a hole.
RECURSIVE Split(_, _, _, _)
Split(s, l, r, pivot) ==
  IF l = r THEN <<Put(s, l, pivot), l>>
  ELSE LET right == Max({l} \cup {i \in (l + 1)..r : less(At(s, i), pivot)})
           s1 == Put(s, l, At(s, right))
           left == Min({right} \cup {i \in l..(right - 1) : less(pivot, At(s1, i))})
       IN  Split(Put(s1, right, At(s1, left)), left, right, pivot)

\* partition of first..last, around its first element: <<range, place>>.
partition(s, first, last) == Split(s, first, last - 1, At(s, first))

\* sort: a random element first, partition, and both sides.
RECURSIVE SortRange(_, _, _)
SortRange(s, first, last) ==
  IF last - first <= 1 THEN {s}
  ELSE UNION {LET p == partition(Swap(s, first, k), first, last)
              IN  UNION {SortRange(u, p[2] + 1, last) : u \in SortRange(p[1], first, p[2])}
              : k \in first..(last - 1)}
sort(s) == SortRange(s, 0, Len(s))

\* random_shuffle, shuffle: from the end, an exchange with any position up to it.
Shuffles(s) ==
  FoldLeft(LAMBDA T, i : {Swap(t, i, j) : t \in T, j \in 0..i}, {s}, Reverse(Upwards(1, Len(s) - 1)))

(* Bisection. *)

RECURSIVE LowerFrom(_, _, _, _)
LowerFrom(s, first, cnt, v) ==
  LET step == cnt \div 2
  IN  IF cnt = 0 THEN first
      ELSE IF less(At(s, first + step), v)
      THEN LowerFrom(s, first + step + 1, cnt - (step + 1), v)
      ELSE LowerFrom(s, first, step, v)
lower_bound(s, v) == LowerFrom(s, 0, Len(s), v)

RECURSIVE UpperFrom(_, _, _, _)
UpperFrom(s, first, cnt, v) ==
  LET step == cnt \div 2
  IN  IF cnt = 0 THEN first
      ELSE IF ~less(v, At(s, first + step))
      THEN UpperFrom(s, first + step + 1, cnt - (step + 1), v)
      ELSE UpperFrom(s, first, step, v)
upper_bound(s, v) == UpperFrom(s, 0, Len(s), v)

equal_range(s, v) == <<lower_bound(s, v), upper_bound(s, v)>>
binary_search(s, v) == lower_bound(s, v) # Len(s) /\ ~less(v, At(s, lower_bound(s, v)))

-----------------------------------------------------------------------------
(* Searching. *)

\* find, find_if, find_if_not.
find_if(s, P) == First({i \in 0..(Len(s) - 1) : At(s, i) \in P}, Len(s))
count_if(s, P) == FoldLeft(LAMBDA n, x : IF x \in P THEN n + 1 ELSE n, 0, s)

max_element(s) ==
  FoldLeft(LAMBDA m, i : IF less(At(s, m), At(s, i)) THEN i ELSE m, 0, Upwards(1, Len(s) - 1))
min_element(s) ==
  FoldLeft(LAMBDA m, i : IF less(At(s, i), At(s, m)) THEN i ELSE m, 0, Upwards(1, Len(s) - 1))

\* search: t in s from first on.  A match that runs into the end ends the search.
RECURSIVE search(_, _, _)
search(s, t, first) ==
  IF \E k \in 0..(Len(t) - 1) : first + k < Len(s) /\ At(s, first + k) # At(t, k)
  THEN search(s, t, first + 1)
  ELSE IF first + Len(t) <= Len(s) THEN first ELSE Len(s)

\* find_end: search again behind the match until there is none.
RECURSIVE FindEndFrom(_, _, _, _)
FindEndFrom(s, t, first, res) ==
  LET next == search(s, t, first)
  IN  IF next = Len(s) THEN res ELSE FindEndFrom(s, t, next + 1, next)
find_end(s, t) == IF t = <<>> THEN Len(s) ELSE FindEndFrom(s, t, 0, Len(s))

adjacent_find(s, P) ==
  First({i \in 0..(Len(s) - 2) : <<At(s, i), At(s, i + 1)>> \in P}, Len(s))

\* search_n: the candidate, the length of its run, and on behind the element
\* that ended it.  The copy with a predicate has >+ for >=, that is >: "more".
RECURSIVE SearchRun(_, _, _, _, _)
SearchRun(s, n, v, more, first) ==
  LET f == First({i \in first..(Len(s) - 1) : At(s, i) = v}, Len(s))
      end == First({i \in f..(Len(s) - 1) : At(s, i) # v}, Len(s))
  IN  IF f = Len(s) THEN Len(s)
      ELSE IF end - f >= (IF more THEN n + 1 ELSE n) THEN f
      ELSE IF end = Len(s) THEN Len(s)
      ELSE SearchRun(s, n, v, more, end + 1)
search_n(s, n, v, more) == IF n <= 0 THEN 0 ELSE SearchRun(s, n, v, more, 0)

mismatch(s, t) ==
  First({i \in 0..(Len(s) - 1) : i >= Len(t) \/ At(s, i) # At(t, i)}, Len(s))
equal(s, t) == \A i \in 0..(Len(s) - 1) : At(s, i) = At(t, i)

RECURSIVE lexicographical_compare(_, _)
lexicographical_compare(s, t) ==
  IF s = <<>> \/ t = <<>> THEN s = <<>> /\ t # <<>>
  ELSE \/ less(Head(s), Head(t))
       \/ ~less(Head(t), Head(s)) /\ lexicographical_compare(Tail(s), Tail(t))

RECURSIVE includes(_, _)
includes(s, t) ==
  IF t = <<>> THEN TRUE
  ELSE IF s = <<>> THEN FALSE
  ELSE /\ ~less(Head(t), Head(s))
       /\ includes(Tail(s), IF less(Head(s), Head(t)) THEN t ELSE Tail(t))

-----------------------------------------------------------------------------
(* Changing a range: the range that is left, or <<range, new end>>.         *)

RECURSIVE SwapInward(_, _, _)
SwapInward(s, first, last) ==
  IF first >= last THEN s ELSE SwapInward(Swap(s, first, last), first + 1, last - 1)
reverse(s) == SwapInward(s, 0, Len(s) - 1)
reverse_copy(s) == FoldRight(LAMBDA x, out : Append(out, x), s, <<>>)

\* One pass of exchanges to the end; what is left behind write is rotated again.
RECURSIVE rotate(_, _, _)
RECURSIVE RotatePass(_, _, _, _)
rotate(s, first, middle) ==
  IF middle \in {first, Len(s)} THEN s ELSE RotatePass(s, first, first, middle)
RotatePass(s, write, next_read, read) ==
  IF read = Len(s) THEN rotate(s, write, next_read)
  ELSE RotatePass(Swap(s, write, read), write + 1,
                  IF write = next_read THEN read ELSE next_read, read + 1)
rotate_copy(s, middle) == SubSeq(s, middle + 1, Len(s)) \o SubSeq(s, 1, middle)

\* copy, of first..last within one range, from the front.
copy(s, first, last, res) ==
  FoldLeft(LAMBDA u, i : Put(u, res + i - first, At(u, i)), s, Upwards(first, last - 1))
\* copy_backward, of first..last to the positions from res on, from the back.
copy_backward(s, first, last, res) ==
  FoldLeft(LAMBDA u, i : Put(u, res + i - first, At(u, i)), s, Reverse(Upwards(first, last - 1)))

remove_if(s, P) ==
  LET f == find_if(s, P)
      keep(u, i) == IF At(u[1], i) \in P THEN u ELSE <<Put(u[1], u[2], At(u[1], i)), u[2] + 1>>
  IN  FoldLeft(keep, <<s, f>>, Upwards(f + 1, Len(s) - 1))
remove_copy_if(s, P) == FoldLeft(LAMBDA out, x : IF x \in P THEN out ELSE Append(out, x), <<>>, s)

replace_if(s, P, v) == [i \in DOMAIN s |-> IF s[i] \in P THEN v ELSE s[i]]

unique(s) ==
  LET keep(u, i) == IF At(u[1], u[2]) = At(u[1], i) THEN u
                    ELSE <<Put(u[1], u[2] + 1, At(u[1], i)), u[2] + 1>>
      u == FoldLeft(keep, <<s, 0>>, Upwards(1, Len(s) - 1))
  IN  IF s = <<>> THEN <<s, 0>> ELSE <<u[1], u[2] + 1>>
\* unique_copy, of a range that is not empty: it reads its first element at once.
unique_copy(s) ==
  FoldLeft(LAMBDA out, x : IF Last(out) = x THEN out ELSE Append(out, x), <<Head(s)>>, Tail(s))

swap_ranges(s, t) == <<t \o SubSeq(s, Len(t) + 1, Len(s)), SubSeq(s, 1, Len(t))>>

(* Sums. *)

accumulate(s, init) == FoldLeft(LAMBDA sum, x : sum + x, init, s)
partial_sum(s) ==
  FoldLeft(LAMBDA out, x : Append(out, IF out = <<>> THEN x ELSE Last(out) + x), <<>>, s)
adjacent_difference(s) ==
  FoldLeft(LAMBDA out, i : Append(out, IF i = 0 THEN At(s, 0) ELSE At(s, i) - At(s, i - 1)),
           <<>>, Upwards(0, Len(s) - 1))
inner_product(s, t, init) ==
  FoldLeft(LAMBDA sum, i : sum + At(s, i) * At(t, i), init, Upwards(0, Len(s) - 1))

(* Two sorted ranges. *)

RECURSIVE merge(_, _)
merge(s, t) ==
  IF s = <<>> \/ t = <<>> THEN s \o t
  ELSE IF less(Head(t), Head(s)) THEN <<Head(t)>> \o merge(s, Tail(t))
  ELSE <<Head(s)>> \o merge(Tail(s), t)

RECURSIVE set_union(_, _)
set_union(s, t) ==
  IF s = <<>> \/ t = <<>> THEN s \o t
  ELSE IF less(Head(t), Head(s)) THEN <<Head(t)>> \o set_union(s, Tail(t))
  ELSE <<Head(s)>> \o set_union(Tail(s), IF less(Head(s), Head(t)) THEN t ELSE Tail(t))

RECURSIVE set_intersection(_, _)
set_intersection(s, t) ==
  IF s = <<>> \/ t = <<>> THEN <<>>
  ELSE IF less(Head(s), Head(t)) THEN set_intersection(Tail(s), t)
  ELSE IF less(Head(t), Head(s)) THEN set_intersection(s, Tail(t))
  ELSE <<Head(s)>> \o set_intersection(Tail(s), Tail(t))

RECURSIVE set_difference(_, _)
set_difference(s, t) ==
  IF s = <<>> \/ t = <<>> THEN s
  ELSE IF less(Head(s), Head(t)) THEN <<Head(s)>> \o set_difference(Tail(s), t)
  ELSE set_difference(IF less(Head(t), Head(s)) THEN s ELSE Tail(s), Tail(t))

RECURSIVE set_symmetric_difference(_, _)
set_symmetric_difference(s, t) ==
  IF s = <<>> \/ t = <<>> THEN s \o t
  ELSE IF less(Head(s), Head(t)) THEN <<Head(s)>> \o set_symmetric_difference(Tail(s), t)
  ELSE IF less(Head(t), Head(s)) THEN <<Head(t)>> \o set_symmetric_difference(s, Tail(t))
  ELSE set_symmetric_difference(Tail(s), Tail(t))

-----------------------------------------------------------------------------
(* A range under the algorithms that work in place, beside what they should *)
(* leave by their definitions.                                              *)

Bag(s) == [v \in Values |-> Cardinality({i \in DOMAIN s : s[i] = v})]
Ordered(s) == \A i \in 1..(Len(s) - 1) : ~less(s[i + 1], s[i])
Sorted(s) == SortSeq(s, less)
WithoutRepeats(s) ==
  LET kept == {i \in DOMAIN s : i = 1 \/ s[i] # s[i - 1]}
  IN  [k \in 1..Cardinality(kept) |->
         s[CHOOSE i \in kept : Cardinality({j \in kept : j <= i}) = k]]

Init ==
  /\ rep \in [range : BoundedSeq(Values, MaxLen), other : BoundedSeq(Values, MaxOther)]
  /\ items = rep.range

Become(s, expected) ==
  /\ rep' = [rep EXCEPT !.range = s]
  /\ items' = expected

Next ==
  \/ \E s \in sort(rep.range) : Become(s, Sorted(items))
  \/ Become(reverse(rep.range), Reverse(items))
  \/ \E m \in 0..Len(rep.range) :
       Become(rotate(rep.range, 0, m), SubSeq(items, m + 1, Len(items)) \o SubSeq(items, 1, m))
  \/ \E v \in Values :
       LET r == remove_if(rep.range, {v})
       IN  Become(SubSeq(r[1], 1, r[2]), SelectSeq(items, LAMBDA x : x # v))
  \/ LET u == unique(rep.range) IN Become(SubSeq(u[1], 1, u[2]), WithoutRepeats(items))
  \/ \E v, w \in Values :
       Become(replace_if(rep.range, {v}, w),
              [i \in DOMAIN items |-> IF items[i] = v THEN w ELSE items[i]])

-----------------------------------------------------------------------------
\* The results are what the algorithms' definitions ask for, for every range,
\* for every sorted one where they ask for that, and for every random choice.
RangesAreRight ==
  LET s == rep.range
      all == 0..(Len(s) - 1)
      moved(first, last, res) ==
        [i \in DOMAIN s |-> IF i - 1 \in res..(res + last - first - 1)
                            THEN s[i - res + first] ELSE s[i]]
  IN  /\ s = items
      /\ \A t \in sort(s) : Ordered(t) /\ Bag(t) = Bag(s)
      /\ s # <<>> => LET p == partition(s, 0, Len(s))
                     IN  /\ Bag(p[1]) = Bag(s)
                         /\ \A i \in all : ~less(At(p[1], p[2]), At(p[1], i)) \/ i > p[2]
                         /\ \A i \in all : ~less(At(p[1], i), At(p[1], p[2])) \/ i < p[2]
      /\ Shuffles(s) = {t \in [DOMAIN s -> Values] : Bag(t) = Bag(s)}
      /\ reverse_copy(s) = Reverse(s)
      /\ \A m \in 0..Len(s) : rotate_copy(s, m) = rotate(s, 0, m)
      /\ \A first \in 0..Len(s) : \A last \in first..Len(s) :
           /\ \A res \in 0..first : copy(s, first, last, res) = moved(first, last, res)
           /\ \A res \in first..(Len(s) - (last - first)) :
                copy_backward(s, first, last, res) = moved(first, last, res)
      /\ s # <<>> => /\ unique_copy(s) = WithoutRepeats(s)
                     /\ \A i \in all : ~less(At(s, max_element(s)), At(s, i))
                     /\ \A i \in 0..(max_element(s) - 1) : less(At(s, i), At(s, max_element(s)))
                     /\ \A i \in all : ~less(At(s, i), At(s, min_element(s)))
                     /\ accumulate(s, 0) = Last(partial_sum(s))
      /\ adjacent_difference(partial_sum(s)) = s
      /\ adjacent_find(s, {<<v, v>> : v \in Values}) = Len(s) <=> WithoutRepeats(s) = s
      /\ \A v \in Values :
           /\ remove_copy_if(s, {v}) = SelectSeq(s, LAMBDA x : x # v)
           /\ count_if(s, {v}) = Bag(s)[v]
           /\ \A n \in 1..Len(s) :
                LET run(i) == i + n <= Len(s) /\ \A k \in i..(i + n - 1) : At(s, k) = v
                    found == First({i \in all : run(i)}, Len(s))
                IN  /\ search_n(s, n, v, FALSE) = found
                    /\ n > 1 => search_n(s, n - 1, v, TRUE) = found
      /\ Ordered(s) => \A v \in Values :
           /\ equal_range(s, v) = <<Cardinality({i \in all : less(At(s, i), v)}),
                                    Cardinality({i \in all : ~less(v, At(s, i))})>>
           /\ binary_search(s, v) <=> Bag(s)[v] > 0

\* The results of the algorithms on two ranges: searching one for the other,
\* comparing them, and what merging or intersecting sorted ones keeps of each value.
PairsAreRight ==
  LET s == rep.range
      t == rep.other
      occurs == {i \in 0..Len(s) : i + Len(t) <= Len(s) /\ SubSeq(s, i + 1, i + Len(t)) = t}
      counted(out, times(_, _)) ==
        Ordered(out) /\ \A v \in Values : Bag(out)[v] = times(Bag(s)[v], Bag(t)[v])
  IN  /\ search(s, t, 0) = First(occurs, Len(s))
      /\ t # <<>> => find_end(s, t) = IF occurs = {} THEN Len(s) ELSE Max(occurs)
      /\ SubSeq(s, 1, mismatch(s, t)) = LongestCommonPrefix({s, t})
      /\ Len(s) = Len(t) => /\ equal(s, t) <=> mismatch(s, t) = Len(s)
                            /\ inner_product(s, t, 0) = inner_product(t, s, 0)
      /\ lexicographical_compare(s, t) =>
           ~lexicographical_compare(t, s) /\ s # t
      /\ s # t => lexicographical_compare(s, t) \/ lexicographical_compare(t, s)
      /\ Len(t) <= Len(s) =>
           LET u == swap_ranges(s, t) IN swap_ranges(u[1], u[2]) = <<s, t>>
      /\ Ordered(s) /\ Ordered(t) =>
           /\ counted(merge(s, t), LAMBDA m, n : m + n)
           /\ counted(set_union(s, t), LAMBDA m, n : IF m > n THEN m ELSE n)
           /\ counted(set_intersection(s, t), LAMBDA m, n : IF m > n THEN n ELSE m)
           /\ counted(set_difference(s, t), LAMBDA m, n : IF m > n THEN m - n ELSE 0)
           /\ counted(set_symmetric_difference(s, t), LAMBDA m, n : IF m > n THEN m - n ELSE n - m)
           /\ includes(s, t) <=> \A v \in Values : Bag(t)[v] <= Bag(s)[v]

\* One range, or two: the algorithms on it return what they are defined to.
AreRight == IF rep.other = <<>> THEN RangesAreRight ELSE PairsAreRight
=============================================================================
