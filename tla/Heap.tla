--------------------------------- MODULE Heap ---------------------------------
(***************************************************************************)
(* heap.hpp over a vector (priority_queue.hpp is an alias of it), with the *)
(* default comparison: the largest value is at the front.  Positions are   *)
(* the source's, counted from 0: value i is rep[i + 1].                    *)
(***************************************************************************)
EXTENDS Integers, Sequences, FiniteSets

CONSTANTS
  Values,   \* the values, integers
  MaxSize   \* bound: the length of the array

VARIABLES rep,    \* arr_
          items   \* ghost: how many times each value has been put in and not taken out

At(a, i) == a[i + 1]
Swap(a, i, j) == [a EXCEPT ![i + 1] = At(a, j), ![j + 1] = At(a, i)]

\* A slip to rule out: the first child, whichever is larger.
FirstChild(a, p, len) == 2 * p + 1

\* The larger child of p within the first len values, len or more if it has none.
LargerChild(a, p, len) ==
  LET c == 2 * p + 1
  IN  IF c + 1 < len /\ At(a, c) < At(a, c + 1) THEN c + 1 ELSE c

\* A loop's state h: the array h.a and the position h.p of the value that moves.
\* adjust, and percolate_down, the same loop over the whole array: a value goes
\* down as long as its larger child is not smaller, an equal one included.
DownEnds(h, len) ==
  LET c == LargerChild(h.a, h.p, len)
  IN  c >= len \/ At(h.a, c) < At(h.a, h.p)

DownOnce(h, len) ==
  LET c == LargerChild(h.a, h.p, len)
  IN  IF DownEnds(h, len) THEN h ELSE [a |-> Swap(h.a, c, h.p), p |-> c]

\* Its turns, of which len are enough.
DownTurns(a, p, len) ==
  LET turn[k \in 0..len] == IF k = 0 THEN [a |-> a, p |-> p] ELSE DownOnce(turn[k - 1], len)
  IN  turn

adjust(a, p, len) == DownTurns(a, p, len)[len].a
percolate_down(a, p) == adjust(a, p, Len(a))

\* A value goes up as long as it is not smaller than its parent.
Parent(i) == (i - 1) \div 2
UpEnds(h) == h.p = 0 \/ At(h.a, h.p) < At(h.a, Parent(h.p))

UpOnce(h) ==
  IF UpEnds(h) THEN h ELSE [a |-> Swap(h.a, h.p, Parent(h.p)), p |-> Parent(h.p)]

UpTurns(a, c) ==
  LET turn[k \in 0..c] == IF k = 0 THEN [a |-> a, p |-> c] ELSE UpOnce(turn[k - 1])
  IN  turn

percolate_up(a, c) == UpTurns(a, c)[c].a

\* Every parent from the last one to the first.
HeapTurns(a) ==
  LET turn[k \in 0..(Len(a) \div 2)] ==
        IF k = 0 THEN a ELSE adjust(turn[k - 1], Len(a) \div 2 - k, Len(a))
  IN  turn

make_heap(a) == HeapTurns(a)[Len(a) \div 2]

\* The largest of the first values goes behind them, and so on: ascending order.
SortTurns(a) ==
  LET turn[k \in 0..(Len(a) - 1)] ==
        IF k = 0 THEN a ELSE adjust(Swap(turn[k - 1], 0, Len(a) - k), 0, Len(a) - k)
  IN  turn

sort(a) == IF a = <<>> THEN a ELSE SortTurns(a)[Len(a) - 1]

\* How many times each value is in the array.
Bag(a) == [v \in Values |-> Cardinality({i \in DOMAIN a : a[i] = v})]

-----------------------------------------------------------------------------
\* heap() and heap(vals).
Init ==
  \E n \in 0..MaxSize : \E vals \in [1..n -> Values] :
    /\ rep = make_heap(vals)
    /\ items = Bag(vals)

push(v) ==
  /\ Len(rep) < MaxSize
  /\ rep' = percolate_up(Append(rep, v), Len(rep))
  /\ items' = [items EXCEPT ![v] = @ + 1]

\* pop of a heap that is not empty, as its callers see to.
pop ==
  /\ rep # <<>>
  /\ rep' = percolate_down(SubSeq(Swap(rep, 0, Len(rep) - 1), 1, Len(rep) - 1), 0)
  /\ items' = [items EXCEPT ![Head(rep)] = @ - 1]

push_range(vals) ==
  /\ Len(rep) + Len(vals) <= MaxSize
  /\ rep' = make_heap(rep \o vals)
  /\ items' = [v \in Values |-> items[v] + Bag(vals)[v]]

Next ==
  \/ \E v \in Values : push(v)
  \/ pop
  \/ \E n \in 0..2 : \E vals \in [1..n -> Values] : push_range(vals)

-----------------------------------------------------------------------------
\* No value is larger than its parent, so top() is the largest of those put in;
\* and sort would leave them in ascending order.
LargestFirst ==
  /\ Bag(rep) = items
  /\ \A i \in 1..(Len(rep) - 1) : At(rep, i) <= At(rep, Parent(i))
  /\ rep # <<>> => items[Head(rep)] > 0 /\ \A v \in Values : items[v] > 0 => v <= Head(rep)
  /\ LET s == sort(rep)
     IN  Bag(s) = items /\ \A i \in 1..(Len(s) - 1) : s[i] <= s[i + 1]
=============================================================================
