-------------------------------- MODULE Vector --------------------------------
(***************************************************************************)
(* vector.hpp with elements that are plain data, for which construction is *)
(* assignment and destruction nothing.  rep.cells is the block from begin_ *)
(* to last_, rep.size is end_ - begin_; positions count from 0.  What an   *)
(* insertion is given lies outside the vector.                             *)
(***************************************************************************)
EXTENDS Integers, Sequences

CONSTANTS
  Values,       \* the elements
  Default,      \* value_type()
  Junk,         \* what memory holds before it is written
  MaxCapacity,  \* bound: the cells of the block
  MaxInsert     \* bound: the elements one call inserts

VARIABLES rep,    \* the block and the elements' number
          items   \* ghost: the sequence the vector should be

Capacity(t) == Len(t.cells)
At(c, i) == IF i \in 0..(Len(c) - 1) THEN c[i + 1] ELSE Junk
Put(c, i, v) == [c EXCEPT ![i + 1] = v]

\* i, i+1, ... up to j - 1, and back from there.
From(i, j) == [k \in 1..(j - i) |-> i + k - 1]
Back(i, j) == [k \in 1..(j - i) |-> j - k]

\* vector_iterator::operator-(int) changes a copy and returns the original.
Minus(i, n) == i

\* A loop that assigns one cell after the other: cell to[k] what cell from[k]
\* holds by then.
Assigned(c, to, from) ==
  LET turn[k \in 0..Len(to)] ==
        IF k = 0 THEN c ELSE LET d == turn[k - 1] IN Put(d, to[k], At(d, from[k]))
  IN  turn[Len(to)]

copy(c, first, last, res) ==
  Assigned(c, From(res, res + (last - first)), From(first, last))
reverse_copy(c, first, last, res) ==
  Assigned(c, Back(res, res + (last - first)), Back(first, last))

\* The loops whose values do not come from the cells.
fill(c, first, last, v) == [i \in DOMAIN c |-> IF i - 1 \in first..(last - 1) THEN v ELSE c[i]]
CopyIn(c, vals, res) ==
  [i \in DOMAIN c |-> IF i - res \in DOMAIN vals THEN vals[i - res] ELSE c[i]]

\* The elements in a new block of n cells.
Moved(t, n) ==
  [t EXCEPT !.cells = SubSeq(@, 1, t.size) \o [i \in 1..(n - t.size) |-> Junk]]

request_mem(t) == Moved(t, IF Capacity(t) = 0 THEN 1 ELSE 2 * Capacity(t))

\* Every insertion asks for more memory and starts again until n more fit: of
\* these turns t.size + n are enough.
Fits(t, n) == t.size + n <= Capacity(t)
WithRoom(t, n) ==
  LET turn[k \in 0..(t.size + n)] ==
        IF k = 0 THEN t
        ELSE LET u == turn[k - 1] IN IF Fits(u, n) THEN u ELSE request_mem(u)
  IN  turn[t.size + n]

-----------------------------------------------------------------------------
emplace_back(t, v) ==
  LET u == WithRoom(t, 1)
  IN  [cells |-> Put(u.cells, u.size, v), size |-> u.size + 1]

\* The element at the end is copied behind it, then all are moved by one.
InsertOne(t, it, v) ==
  LET u == WithRoom(t, 1)
      longer == Put(u.cells, u.size, At(u.cells, u.size - 1))
  IN  [cells |-> Put(reverse_copy(longer, it, Minus(u.size, 1), it + 1), it, v),
       size |-> u.size + 1]

\* A slip to rule out: the gap is always opened forward, over elements that
\* have not been moved.
OpenedForwards(u, it, n) == copy(u.cells, it, u.size, it + n)

\* The elements from it on move by n; they overlap the place they move to
\* when there are more than n of them.
Opened(u, it, n) ==
  IF it + n > u.size THEN copy(u.cells, it, u.size, it + n)
  ELSE reverse_copy(copy(u.cells, Minus(u.size, n), u.size, u.size),
                    it, Minus(u.size, n), it + n)

InsertCopies(t, it, v, n) ==
  IF n = 0 THEN t ELSE
  LET u == WithRoom(t, n)
      ahead == [u EXCEPT !.cells = IF it + n > u.size THEN fill(@, u.size, it + n, v) ELSE @]
  IN  [cells |-> fill(Opened(ahead, it, n), it, it + n, v), size |-> u.size + n]

InsertRange(t, it, vals) ==
  LET u == WithRoom(t, Len(vals))
  IN  [cells |-> CopyIn(Opened(u, it, Len(vals)), vals, it), size |-> u.size + Len(vals)]

EraseRange(t, first, last) ==
  [cells |-> copy(t.cells, last, t.size, first), size |-> t.size - (last - first)]

Resized(t, n, v) ==
  LET u == IF n <= Capacity(t) THEN t ELSE Moved(t, n)
  IN  [cells |-> IF n <= t.size THEN u.cells ELSE fill(u.cells, u.size, n, v), size |-> n]

-----------------------------------------------------------------------------
Init ==
  /\ rep = [cells |-> <<>>, size |-> 0]
  /\ items = <<>>

Become(t, s) ==
  /\ Capacity(t) <= MaxCapacity
  /\ rep' = t
  /\ items' = s

Inserted(it, vals) == SubSeq(items, 1, it) \o vals \o SubSeq(items, it + 1, Len(items))
Position == 0..rep.size

\* What one call is given.
Given == UNION {[1..n -> Values] : n \in 0..MaxInsert}

push_back(v) == Become(emplace_back(rep, v), Append(items, v))
pop_back ==
  IF rep.size = 0 THEN UNCHANGED <<rep, items>>
  ELSE Become([rep EXCEPT !.size = @ - 1], SubSeq(items, 1, Len(items) - 1))
insert(it, v) == Become(InsertOne(rep, it, v), Inserted(it, <<v>>))
insert_n(it, v, n) == Become(InsertCopies(rep, it, v, n), Inserted(it, [i \in 1..n |-> v]))
insert_range(it, vals) == Become(InsertRange(rep, it, vals), Inserted(it, vals))

\* erase(it), and erase(first, last).
erase(first, last) ==
  Become(EraseRange(rep, first, last),
         SubSeq(items, 1, first) \o SubSeq(items, last + 1, Len(items)))

resize(n, v) ==
  Become(Resized(rep, n, v), [i \in 1..n |-> IF i <= Len(items) THEN items[i] ELSE v])
reserve(n) == Become(IF n <= Capacity(rep) THEN rep ELSE Moved(rep, n), items)
clear == Become([rep EXCEPT !.size = 0], <<>>)

\* The allocator may refuse to make a block smaller, and then nothing changes.
shrink(n) ==
  /\ n \in rep.size..(Capacity(rep) - 1)
  /\ \/ Become([rep EXCEPT !.cells = SubSeq(@, 1, n)], items)
     \/ UNCHANGED <<rep, items>>

\* operator=: a block as large, with the elements.
assign_copy == Become(Moved(rep, Capacity(rep)), items)

Next ==
  \/ \E v \in Values : push_back(v)
  \/ pop_back
  \/ \E it \in Position, v \in Values : insert(it, v)
  \/ \E it \in Position, v \in Values, n \in 0..MaxInsert : insert_n(it, v, n)
  \/ \E it \in Position, vals \in Given : insert_range(it, vals)
  \/ \E first \in Position : \E last \in first..rep.size : erase(first, last)
  \/ \E n \in 0..MaxCapacity : resize(n, Default)
  \/ \E n \in 0..MaxCapacity : reserve(n)
  \/ \E n \in 0..MaxCapacity : shrink(n)
  \/ clear
  \/ assign_copy

-----------------------------------------------------------------------------
\* The vector is the sequence it should be.
IsSequence == SubSeq(rep.cells, 1, rep.size) = items
=============================================================================
