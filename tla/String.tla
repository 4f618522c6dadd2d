-------------------------------- MODULE String --------------------------------
(***************************************************************************)
(* string.hpp: string, whose elements are always in a block of their own,  *)
(* and tiny_string, which keeps up to rep.buff of them in itself; a string *)
(* has 0 such places.  The cells and the loops over them are those of      *)
(* Vector; rep.freed says that reserve() has used a block after realloc()  *)
(* freed it, and nothing is said of what follows.  What an insertion is    *)
(* given lies outside the string.                                          *)
(***************************************************************************)
EXTENDS Integers, Sequences

CONSTANTS
  Values,       \* the elements
  Junk,         \* what memory holds before it is written
  BuffSizes,    \* the places in a tiny_string itself, 0 for a string
  MaxCapacity,  \* bound: the cells of a block
  MaxInsert     \* bound: the elements one call is given

VARIABLES rep,    \* the cells from begin_ to last_, the size, is_tiny_, freed, buff
          items   \* ghost: what the string should be

Cells == INSTANCE Vector WITH Default <- Junk

capacity(t) == Len(t.cells)
Content(t) == SubSeq(t.cells, 1, t.size)
Padded(s, n) == s \o [i \in 1..(n - Len(s)) |-> Junk]

\* A new string of these elements; the constructors differ in their source only.
Built(buff, s) ==
  LET tiny == buff > 0 /\ Len(s) <= buff
  IN  [cells |-> IF tiny THEN Padded(s, buff) ELSE s, size |-> Len(s),
       tiny |-> tiny, freed |-> FALSE, buff |-> buff]

\* The part of str that a copy from start_idx on, of at most len, takes.
Substring(s, start_idx, len) ==
  IF start_idx > Len(s) THEN <<>>
  ELSE SubSeq(s, start_idx + 1, IF len < Len(s) - start_idx THEN start_idx + len ELSE Len(s))

\* A block of n cells, on the heap from now on.
Moved(t, n) == [t EXCEPT !.cells = Padded(Content(t), n), !.tiny = FALSE]
req_mem(t) == Moved(t, IF capacity(t) = 0 THEN 1 ELSE 2 * capacity(t))

\* As the vector does, t.size + n times at most.
Fits(t, n) == t.size + n <= capacity(t)
WithRoom(t, n) ==
  LET turn[k \in 0..(t.size + n)] ==
        IF k = 0 THEN t
        ELSE LET u == turn[k - 1] IN IF Fits(u, n) THEN u ELSE req_mem(u)
  IN  turn[t.size + n]

\* mfwu::reverse_copy, the last element first, where the two ranges overlap.
reverse_copy(c, first, last, res) ==
  Cells!Assigned(c, Cells!From(res, res + (last - first)), Cells!Back(first, last))

-----------------------------------------------------------------------------
Appended(t, v) ==
  LET u == WithRoom(t, 1)
  IN  [u EXCEPT !.cells = Cells!Put(@, u.size, v), !.size = @ + 1]

InsertOne(t, it, v) ==
  LET u == WithRoom(t, 1)
      longer == IF u.tiny THEN u.cells ELSE Cells!Put(u.cells, u.size, Cells!At(u.cells, u.size - 1))
  IN  [u EXCEPT !.cells = Cells!Put(reverse_copy(longer, it, u.size, it + 1), it, v),
                !.size = @ + 1]

\* What follows it, moved by n: in a string's own block only as far as it
\* would land on itself.
Opened(u, it, n) ==
  IF u.tiny THEN reverse_copy(u.cells, it, u.size, it + n)
  ELSE IF it + n > u.size THEN Cells!copy(u.cells, it, u.size, it + n)
  ELSE reverse_copy(Cells!copy(u.cells, u.size - n, u.size, u.size), it, u.size - n, it + n)

InsertRange(t, it, vals) ==
  LET u == WithRoom(t, Len(vals))
  IN  [u EXCEPT !.cells = Cells!CopyIn(Opened(u, it, Len(vals)), vals, it),
                !.size = @ + Len(vals)]

Erased(t, first, last) ==
  [t EXCEPT !.cells = Cells!copy(t.cells, last, t.size, first), !.size = @ - (last - first)]

\* operator== of a string looks at the sizes, that of a tiny_string does not.
Equal(t, u) ==
  /\ t.buff = 0 => t.size = u.size
  /\ \A i \in 0..(t.size - 1) : Cells!At(t.cells, i) = Cells!At(u.cells, i)

-----------------------------------------------------------------------------
Init ==
  \E buff \in BuffSizes, s \in Cells!Given : rep = Built(buff, s) /\ items = s

Become(t, s) ==
  /\ ~rep.freed
  /\ capacity(t) <= MaxCapacity
  /\ rep' = t
  /\ items' = s

Position == 0..rep.size

\* Where more than one of the following elements is moved by reverse_copy their
\* order is lost: what is in front of them is still right, and of them the
\* string is what it is.
After(t, it, vals, turned) ==
  SubSeq(items, 1, it) \o vals \o
    (IF turned <= 1 THEN SubSeq(items, it + 1, Len(items))
     ELSE SubSeq(t.cells, it + Len(vals) + 1, t.size))

push_back(v) == Become(Appended(rep, v), Append(items, v))
pop_back ==
  IF rep.size = 0 THEN UNCHANGED <<rep, items>>
  ELSE Become([rep EXCEPT !.size = @ - 1], SubSeq(items, 1, Len(items) - 1))

insert(it, v) ==
  LET t == InsertOne(rep, it, v)
  IN  Become(t, After(t, it, <<v>>, rep.size - it))

\* Also append, at the end.
insert_range(it, vals) ==
  LET t == InsertRange(rep, it, vals)
  IN  Become(t, After(t, it, vals, rep.size - it - (IF t.tiny THEN 0 ELSE Len(vals))))

erase(first, last) ==
  Become(Erased(rep, first, last), SubSeq(items, 1, first) \o SubSeq(items, last + 1, Len(items)))

clear == Become([rep EXCEPT !.size = 0], <<>>)

replace(val, new_val) ==
  LET Other(s) == [i \in 1..Len(s) |-> IF s[i] = val THEN new_val ELSE s[i]]
  IN  Become([rep EXCEPT !.cells = Other(Content(rep)) \o SubSeq(@, rep.size + 1, Len(@))], Other(items))

\* realloc() may refuse, keep the block, or move it, and then the elements are
\* copied from the block it has freed; there is none yet in an empty string.
reserve(n) ==
  /\ n > capacity(rep) \/ (n = capacity(rep) /\ rep.buff > 0)
  /\ \/ UNCHANGED <<rep, items>>
     \/ ~rep.tiny /\ Become(Moved(rep, n), items)
     \/ ~rep.tiny /\ capacity(rep) > 0 /\ Become([rep EXCEPT !.freed = TRUE], items)

\* The string becomes a part of itself, or of a copy: substr() and operator=.
assign_substr(start_idx, len) ==
  LET s == Substring(Content(rep), start_idx, len)
  IN  Become(Built(rep.buff, s), SubSeq(items, start_idx + 1, start_idx + Len(s)))

\* Another string is made from this one, which stays behind empty, unless it is
\* a tiny one, which is copied.
move_away ==
  IF rep.tiny THEN UNCHANGED <<rep, items>> ELSE Become(Built(rep.buff, <<>>), <<>>)

\* What operator=(tiny_string&&) leaves of the string it is given.
assign_away == Become(Built(rep.buff, <<>>), <<>>)

Next ==
  \/ \E v \in Values : push_back(v)
  \/ pop_back
  \/ \E it \in Position, v \in Values : insert(it, v)
  \/ \E it \in Position, vals \in Cells!Given : insert_range(it, vals)
  \/ \E first \in Position : \E last \in first..rep.size : erase(first, last)
  \/ clear
  \/ \E val, new_val \in Values : replace(val, new_val)
  \/ \E n \in 0..MaxCapacity : reserve(n)
  \/ \E start_idx, len \in 0..MaxInsert : assign_substr(start_idx, len)
  \/ move_away
  \/ assign_away

-----------------------------------------------------------------------------
\* The string is the sequence it should be, in itself or in a block, and a
\* string equals those of the same elements.
IsString ==
  ~rep.freed =>
    /\ Content(rep) = items
    /\ rep.buff = 0 => \A s \in Cells!Given : Equal(rep, Built(0, s)) <=> s = items
=============================================================================
