--------------------------------- MODULE Deque ---------------------------------
(***************************************************************************)
(* deque.hpp: blocks of BlkSize cells and a map of pointers to them.  Of a *)
(* block, front is how many of its cells are free before its elements; of  *)
(* the map, front is how many pointers are free before its first block.    *)
(* Behind the last block stands a dummy one without cells.                 *)
(*                                                                         *)
(* A position is <<k, o>>: element o, from 0, of block k, from 1; end() is *)
(* the start of the dummy.                                                 *)
(***************************************************************************)
EXTENDS Integers, Sequences, SequencesExt

CONSTANTS
  BlkSize,      \* BLK_SIZE, at least 2
  MaxCapacity,  \* bound: the pointers of the map
  MaxSize       \* bound: the elements

VARIABLES rep,    \* the map
          items   \* ghost: the sequence the deque should be

\* Several calls do what no caller can want: they fail an assertion, write
\* outside a block, destroy the dummy twice or lose an element.  Nothing is
\* said of a deque from there on.
Spoiled == [front |-> 0, capacity |-> -1, blocks |-> <<>>]
IsSpoiled(m) == m = Spoiled

Count(m) == Len(m.blocks)
IsDummy(m, it) == it[1] > Count(m)
FrontSpace(b) == b.front
BackSpace(b) == BlkSize - b.front - Len(b.vals)

\* new block() and new block(BLK_SIZE, true).
NewBlock == [front |-> 0, vals |-> <<>>]
ReverseBlock == [front |-> BlkSize, vals |-> <<>>]

\* The values in as many blocks as they need, all full but the last.
RECURSIVE Filled(_)
Filled(vals) ==
  IF Len(vals) <= BlkSize THEN <<[NewBlock EXCEPT !.vals = vals]>>
  ELSE <<[NewBlock EXCEPT !.vals = SubSeq(vals, 1, BlkSize)]>>
       \o Filled(SubSeq(vals, BlkSize + 1, Len(vals)))

\* copy_init: a map without free pointers.
copy_init(vals) ==
  LET blocks == IF vals = <<>> THEN <<>> ELSE Filled(vals)
  IN  [front |-> 0, capacity |-> Len(blocks), blocks |-> blocks]

\* The elements from the first block to the last.
Contents(m) == FlattenSeq([k \in DOMAIN m.blocks |-> m.blocks[k].vals])

-----------------------------------------------------------------------------
(* Iterators. *)

SizeAt(m, k) == IF k > Count(m) THEN 0 ELSE Len(m.blocks[k].vals)

\* ++.
Succ(m, it) == IF it[2] + 1 >= SizeAt(m, it[1]) THEN <<it[1] + 1, 0>> ELSE <<it[1], it[2] + 1>>

\* += of an n that does not lead to the end: block after block, res elements on.
RECURSIVE Onward(_, _, _)
Onward(m, k, res) ==
  IF res < 0 THEN <<k, res + SizeAt(m, k)>> ELSE Onward(m, k + 1, res - SizeAt(m, k + 1))
Plus(m, it, n) ==
  IF it[2] + n < SizeAt(m, it[1]) THEN <<it[1], it[2] + n>>
  ELSE Onward(m, it[1], n - (SizeAt(m, it[1]) - it[2]))

\* -= of a positive n.
RECURSIVE Backward(_, _, _)
Backward(m, k, res) ==
  IF res < 0 THEN <<k, SizeAt(m, k) - 1 - (res + SizeAt(m, k))>>
  ELSE Backward(m, k - 1, res - SizeAt(m, k - 1))
Less(m, it, n) ==
  IF n <= it[2] THEN <<it[1], it[2] - n>> ELSE Backward(m, it[1], n - (it[2] + 1))

Begin == <<1, 0>>
End(m) == <<Count(m) + 1, 0>>
At(m, i) == IF i = Len(Contents(m)) THEN End(m) ELSE Plus(m, Begin, i)

\* it - begin().
Distance(m, it) == FoldLeft(LAMBDA n, k : n + SizeAt(m, k), it[2], [k \in 1..(it[1] - 1) |-> k])

-----------------------------------------------------------------------------
(* The map. *)

\* req_mem_front and req_mem_back: the old pointers keep their distance from
\* the last place of the new map but one, or from its first.
ReqMemFront(m) == [m EXCEPT !.capacity = 2 * @ + 1, !.front = @ + m.capacity]
ReqMemBack(m) == [m EXCEPT !.capacity = 2 * @ + 1]

RECURSIVE PushFrontBlock(_)
PushFrontBlock(m) ==
  IF m.front = 0 THEN PushFrontBlock(ReqMemFront(m))
  ELSE [m EXCEPT !.front = @ - 1, !.blocks = <<ReverseBlock>> \o @]

RECURSIVE PushBackBlock(_)
PushBackBlock(m) ==
  IF m.front + Count(m) = m.capacity THEN PushBackBlock(ReqMemBack(m))
  ELSE [m EXCEPT !.blocks = Append(@, NewBlock)]

\* erase_block: the shorter part of the map moves.
FrontMoves(m, k) == k - 1 < Count(m) - (k - 1)
EraseBlock(m, k) ==
  [m EXCEPT !.front = IF FrontMoves(m, k) THEN @ + 1 ELSE @, !.blocks = RemoveAt(@, k)]

\* erase_block(first, last), of the blocks from i to j - 1.
EraseBlocks(m, i, j) ==
  [m EXCEPT !.front = IF i - 1 < Count(m) - (j - 1) THEN @ + (j - i) ELSE @,
            !.blocks = SubSeq(@, 1, i - 1) \o SubSeq(@, j, Len(@))]

\* insert_before_block, and the blocks that then take the new places.
RECURSIVE InsertBlocks(_, _, _)
InsertBlocks(m, k, new) ==
  LET n == Len(new)
      atFront == m.front >= n
      atBack == m.front + Count(m) + n <= m.capacity
      blocks == SubSeq(m.blocks, 1, k - 1) \o new \o SubSeq(m.blocks, k, Count(m))
  IN  IF atFront /\ (atBack => FrontMoves(m, k))
      THEN [m EXCEPT !.front = @ - n, !.blocks = blocks]
      ELSE IF atBack THEN [m EXCEPT !.blocks = blocks]
      ELSE InsertBlocks(ReqMemFront(m), k, new)

-----------------------------------------------------------------------------
(* The member functions. *)

PushFront(m, v) ==
  LET u == IF Count(m) = 0 \/ FrontSpace(m.blocks[1]) = 0 THEN PushFrontBlock(m) ELSE m
      b == u.blocks[1]
  IN  [u EXCEPT !.blocks = <<[front |-> b.front - 1, vals |-> <<v>> \o b.vals]>> \o Tail(@)]

PushBack(m, v) ==
  LET u == IF Count(m) = 0 \/ BackSpace(m.blocks[Count(m)]) = 0 THEN PushBackBlock(m) ELSE m
  IN  [u EXCEPT !.blocks[Count(u)].vals = Append(@, v)]

PopFront(m) ==
  LET b == m.blocks[1]
      rest == [front |-> b.front + 1, vals |-> Tail(b.vals)]
  IN  IF rest.vals = <<>> THEN [m EXCEPT !.front = @ + 1, !.blocks = Tail(@)]
      ELSE [m EXCEPT !.blocks[1] = rest]

PopBack(m) ==
  LET rest == Front(m.blocks[Count(m)].vals)
  IN  IF rest = <<>> THEN [m EXCEPT !.blocks = Front(@)]
      ELSE [m EXCEPT !.blocks[Count(m)].vals = rest]

\* Elements o to p - 1 leave block b; the shorter part of the others moves.
EraseCells(b, o, p) ==
  [front |-> IF o < Len(b.vals) - p THEN b.front + (p - o) ELSE b.front,
   vals |-> SubSeq(b.vals, 1, o) \o SubSeq(b.vals, p + 1, Len(b.vals))]

\* What stays of block k replaces it; an empty block is erased.
Keep(m, k, b) ==
  LET u == [m EXCEPT !.blocks[k] = b]
  IN  IF b.vals = <<>> THEN EraseBlock(u, k) ELSE u

\* erase(it), where o counts as nearer the front if it is before the middle.
EraseAt(m, it) ==
  LET b == m.blocks[it[1]]
      o == it[2]
  IN  Keep(m, it[1],
           [front |-> IF o < Len(b.vals) - o THEN b.front + 1 ELSE b.front,
            vals |-> RemoveAt(b.vals, o + 1)])

\* A slip to rule out: the first block stays even if nothing is left in it.
EraseRangeKeepsBlock(m, first, last) ==
  LET i == first[1]
      j == last[1]
      u == [m EXCEPT !.blocks[i] = EraseCells(@, first[2], Len(@.vals)),
                     !.blocks[j] = EraseCells(@, 0, last[2])]
  IN  IF IsDummy(m, last) THEN Spoiled
      ELSE IF i = j THEN Keep(m, i, EraseCells(m.blocks[i], first[2], last[2]))
      ELSE EraseBlocks(u, i + 1, j)

\* erase(first, last).  The end as last fails the assertion of erase_block, and
\* with nothing to erase there destroys the dummy twice.
EraseRange(m, first, last) ==
  LET i == first[1]
      j == last[1]
      u == [m EXCEPT !.blocks[i] = EraseCells(@, first[2], Len(@.vals)),
                     !.blocks[j] = EraseCells(@, 0, last[2])]
  IN  IF IsDummy(m, last) THEN Spoiled
      ELSE IF i = j THEN Keep(m, i, EraseCells(m.blocks[i], first[2], last[2]))
      ELSE EraseBlocks(u, IF u.blocks[i].vals = <<>> THEN i ELSE i + 1, j)

\* Block b without its first o elements, and without those from o on.
From(b, o) == [front |-> b.front + o, vals |-> SubSeq(b.vals, o + 1, Len(b.vals))]
UpTo(b, o) == [b EXCEPT !.vals = SubSeq(@, 1, o)]

\* insert(it, val).
InsertOne(m, it, v) ==
  LET k == it[1]
      o == it[2]
      b == m.blocks[k]
      forward == FrontSpace(b) > 0 /\ (BackSpace(b) > 0 => o < Len(b.vals) \div 2)
      \* the first half of a full block leaves it for a new one
      split == InsertBlocks([m EXCEPT !.blocks[k] = From(@, o)], k,
                            <<[front |-> 0, vals |-> Append(SubSeq(b.vals, 1, o), v)]>>)
      prevHasRoom == k > 1 /\ BackSpace(m.blocks[k - 1]) > 0
      nextHasRoom == k < Count(m) /\ FrontSpace(m.blocks[k + 1]) > 0
  IN  IF IsDummy(m, it) THEN Spoiled
      ELSE IF Len(b.vals) < BlkSize
      THEN [m EXCEPT !.blocks[k] = [front |-> IF forward THEN @.front - 1 ELSE @.front,
                                    vals |-> InsertAt(@.vals, o + 1, v)]]
      ELSE IF o < BlkSize \div 2
      THEN IF prevHasRoom THEN Spoiled ELSE split   \* *cur is overwritten
      ELSE IF nextHasRoom /\ o = BlkSize - 1        \* before it, *(end - 2) would be lost
      THEN [m EXCEPT !.blocks[k].vals[BlkSize] = v,
                     !.blocks[k + 1] = [front |-> @.front - 1, vals |-> <<b.vals[BlkSize]>> \o @.vals]]
      ELSE Spoiled

\* insert(it, first, last).  In the room of its block it loses elements.  Otherwise
\* the block is split and the values go in between, in blocks of their own; an
\* empty first part is erased again, which misplaces them when the back moves.
InsertRange(m, it, vals) ==
  LET k == it[1]
      o == it[2]
      b == IF IsDummy(m, it) THEN NewBlock ELSE m.blocks[k]
      room == IF IsDummy(m, it) THEN 0 ELSE FrontSpace(b) + BackSpace(b)
      opened == InsertBlocks(m, k, <<NewBlock>> \o Filled(vals))
  IN  IF vals = <<>> THEN m
      ELSE IF Len(vals) <= room THEN Spoiled
      ELSE IF o = 0
      THEN IF FrontMoves(opened, k) THEN EraseBlock(opened, k) ELSE Spoiled
      ELSE IF o < BlkSize \div 2
      THEN InsertBlocks([m EXCEPT !.blocks[k] = From(@, o)], k,
                        <<[NewBlock EXCEPT !.vals = SubSeq(b.vals, 1, o)]>> \o Filled(vals))
      ELSE InsertBlocks([m EXCEPT !.blocks[k] = UpTo(@, o)], k + 1,
                        Filled(vals) \o <<[NewBlock EXCEPT !.vals = From(b, o).vals]>>)

-----------------------------------------------------------------------------
\* The elements are only copied.  So that all of them differ the elements of a
\* deque that holds s are renamed 1, 2, ... in the order of s after every call,
\* and what a call adds to n elements is n + 1, n + 2, ...
Upto(n) == [i \in 1..n |-> i]
New(n) == [i \in 1..n |-> Len(items) + i]
Renamed(m, s) ==
  [m EXCEPT !.blocks =
     [k \in DOMAIN @ |->
        [@[k] EXCEPT !.vals = [i \in DOMAIN @ |-> SelectInSeq(s, LAMBDA x : x = @[i])]]]]

Init ==
  \E n \in 0..MaxSize :
    /\ items = Upto(n)
    /\ rep = copy_init(Upto(n))

Become(m, s) ==
  /\ Len(s) <= MaxSize
  /\ m.capacity <= MaxCapacity
  /\ rep' = Renamed(m, s)
  /\ items' = Upto(Len(s))

Inserted(i, vals) == SubSeq(items, 1, i) \o vals \o SubSeq(items, i + 1, Len(items))
Position == 0..Len(items)

push_front == Become(PushFront(rep, New(1)[1]), New(1) \o items)
push_back == Become(PushBack(rep, New(1)[1]), items \o New(1))

\* Both of a deque that is not empty, as the callers see to.
pop_front == items # <<>> /\ Become(PopFront(rep), Tail(items))
pop_back == items # <<>> /\ Become(PopBack(rep), Front(items))

insert(i) == Become(InsertOne(rep, At(rep, i), New(1)[1]), Inserted(i, New(1)))
insert_range(i, n) == Become(InsertRange(rep, At(rep, i), New(n)), Inserted(i, New(n)))

erase(i) == i < Len(items) /\ Become(EraseAt(rep, At(rep, i)), RemoveAt(items, i + 1))
erase_range(i, j) ==
  Become(EraseRange(rep, At(rep, i), At(rep, j)),
         SubSeq(items, 1, i) \o SubSeq(items, j + 1, Len(items)))

\* operator=, into a map of its own.
assign_copy == Become(copy_init(Contents(rep)), items)

Next ==
  /\ ~IsSpoiled(rep)
  /\ \/ push_front
     \/ push_back
     \/ pop_front
     \/ pop_back
     \/ \E i \in Position : insert(i)
     \/ \E i \in Position : \E n \in 0..(MaxSize - Len(items)) : insert_range(i, n)
     \/ \E i \in Position : erase(i)
     \/ \E i \in Position : \E j \in i..Len(items) : erase_range(i, j)
     \/ assign_copy

-----------------------------------------------------------------------------
RECURSIVE Walk(_, _)
Walk(m, it) == IF it = End(m) THEN <<>> ELSE <<it>> \o Walk(m, Succ(m, it))

\* As long as no call has spoiled it the deque holds the sequence it should, in
\* blocks none of which is empty (begin(), back() and empty() rely on it) or too
\* long; iterators reach every element in order, in steps or in one leap from
\* either end, and their differences are right.
IsSequence ==
  ~IsSpoiled(rep) =>
    LET path == Walk(rep, Begin)
        n == Len(items)
    IN  /\ \A k \in 1..Count(rep) :
             rep.blocks[k].vals # <<>> /\ FrontSpace(rep.blocks[k]) >= 0 /\ BackSpace(rep.blocks[k]) >= 0
        /\ rep.front >= 0 /\ rep.front + Count(rep) <= rep.capacity
        /\ Contents(rep) = items
        /\ Len(path) = n
        /\ \A i \in 1..n :
             /\ rep.blocks[path[i][1]].vals[path[i][2] + 1] = items[i]
             /\ Plus(rep, Begin, i - 1) = path[i]
             /\ Less(rep, End(rep), n - i + 1) = path[i]
             /\ Distance(rep, path[i]) = i - 1
=============================================================================
