-------------------------------- MODULE Multiset --------------------------------
(***************************************************************************)
(* multiset.hpp over rbtree_exp.hpp, which repeats rbtree.hpp but for      *)
(* swap_pos: erasing moves no other node, so erase(iterator) returns the   *)
(* address of the next node as it was.  insert never looks for the key,    *)
(* and erase(key) takes one of the equal elements, not all of them.        *)
(***************************************************************************)
EXTENDS Integers, Sequences, FiniteSets, SequencesExt

CONSTANTS
  Values,     \* the keys, integers
  MaxNodes,   \* bound: the elements of the multiset
  MaxGiven    \* bound: the elements a caller hands over at once

VARIABLES rep, items

KeyItself(v) == v
INSTANCE RbTree WITH ByNode <- TRUE, KeyOf <- KeyItself, Unset <- 0

(* rbtree_exp.hpp. *)
Hung(t, n, v) == Hang(t, n, v)
Settled(t, n) == Settle(t, n)
Reduced(t, n) == Reduce(t, n)
WithoutBlackLeaf(t, n) == EraseBlackLeaf(t, n)
Successor(t, n) == GetInorderNext(t, n)
Found(t, k) == Search(t, k)
Lower(t, k) == lower_bound(t, k)
Upper(t, k) == upper_bound(t, k)
Number(t, k) == count(t, k)
Copied(t) == copy_tree(t)

(* multiset.hpp. *)
Inserted(t, v) == LET n == New(t) IN Settled(Hung(t, n, v), n)
InsertedAll(t, vs) == FoldLeft(Inserted, t, vs)

Finished(d) == IF d[2] = Null THEN d[1] ELSE WithoutBlackLeaf(d[1], d[2])
Erased(t, n) == Finished(Reduced(t, n))

\* erase(iterator): <<tree, the iterator it returns>>.
EraseIt(t, n) == <<Erased(t, n), Successor(t, n)>>

EraseRange(t, n, num) == FoldLeft(LAMBDA d, i : EraseIt(d[1], d[2]), <<t, n>>, [i \in 1..num |-> i])

\* merge(s): every element of s = at[1], one after the other, is inserted, and
\* erased from s.
RECURSIVE Merged(_, _)
Merged(t, at) ==
  IF at[2] = Null THEN <<t, at[1]>>
  ELSE Merged(Inserted(t, at[1].val[at[2]]), EraseIt(at[1], at[2]))

begin(t) == IF t.root = Null THEN Null ELSE Outermost(t, t.root, "L")
AtBegin(t) == <<t, begin(t)>>
MergedWith(t, vs) == Merged(t, AtBegin(InsertedAll(EmptyTree(black), vs)))

-----------------------------------------------------------------------------
Occurrences(v, vs) == Len(SelectSeq(vs, LAMBDA w : w = v))
With(bag, vs) == [v \in Values |-> bag[v] + Occurrences(v, vs)]
Without(bag, vs) == [v \in Values |-> bag[v] - Occurrences(v, vs)]
Given == {vs \in BoundedSeq(Values, MaxGiven) : Size(rep) + Len(vs) <= MaxNodes}

insert(vs) ==
  /\ rep' = Tidy(InsertedAll(rep, vs))
  /\ items' = With(items, vs)

erase(v) ==
  /\ Found(rep, v) # Null
  /\ rep' = Tidy(Erased(rep, Found(rep, v)))
  /\ items' = Without(items, <<v>>)

\* erase(first, last) of num elements from the one at position i on; of one
\* element it is erase(iterator).
erase_range(i, num) ==
  /\ i + num - 1 <= Size(rep)
  /\ rep' = Tidy(EraseRange(rep, InOrder(rep)[i], num)[1])
  /\ items' = Without(items, [j \in 1..num |-> rep.val[InOrder(rep)[i + j - 1]]])

\* merge with a multiset of the elements vs.
merge(vs) ==
  /\ rep' = Tidy(MergedWith(rep, vs)[1])
  /\ items' = With(items, vs)

Clear == clear

\* The copy goes on in the place of the original, in nodes of the same names.
copy ==
  /\ rep' = Copied(rep)
  /\ UNCHANGED items

Next ==
  \/ \E vs \in Given : insert(vs)
  \/ \E v \in Values : erase(v)
  \/ \E i \in 1..MaxNodes, num \in 1..MaxGiven : erase_range(i, num)
  \/ \E vs \in Given : merge(vs)
  \/ Clear
  \/ copy

-----------------------------------------------------------------------------
\* Erasing an element by its iterator returns the element after it, untouched.
ReturnsTheNext ==
  LET order == InOrder(rep)
      next(i, d) == IF i = Len(order) THEN d[2] = Null
                    ELSE /\ d[2] = order[i + 1]
                         /\ d[2] \in NodesOf(d[1])
                         /\ d[1].val[d[2]] = rep.val[d[2]]
  IN  \A i \in DOMAIN order : next(i, EraseIt(rep, order[i]))

\* The multiset holds its keys in order, as often as they were put in and not
\* taken out; its bounds are right, and erase returns the element that follows.
IsMultiset ==
  /\ Holds
  /\ BoundsAreRight(Lower, Upper, Number)
  /\ ReturnsTheNext

\* Inserting or erasing an element moves no other: iterators to them stay good.
NodesStay ==
  /\ \A n \in NodesOf(rep) : OnlyMoves(rep, Erased(rep, n), n)
  /\ Size(rep) < MaxNodes =>
       \A v \in Values : OnlyMoves(rep, Inserted(rep, v), New(rep))
=============================================================================
