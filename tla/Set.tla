---------------------------------- MODULE Set ----------------------------------
(***************************************************************************)
(* set.hpp: the ordered set over rbtree.hpp.  An iterator is the address   *)
(* of a node.  Erasing copies values between nodes, so erase(iterator)     *)
(* remembers the next value and searches for it once the node is gone.     *)
(***************************************************************************)
EXTENDS Integers, Sequences, SequencesExt

CONSTANTS
  Values,     \* the keys, integers
  MaxNodes,   \* bound: the elements of the set
  MaxGiven    \* bound: the elements a caller hands over at once

VARIABLES rep, items

KeyItself(v) == v
INSTANCE RbTree WITH ByNode <- FALSE, KeyOf <- KeyItself, Unset <- 0

\* insert and emplace.
Inserted(t, v) == IF Search(t, v) # Null THEN t ELSE InsertNode(t, New(t), v)

\* insert(first, last), and the constructors from a range or a list.
InsertedAll(t, vs) == FoldLeft(Inserted, t, vs)

\* erase(iterator): <<tree, the iterator it returns>>.
EraseIt(t, n) ==
  LET next == GetInorderNext(t, n)
      found(t1) == <<t1, IF next = Null THEN Null ELSE Search(t1, t.val[next])>>
  IN  found(EraseAt(t, n))

\* erase(first, last): as often as first is away from last.
EraseRange(t, n, num) == FoldLeft(LAMBDA d, i : EraseIt(d[1], d[2]), <<t, n>>, [i \in 1..num |-> i])

\* merge(s): what can be inserted is, and is then erased from the other set s,
\* at[1], of which at[2] is the element that is looked at.
RECURSIVE Merged(_, _)
Merged(t, at) ==
  LET s == at[1]
      n == at[2]
  IN  IF n = Null THEN <<t, s>>
      ELSE IF Search(t, s.val[n]) # Null THEN Merged(t, <<s, GetInorderNext(s, n)>>)
      ELSE Merged(Inserted(t, s.val[n]), EraseIt(s, n))

begin(t) == IF t.root = Null THEN Null ELSE Outermost(t, t.root, "L")
AtBegin(t) == <<t, begin(t)>>
MergedWith(t, vs) == Merged(t, AtBegin(InsertedAll(EmptyTree(black), vs)))

-----------------------------------------------------------------------------
Without(bag, vs) == [v \in Values |-> IF v \in Range(vs) THEN 0 ELSE bag[v]]
With(bag, vs) == [v \in Values |-> IF v \in Range(vs) THEN 1 ELSE bag[v]]
Given == {vs \in BoundedSeq(Values, MaxGiven) : Size(rep) + Len(vs) <= MaxNodes}

insert(vs) ==
  /\ rep' = Tidy(InsertedAll(rep, vs))
  /\ items' = With(items, vs)

\* erase(key), which takes the node that search finds.
erase(v) ==
  /\ rep' = Tidy(IF Search(rep, v) = Null THEN rep ELSE EraseAt(rep, Search(rep, v)))
  /\ items' = Without(items, <<v>>)

\* erase(first, last) of num elements from the one at position i on; of one
\* element it is erase(iterator).
erase_range(i, num) ==
  /\ i + num - 1 <= Size(rep)
  /\ rep' = Tidy(EraseRange(rep, InOrder(rep)[i], num)[1])
  /\ items' = Without(items, [j \in 1..num |-> rep.val[InOrder(rep)[i + j - 1]]])

\* merge with a set of the elements vs.
merge(vs) ==
  /\ rep' = Tidy(MergedWith(rep, vs)[1])
  /\ items' = With(items, vs)

Next ==
  \/ \E vs \in Given : insert(vs)
  \/ \E v \in Values : erase(v)
  \/ \E i \in 1..MaxNodes, num \in 1..MaxGiven : erase_range(i, num)
  \/ \E vs \in Given : merge(vs)
  \/ clear
  \/ Copy

-----------------------------------------------------------------------------
\* Erasing an element by its iterator returns the element after it.
ReturnsTheNext ==
  LET order == InOrder(rep)
      next(i, d) == IF i = Len(order) THEN d[2] = Null
                    ELSE d[2] \in NodesOf(d[1]) /\ d[1].val[d[2]] = rep.val[order[i + 1]]
  IN  \A i \in DOMAIN order : next(i, EraseIt(rep, order[i]))

\* merge leaves in the other set those of its elements that were here already.
MergeLeavesTheRest ==
  \A vs \in Given :
    Contents(MergedWith(rep, vs)[2]) = [v \in Values |-> IF v \in Range(vs) THEN items[v] ELSE 0]

\* The set holds its keys once and in order, its bounds are right, and the calls
\* that return an iterator or leave another set behind do as they say.
IsSet ==
  /\ Holds
  /\ BoundsAreRight(lower_bound, upper_bound, count)
  /\ ReturnsTheNext
  /\ MergeLeavesTheRest
=============================================================================
