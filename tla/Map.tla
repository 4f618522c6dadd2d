---------------------------------- MODULE Map ----------------------------------
(***************************************************************************)
(* map.hpp over drbtree.hpp, which repeats rbtree.hpp over pairs.  insert  *)
(* of a key that is there replaces what it is mapped to; erase(iterator)   *)
(* remembers the next key and searches for it once the node is gone.       *)
(***************************************************************************)
EXTENDS Integers, Sequences, SequencesExt

CONSTANTS
  Values,     \* the pairs of a key, an integer, and what it is mapped to
  MaxNodes,   \* bound: the elements of the map
  MaxGiven    \* bound: the elements a caller hands over at once

VARIABLES rep, items

First(v) == v[1]
INSTANCE RbTree WITH ByNode <- FALSE, KeyOf <- First, Unset <- <<0, 0>>

(* drbtree.hpp. *)
Hung(t, n, v) == Hang(t, n, v)
Settled(t, n) == Settle(t, n)
Reduced(t, n) == Reduce(t, n)
WithoutBlackLeaf(t, n) == EraseBlackLeaf(t, n)
Successor(t, n) == GetInorderNext(t, n)
Found(t, k) == Search(t, k)
Lower(t, k) == lower_bound(t, k)
Upper(t, k) == upper_bound(t, k)
Number(t, k) == count(t, k)
Copied(t) == copy_tree(t)

(* map.hpp. *)
Inserted(t, v) ==
  LET n == New(t)
      there == Found(t, v[1])
  IN  IF there # Null THEN [t EXCEPT !.val[there] = v] ELSE Settled(Hung(t, n, v), n)
InsertedAll(t, vs) == FoldLeft(Inserted, t, vs)

Finished(d) == IF d[2] = Null THEN d[1] ELSE WithoutBlackLeaf(d[1], d[2])
Erased(t, n) == Finished(Reduced(t, n))

\* erase(iterator): <<tree, the iterator it returns>>.
EraseIt(t, n) ==
  LET next == Successor(t, n)
      found(t1) == <<t1, IF next = Null THEN Null ELSE Found(t1, t.val[next][1])>>
  IN  found(Erased(t, n))

EraseRange(t, n, num) == FoldLeft(LAMBDA d, i : EraseIt(d[1], d[2]), <<t, n>>, [i \in 1..num |-> i])

\* merge(m), at[2] being the element of m = at[1] that is looked at: what m maps
\* a key to that is here too replaces what is mapped here, and stays in m; the
\* rest is erased from m.
RECURSIVE Merged(_, _)
Merged(t, at) ==
  LET m == at[1]
      n == at[2]
  IN  IF n = Null THEN <<t, m>>
      ELSE Merged(Inserted(t, m.val[n]),
                  IF Found(t, m.val[n][1]) # Null THEN <<m, Successor(m, n)>> ELSE EraseIt(m, n))

begin(t) == IF t.root = Null THEN Null ELSE Outermost(t, t.root, "L")
AtBegin(t) == <<t, begin(t)>>
MergedWith(t, vs) == Merged(t, AtBegin(InsertedAll(EmptyTree(black), vs)))

-----------------------------------------------------------------------------
\* The bag of the pairs once those of vs are mapped, one after the other.
With(bag, vs) ==
  LET map(b, w) == [v \in Values |-> IF v[1] = w[1] THEN IF v = w THEN 1 ELSE 0 ELSE b[v]]
  IN  FoldLeft(map, bag, vs)
Without(bag, keys) == [v \in Values |-> IF v[1] \in keys THEN 0 ELSE bag[v]]
Given == {vs \in BoundedSeq(Values, MaxGiven) : Size(rep) + Len(vs) <= MaxNodes}

insert(vs) ==
  /\ rep' = Tidy(InsertedAll(rep, vs))
  /\ items' = With(items, vs)

erase(k) ==
  /\ Found(rep, k) # Null
  /\ rep' = Tidy(Erased(rep, Found(rep, k)))
  /\ items' = Without(items, {k})

\* erase(first, last) of num elements from the one at position i on; of one
\* element it is erase(iterator).
erase_range(i, num) ==
  /\ i + num - 1 <= Size(rep)
  /\ rep' = Tidy(EraseRange(rep, InOrder(rep)[i], num)[1])
  /\ items' = Without(items, {rep.val[InOrder(rep)[j]][1] : j \in i..(i + num - 1)})

\* merge with a map of the pairs vs.
merge(vs) ==
  /\ rep' = Tidy(MergedWith(rep, vs)[1])
  /\ items' = With(items, vs)

Clear == clear

copy ==
  /\ rep' = Copied(rep)
  /\ UNCHANGED items

Next ==
  \/ \E vs \in Given : insert(vs)
  \/ \E k \in Keys : erase(k)
  \/ \E i \in 1..MaxNodes, num \in 1..MaxGiven : erase_range(i, num)
  \/ \E vs \in Given : merge(vs)
  \/ Clear
  \/ copy

-----------------------------------------------------------------------------
\* Erasing an element by its iterator returns the element after it.
ReturnsTheNext ==
  LET order == InOrder(rep)
      next(i, d) == IF i = Len(order) THEN d[2] = Null
                    ELSE d[2] \in NodesOf(d[1]) /\ d[1].val[d[2]] = rep.val[order[i + 1]]
  IN  \A i \in DOMAIN order : next(i, EraseIt(rep, order[i]))

\* The map holds, in order, one pair of each key that was put in, its bounds are
\* right, and erase returns the pair that follows.
IsMap ==
  /\ Holds
  /\ BoundsAreRight(Lower, Upper, Number)
  /\ ReturnsTheNext
=============================================================================
