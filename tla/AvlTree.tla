------------------------------- MODULE AvlTree -------------------------------
(***************************************************************************)
(* adelson_velskii_landis_tree.hpp: a search tree whose nodes store their  *)
(* height ("mark") and are rotated, on the way up from a change, where the *)
(* stored heights of two siblings differ by more than one.                 *)
(*                                                                         *)
(* rep is Gone once the program has dereferenced nullptr.                  *)
(***************************************************************************)
EXTENDS TreeNodes

VARIABLES rep,    \* the tree
          items   \* ghost: how many times each key has been pushed and not popped

Init ==
  /\ rep = EmptyTree(1)
  /\ items = [k \in Keys |-> 0]

\* The height a node should store, from what its children store.
height(t, n) ==
  IF n = Null THEN 0
  ELSE LET stored(c) == IF c = Null THEN 0 ELSE t.mark[c]
           l == stored(t.kid["L"][n])
           r == stored(t.kid["R"][n])
       IN  1 + (IF l > r THEN l ELSE r)

Restore(t, n) == [t EXCEPT !.mark[n] = height(t, n)]

\* rotate_rr (to the left) for s = "L", rotate_ll (to the right) for s = "R".
rotate(t, n, s) ==
  LET o == Opp(s)
      up == t.parent[n]
      pivot == t.kid[o][n]
      t1 == IF up = Null THEN [t EXCEPT !.root = pivot, !.parent[pivot] = Null]
            ELSE Link(t, up, SideOf(t, n), pivot)
      t2 == Link(Link(t1, pivot, s, n), n, o, t.kid[s][pivot])
  IN  Restore(Restore(t2, n), pivot)

\* maintain_l for s = "L", maintain_r for s = "R": side s is too high.
maintain(t, n, s) ==
  LET c == t.kid[s][n]
      outer == height(t, t.kid[s][c])
      inner == height(t, t.kid[Opp(s)][c])
      single == IF s = "L" THEN outer > inner ELSE ~(inner > outer)
  IN  rotate(IF single THEN t ELSE rotate(t, c, s), n, Opp(s))

TooHigh(t, n, s) == height(t, t.kid[s][n]) - height(t, t.kid[Opp(s)][n]) > 1

\* push returning to n, whose subtree on the side of v has grown.
RECURSIVE Ascend(_, _, _)
Ascend(t, n, v) ==
  LET p == t.parent[n]
      s == IF v >= t.val[n] THEN "R" ELSE "L"
      t1 == Restore(t, n)
      t2 == IF TooHigh(t1, n, s) THEN maintain(t1, n, s) ELSE t1
  IN  IF p = Null THEN t2 ELSE Ascend(t2, p, v)

push(v) ==
  /\ ~IsGone(rep)
  /\ Size(rep) < MaxNodes
  /\ LET n == CHOOSE m \in Node : m \notin NodesOf(rep)
         new == [rep EXCEPT !.val[n] = v, !.mark[n] = 1]
         place == PlaceBelow(rep, rep.root, v)
     IN  rep' = Renumbered(IF rep.root = Null THEN [new EXCEPT !.root = n]
                           ELSE Ascend(Link(new, place[1], place[2], n), place[1], v), 1)
  /\ items' = [items EXCEPT ![v] = @ + 1]

\* maintain_up: every node from n to the root.
RECURSIVE maintain_up(_, _)
maintain_up(t, n) ==
  IF n = Null THEN t
  ELSE LET t1 == Restore(t, n)
           t2 == IF TooHigh(t1, n, "L") THEN maintain(t1, n, "L")
                 ELSE IF TooHigh(t1, n, "R") THEN maintain(t1, n, "R")
                 ELSE t1
       IN  maintain_up(t2, t2.parent[n])

\* A slip to rule out: the way up from a removed node is not walked.
PopNodeOnly(t, n, next) ==
  LET p == t.parent[n]
  IN  IF p # Null THEN Link(t, p, SideOf(t, n), next)
      ELSE IF next = Null THEN Gone(1)
      ELSE [t EXCEPT !.root = next, !.parent[next] = Null]

\* pop_node and maintain_up.  The last node's removal writes through nullptr.
PopNode(t, n, next) ==
  LET p == t.parent[n]
  IN  IF p # Null THEN maintain_up(Link(t, p, SideOf(t, n), next), p)
      ELSE IF next = Null THEN Gone(1)
      ELSE [t EXCEPT !.root = next, !.parent[next] = Null]

RECURSIVE PopAt(_, _)
PopAt(t, n) ==
  LET l == t.kid["L"][n]
      r == t.kid["R"][n]
      next == GetSuccessor(t, n)
  IN  IF l # Null /\ r # Null THEN PopAt([t EXCEPT !.val[n] = t.val[next]], next)
      ELSE PopNode(t, n, IF l = Null THEN r ELSE l)

\* pop(node), which pop(val) calls for what search finds and pop() for the root.
pop(n) ==
  /\ ~IsGone(rep)
  /\ n \in NodesOf(rep)
  /\ rep' = Renumbered(PopAt(rep, n), 1)
  /\ items' = [items EXCEPT ![rep.val[n]] = @ - 1]

Next == \/ \E v \in Keys : push(v)
        \/ \E n \in Node : pop(n)

-----------------------------------------------------------------------------
\* The keys are there and in order.
Holds == ~IsGone(rep) => HoldsInOrder(rep, items)

\* The stored heights are the heights the tree has, and the parents are right.
HeightsAreReal ==
  ~IsGone(rep) =>
    /\ ParentsAreRight(rep)
    /\ \A n \in NodesOf(rep) : rep.mark[n] = Depth(rep, n)

\* What the tree is named after: two siblings' heights differ by one at most.
Balanced ==
  ~IsGone(rep) =>
    \A n \in NodesOf(rep) :
      Depth(rep, rep.kid["L"][n]) - Depth(rep, rep.kid["R"][n]) \in -1..1
=============================================================================
