-------------------------------- MODULE RbTree --------------------------------
(***************************************************************************)
(* The red-black trees: rbtree.hpp below mfwu::set, and rbtree_exp.hpp     *)
(* below mfwu::multiset; drbtree.hpp below mfwu::map and drbtree_exp.hpp   *)
(* below mfwu::multimap are the same code with it.first for the key.       *)
(*                                                                         *)
(* The plain and the _exp trees differ in one thing: to remove a node that *)
(* has children, the first copies the next value into it and goes on with  *)
(* the node the value came from; the second exchanges the positions of     *)
(* the two nodes and goes on with the node itself, so that the pointers to *)
(* every other node stay good.  ByNode says which of the two this is.      *)
(***************************************************************************)
EXTENDS TreeNodes

CONSTANT ByNode   \* TRUE: the _exp trees, FALSE: the others

VARIABLES rep,    \* the tree
          items   \* ghost: how many times each value has been put in and not taken out

red == "red"
black == "black"
color(t, n) == IF n = Null THEN black ELSE t.mark[n]
Paint(t, n, c) == [t EXCEPT !.mark[n] = c]

set_root(t, n) ==
  IF n = Null THEN [t EXCEPT !.root = Null]
  ELSE [t EXCEPT !.root = n, !.parent[n] = Null, !.mark[n] = black]

\* rotate_left for s = "L", rotate_right for s = "R".
rotate(t, n, s) ==
  LET o == Opp(s)
      up == t.parent[n]
      pivot == t.kid[o][n]
      t1 == IF up = Null THEN set_root(t, pivot) ELSE Link(t, up, SideOf(t, n), pivot)
  IN  Link(Link(t1, pivot, s, n), n, o, t.kid[s][pivot])

-----------------------------------------------------------------------------
(* Insertion. *)

\* A red node p, the child of g on side s, has got a red child: "inner" says
\* whether it is on the other side.  llr, lrr, rlr, rrr when p's sibling is
\* red, llb, lrb, rlb, rrb when it is black.
RECURSIVE FixRed(_, _, _, _)
RECURSIVE maintain(_, _)

FixRed(t, g, s, inner) ==
  IF color(t, t.kid[Opp(s)][g]) = red
  THEN maintain([t EXCEPT !.mark[g] = red,
                          !.mark[t.kid["L"][g]] = black,
                          !.mark[t.kid["R"][g]] = black], g)
  ELSE LET t1 == IF inner THEN rotate(t, t.kid[s][g], s) ELSE t
       IN  rotate([t1 EXCEPT !.mark[g] = red, !.mark[t1.kid[s][g]] = black], g, Opp(s))

maintain(t, n) ==
  LET p == t.parent[n]
  IN  IF p = Null THEN Paint(t, n, black)
      ELSE IF t.mark[p] = black THEN t
      ELSE IF t.parent[p] = Null THEN Paint(t, p, black)
      ELSE FixRed(t, t.parent[p], SideOf(t, p), SideOf(t, n) # SideOf(t, p))

\* insert: the new node n holds v and hangs, red, where the search for it ends.
Hang(t, n, v) ==
  IF t.root = Null
  THEN [t EXCEPT !.root = n, !.val[n] = v, !.mark[n] = black, !.parent[n] = Null]
  ELSE LET place == PlaceBelow(t, t.root, KeyOf(v))
       IN  Link([t EXCEPT !.val[n] = v, !.mark[n] = red], place[1], place[2], n)

\* What insert does about the new node's parent.
Settle(t, n) ==
  LET p == t.parent[n]
  IN  IF p = Null \/ color(t, p) = black THEN t
      ELSE FixRed(t, t.parent[p], SideOf(t, p), SideOf(t, n) # SideOf(t, p))

InsertNode(t, n, v) == Settle(Hang(t, n, v), n)

-----------------------------------------------------------------------------
(* Removal. *)

erase_node(t, n) ==
  IF t.parent[n] = Null THEN set_root(t, Null) ELSE Link(t, t.parent[n], SideOf(t, n), Null)

RECURSIVE Rebalance(_, _, _)
RECURSIVE BlackBrother(_, _, _)

\* The subtree of p on side s is one black node short: Lr or Lb, Rr or Rb.
Rebalance(t, p, s) ==
  LET b == t.kid[Opp(s)][p]
  IN  IF color(t, b) = red
      THEN LET t1 == rotate(Paint(Paint(t, b, black), p, red), p, s)
           IN  BlackBrother(t1, t1.kid[Opp(s)][p], s)
      ELSE BlackBrother(t, b, s)

\* Lb for s = "L", Rb for s = "R".
BlackBrother(t, b, s) ==
  LET o == Opp(s)
      p == t.parent[b]
      near == t.kid[s][b]
      far == t.kid[o][b]
      \* Lb1: the brother takes the parent's colour and its place
      raise(u, top) ==
        rotate([u EXCEPT !.mark[top] = u.mark[p], !.mark[p] = black,
                         !.mark[u.kid[o][top]] = black], p, s)
  IN  IF color(t, near) = black /\ color(t, far) = black
      THEN LET t1 == Paint(Paint(t, p, black), b, red)
               g == t.parent[p]
           IN  IF t.mark[p] = black /\ g # Null   \* maintain_up
               THEN Rebalance(t1, g, SideOf(t1, p)) ELSE t1
      ELSE IF color(t, far) = black
           THEN LET t1 == rotate(Paint(Paint(t, b, red), near, black), b, o)
                IN  raise(t1, t1.kid[o][p])
           ELSE raise(t, b)

\* bbb of a leaf.
EraseBlackLeaf(t, n) ==
  LET p == t.parent[n]
  IN  IF p = Null THEN erase_node(t, n)
      ELSE Rebalance(erase_node(t, n), p, SideOf(t, n))

\* swap_pos: n and m trade their places in the tree, and so their colours.
swap_pos(t, n, m) ==
  LET other(a) == IF a = n THEN m ELSE IF a = m THEN n ELSE a
      traded(f) == [a \in Node |-> other(f[other(a)])]
  IN  [t EXCEPT !.root = IF @ = n THEN m ELSE @,
                !.kid = [s \in Side |-> traded(@[s])],
                !.parent = traded(@),
                !.mark = [a \in Node |-> @[other(a)]]]

\* n's value leaves the tree in m's place: <<tree, the node still to remove>>.
Replace(t, n, m) ==
  IF ByNode THEN <<swap_pos(t, n, m), n>> ELSE <<[t EXCEPT !.val[n] = t.val[m]], m>>

\* erase(node) down to what bbb does: <<tree, the black leaf still to remove>>.
RECURSIVE Reduce(_, _)
Reduce(t, n) ==
  LET l == t.kid["L"][n]
      r == t.kid["R"][n]
      next == GetSuccessor(t, n)
      nnext == GetSuccessor(t, next)
      down == Replace(t, n, next)
      done(u) == <<u, Null>>
  IN  IF l = Null /\ r = Null
      THEN IF t.mark[n] = red THEN done(erase_node(t, n)) ELSE <<t, n>>
      ELSE IF l = Null \/ r = Null
      THEN IF t.mark[n] = red THEN done(t)   \* the code leaves the node where it is
           ELSE LET d == Replace(t, n, IF l = Null THEN r ELSE l)
                IN  done(Link(d[1], d[1].parent[d[2]], IF l = Null THEN "R" ELSE "L", Null))
      ELSE IF t.mark[n] = red THEN Reduce(down[1], down[2])
      ELSE IF t.mark[next] = red THEN done(erase_node(down[1], down[2]))   \* brb
      ELSE IF color(t, nnext) = black THEN down                            \* bbb
      ELSE LET d == Replace(down[1], down[2], nnext)                       \* bbr
           IN  done(erase_node(Paint(d[1], d[1].parent[d[2]], black), d[2]))

\* The rest of erase(node), d being what Reduce has left.
Finish(d) == IF d[2] = Null THEN d[1] ELSE EraseBlackLeaf(d[1], d[2])

EraseAt(t, n) == Finish(Reduce(t, n))

\* copy_tree: the copies of the children are told their parent.
copy_tree(t) ==
  [t EXCEPT !.parent = [n \in Node |->
     IF \E p \in NodesOf(t), s \in Side : t.kid[s][p] = n
     THEN CHOOSE p \in NodesOf(t) : \E s \in Side : t.kid[s][p] = n
     ELSE @[n]]]

-----------------------------------------------------------------------------
(* The bounds of the ordered containers. *)

RECURSIVE LowerBelow(_, _, _)
LowerBelow(t, n, k) ==
  IF n = Null \/ KeyOf(t.val[n]) = k THEN n
  ELSE IF k < KeyOf(t.val[n])
       THEN LET b == LowerBelow(t, t.kid["L"][n], k) IN IF b = Null THEN n ELSE b
       ELSE LowerBelow(t, t.kid["R"][n], k)

RECURSIVE UpperBelow(_, _, _)
UpperBelow(t, n, k) ==
  IF n = Null THEN Null
  ELSE IF k < KeyOf(t.val[n])
       THEN LET b == UpperBelow(t, t.kid["L"][n], k) IN IF b = Null THEN n ELSE b
       ELSE UpperBelow(t, t.kid["R"][n], k)

lower_bound(t, k) == LowerBelow(t, t.root, k)
upper_bound(t, k) == UpperBelow(t, t.root, k)

\* count: the equal nodes from the one search finds onwards.
RECURSIVE CountFrom(_, _, _)
CountFrom(t, n, k) ==
  IF n = Null \/ KeyOf(t.val[n]) # k THEN 0 ELSE 1 + CountFrom(t, GetInorderNext(t, n), k)
count(t, k) == IF Search(t, k) = Null THEN 0 ELSE CountFrom(t, Search(t, k), k)

-----------------------------------------------------------------------------
(* The tree as a state machine. *)

\* Which of the free addresses a new node gets does not matter, and between the
\* operations the nodes are numbered in order.
New(t) == CHOOSE n \in Node \ NodesOf(t) : TRUE
Tidy(t) == Renumbered(t, black)

Init ==
  /\ rep = EmptyTree(black)
  /\ items = [v \in Values |-> 0]

Insert(v) ==
  /\ Size(rep) < MaxNodes
  /\ rep' = Tidy(InsertNode(rep, New(rep), v))
  /\ items' = [items EXCEPT ![v] = @ + 1]

\* erase(node): what an iterator refers to, the root, or what search finds.
Erase(n) ==
  /\ n \in NodesOf(rep)
  /\ rep' = Tidy(EraseAt(rep, n))
  /\ items' = [items EXCEPT ![rep.val[n]] = @ - 1]

clear ==
  /\ rep' = EmptyTree(black)
  /\ items' = [v \in Values |-> 0]

\* The copy goes on in the place of the tree.
Copy ==
  /\ rep' = copy_tree(rep)
  /\ UNCHANGED items

\* The tree used without a container around it.
TreeNext ==
  \/ \E v \in Values : Insert(v)
  \/ \E n \in Node : Erase(n)
  \/ clear
  \/ Copy

-----------------------------------------------------------------------------
(* Properties, stated over a tree and what it should hold. *)

\* The red-black conditions: a black root, no red child of a red node and as
\* many black nodes below one child as below the other; parent pointers are right.
RECURSIVE BlackHeight(_, _)
BlackHeight(t, n) ==
  IF n = Null THEN 1
  ELSE BlackHeight(t, t.kid["L"][n]) + (IF t.mark[n] = black THEN 1 ELSE 0)

RedBlack ==
  /\ ParentsAreRight(rep)
  /\ color(rep, rep.root) = black
  /\ \A n \in NodesOf(rep) :
       /\ rep.mark[n] = red => \A s \in Side : color(rep, rep.kid[s][n]) = black
       /\ BlackHeight(rep, rep.kid["L"][n]) = BlackHeight(rep, rep.kid["R"][n])

\* What a container's lower_bound, upper_bound and count say of each key; count
\* is right where no key is there twice.
BoundsAreRight(lower(_, _), upper(_, _), number(_, _)) ==
  LET held == {KeyOf(v) : v \in {w \in Values : items[w] > 0}}
      times(k) == Cardinality({n \in NodesOf(rep) : KeyOf(rep.val[n]) = k})
      least(S) == IF S = {} THEN {} ELSE {CHOOSE k \in S : \A j \in S : k <= j}
      key(n) == IF n = Null THEN {} ELSE {KeyOf(rep.val[n])}
  IN  \A k \in Keys :
        /\ key(lower(rep, k)) = least({j \in held : j >= k})
        /\ key(upper(rep, k)) = least({j \in held : j > k})
        /\ (\A j \in Keys : times(j) <= 1) => number(rep, k) = times(k)

\* The values are there and in order, and iterators run through all of them.
Holds ==
  /\ HoldsInOrder(rep, items)
  /\ Iterate(rep) = InOrder(rep)

\* From the tree t to t1 the node n has come or gone; every other node is where
\* it was in the order and holds what it held.
OnlyMoves(t, t1, n) ==
  LET others(u) == SelectSeq(InOrder(u), LAMBDA m : m # n)
  IN  /\ others(t) = others(t1)
      /\ (n \in NodesOf(t)) # (n \in NodesOf(t1))
      /\ \A m \in Range(others(t)) : t1.val[m] = t.val[m]
=============================================================================
