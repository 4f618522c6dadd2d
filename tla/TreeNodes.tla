------------------------------ MODULE TreeNodes ------------------------------
(***************************************************************************)
(* The linked nodes the three search trees share: a tree is a record with  *)
(* the root pointer, the two child pointers and the parent pointer of      *)
(* every node, the value a node holds and the tree's own bookkeeping       *)
(* "mark" (a colour, a stored height; a plain tree keeps none).            *)
(*                                                                         *)
(* Left and right are data ("L", "R"): the sources write every operation   *)
(* twice, once per side, and a definition here stands for both copies.     *)
(*                                                                         *)
(* Null is nullptr.  Freed is the address of a node that has been deleted: *)
(* a pointer that still has this value dangles.  Every other address is    *)
(* one of Node.                                                            *)
(***************************************************************************)
EXTENDS Integers, Sequences, FiniteSets, Functions

CONSTANTS
  Values,     \* what a node may hold: a key, or a pair of a key and a value
  KeyOf(_),   \* the key in it, an integer
  Unset,      \* the value at an address where there is no node
  MaxNodes    \* bound: the nodes alive at any time

Keys == {KeyOf(v) : v \in Values}

Null == 0
Freed == -1
Node == 1..MaxNodes
Side == {"L", "R"}
Opp(s) == IF s = "L" THEN "R" ELSE "L"

\* An empty tree whose nodes carry the mark m until they are used.
EmptyTree(m) ==
  [root |-> Null,
   kid |-> [s \in Side |-> [n \in Node |-> Null]],
   parent |-> [n \in Node |-> Null],
   val |-> [n \in Node |-> Unset],
   mark |-> [n \in Node |-> m]]

\* What is left of a tree once the program has followed nullptr or an address
\* that is no longer a node: nothing is said of it any more.
Gone(m) == [EmptyTree(m) EXCEPT !.root = Freed]
IsGone(t) == t.root = Freed

\* The side of its parent on which n hangs, as the sources ask for it
\* (root->parent->left == root, otherwise right).
SideOf(t, n) == IF t.kid["L"][t.parent[n]] = n THEN "L" ELSE "R"

\* p's child on side s becomes c, and c's parent p.
Link(t, p, s, c) ==
  [t EXCEPT !.kid[s][p] = c,
            !.parent = IF c = Null THEN @ ELSE [@ EXCEPT ![c] = p]]

RECURSIVE Outermost(_, _, _)
Outermost(t, n, s) ==
  IF t.kid[s][n] = Null THEN n ELSE Outermost(t, t.kid[s][n], s)

\* A slip to rule out: the right child itself.
RightChild(t, n) == IF n = Null THEN Null ELSE t.kid["R"][n]

\* get_successor: the leftmost node of the right subtree.
GetSuccessor(t, n) ==
  IF n = Null \/ t.kid["R"][n] = Null THEN Null
  ELSE Outermost(t, t.kid["R"][n], "L")

RECURSIVE ClimbToNext(_, _)
ClimbToNext(t, n) ==
  IF t.parent[n] = Null THEN Null
  ELSE IF SideOf(t, n) = "L" THEN t.parent[n] ELSE ClimbToNext(t, t.parent[n])

\* get_inorder_next: what ++ does to an iterator.
GetInorderNext(t, n) ==
  IF t.kid["R"][n] # Null THEN GetSuccessor(t, n) ELSE ClimbToNext(t, n)

\* in_order_aux with a function that records the nodes it is given.
RECURSIVE InOrderAux(_, _)
InOrderAux(t, n) ==
  IF n = Null THEN <<>>
  ELSE InOrderAux(t, t.kid["L"][n]) \o <<n>> \o InOrderAux(t, t.kid["R"][n])

InOrder(t) == InOrderAux(t, t.root)
NodesOf(t) == Range(InOrder(t))
Size(t) == Len(InOrder(t))

\* begin() and ++ until nullptr.
RECURSIVE Traverse(_, _)
Traverse(t, n) == IF n = Null THEN <<>> ELSE <<n>> \o Traverse(t, GetInorderNext(t, n))
Iterate(t) == IF t.root = Null THEN <<>> ELSE Traverse(t, Outermost(t, t.root, "L"))

\* search: down to the first node that has the key k, to the left of a larger key.
RECURSIVE SearchFrom(_, _, _)
SearchFrom(t, n, k) ==
  IF n = Null \/ KeyOf(t.val[n]) = k THEN n
  ELSE SearchFrom(t, t.kid[IF k < KeyOf(t.val[n]) THEN "L" ELSE "R"][n], k)

Search(t, k) == SearchFrom(t, t.root, k)

\* Where a new node of key k is hung: <<parent, side>>, equal keys to the right.
RECURSIVE PlaceBelow(_, _, _)
PlaceBelow(t, n, k) ==
  LET s == IF k >= KeyOf(t.val[n]) THEN "R" ELSE "L"
  IN  IF t.kid[s][n] = Null THEN <<n, s>> ELSE PlaceBelow(t, t.kid[s][n], k)

-----------------------------------------------------------------------------
(***************************************************************************)
(* What a node's address is does not matter, so it is abstracted: after   *)
(* an operation the nodes of a tree are numbered in order, the unused ones *)
(* are reset and a pointer to a deleted node becomes Freed.                *)
(***************************************************************************)
Renumbered(t, m) ==
  IF IsGone(t) THEN t ELSE
  LET order == InOrder(t)
      new(a) == IF a = Null THEN Null
                ELSE IF \E i \in DOMAIN order : order[i] = a
                     THEN CHOOSE i \in DOMAIN order : order[i] = a
                     ELSE Freed
      moved(f, unused) == [n \in Node |-> IF n \in DOMAIN order THEN f[order[n]] ELSE unused]
      pointers(f) == [n \in Node |-> IF n \in DOMAIN order THEN new(f[order[n]]) ELSE Null]
  IN  [root |-> new(t.root),
       kid |-> [s \in Side |-> pointers(t.kid[s])],
       parent |-> pointers(t.parent),
       val |-> moved(t.val, Unset),
       mark |-> moved(t.mark, m)]

-----------------------------------------------------------------------------
\* The number of nodes that hold each value.
Contents(t) == [v \in Values |-> Cardinality({n \in NodesOf(t) : t.val[n] = v})]

\* What every tree promises: its nodes in the order of their keys hold the values
\* that were put in, and search finds a key if it is there.
HoldsInOrder(t, bag) ==
  LET order == InOrder(t)
      key(n) == KeyOf(t.val[n])
  IN  /\ \A i \in 1..(Len(order) - 1) : key(order[i]) <= key(order[i + 1])
      /\ Contents(t) = bag
      /\ \A k \in Keys : IF \E v \in Values : KeyOf(v) = k /\ bag[v] > 0
                         THEN Search(t, k) # Null /\ key(Search(t, k)) = k
                         ELSE Search(t, k) = Null

\* Every node's parent pointer names the node it hangs from.
ParentsAreRight(t) ==
  LET live == NodesOf(t)
  IN  \A n \in live :
        IF n = t.root THEN t.parent[n] = Null
        ELSE t.parent[n] \in live /\ n \in {t.kid[s][t.parent[n]] : s \in Side}

\* The height of the tree below n.
RECURSIVE Depth(_, _)
Depth(t, n) ==
  IF n = Null THEN 0
  ELSE LET l == Depth(t, t.kid["L"][n])
           r == Depth(t, t.kid["R"][n])
       IN  1 + (IF l > r THEN l ELSE r)
=============================================================================
