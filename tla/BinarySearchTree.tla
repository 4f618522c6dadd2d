--------------------------- MODULE BinarySearchTree ---------------------------
(***************************************************************************)
(* binary_search_tree.hpp.  pop_node hangs the removed node's only child   *)
(* in its place but, below the root, does not tell the child: its parent   *)
(* pointer goes on naming the deleted node.  The next time that pointer is *)
(* read the behaviour is undefined; so is the removal of the last node,    *)
(* which writes through nullptr.  rep is Gone from there on.               *)
(***************************************************************************)
EXTENDS TreeNodes

VARIABLES rep,    \* the tree
          items   \* ghost: how many times each key has been pushed and not popped

Plain == "plain"   \* the nodes carry nothing besides their key
Init ==
  /\ rep = EmptyTree(Plain)
  /\ items = [k \in Keys |-> 0]

push(v) ==
  /\ ~IsGone(rep)
  /\ Size(rep) < MaxNodes
  /\ LET n == CHOOSE m \in Node : m \notin NodesOf(rep)
         new == [rep EXCEPT !.val[n] = v]
         place == PlaceBelow(rep, rep.root, v)
     IN  rep' = Renumbered(IF rep.root = Null THEN [new EXCEPT !.root = n]
                           ELSE Link(new, place[1], place[2], n), Plain)
  /\ items' = [items EXCEPT ![v] = @ + 1]

pop_node(t, n, next) ==
  LET p == t.parent[n]
  IN  IF p = Freed THEN Gone(Plain)
      ELSE IF p # Null THEN [t EXCEPT !.kid[SideOf(t, n)][p] = next]
      ELSE IF next = Null THEN Gone(Plain)
      ELSE [t EXCEPT !.root = next, !.parent[next] = Null]

RECURSIVE PopAt(_, _)
PopAt(t, n) ==
  LET l == t.kid["L"][n]
      r == t.kid["R"][n]
      next == GetSuccessor(t, n)
  IN  IF l # Null /\ r # Null THEN PopAt([t EXCEPT !.val[n] = t.val[next]], next)
      ELSE pop_node(t, n, IF l = Null THEN r ELSE l)

\* pop(node), which pop(val) calls for what search finds and pop() for the root.
pop(n) ==
  /\ ~IsGone(rep)
  /\ n \in NodesOf(rep)
  /\ rep' = Renumbered(PopAt(rep, n), Plain)
  /\ items' = [items EXCEPT ![rep.val[n]] = @ - 1]

Next == \/ \E v \in Keys : push(v)
        \/ \E n \in Node : pop(n)
-----------------------------------------------------------------------------
\* The keys are there and in order.
Holds == ~IsGone(rep) => HoldsInOrder(rep, items)
=============================================================================
