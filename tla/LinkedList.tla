------------------------------ MODULE LinkedList ------------------------------
(***************************************************************************)
(* list.hpp: ForwardLinkedList (rep.double is FALSE), whose nodes know the *)
(* next one only and which walks from the head to what it needs, and       *)
(* DoubleLinkedList (TRUE), whose nodes know both neighbours.              *)
(*                                                                         *)
(* Start is the node before the first, Stop the one behind the last; the    *)
(* forward list has nullptr in its place.  Freed is the address of a node  *)
(* that has been deleted.  Addresses do not matter, so after an operation  *)
(* the nodes are numbered in the order of the list.                        *)
(***************************************************************************)
EXTENDS Integers, Sequences, Functions

CONSTANTS
  Values,     \* the elements
  Default,    \* value_type()
  MaxSize     \* bound: the elements of the list

VARIABLES rep,    \* the class of the list, and its nodes
          items   \* ghost: the sequence the list should be

Start == 0   \* the sources' head_
Stop == -1   \* tail_, or nullptr
Freed == -2
Node == 1..MaxSize
Unused == 0   \* the value of a node that is not in use

connect(t, former, latter) ==
  [t EXCEPT !.next[former] = latter,
            !.prev = IF t.double THEN [@ EXCEPT ![latter] = former] ELSE @]

EmptyList(double) ==
  connect([double |-> double,
           next |-> [a \in Node \cup {Start, Stop} |-> Freed],
           prev |-> [a \in Node \cup {Start, Stop} |-> Freed],
           val |-> [a \in Node |-> Unused]], Start, Stop)

\* The addresses from a on, up to b, which a loop over next comes to.
Walk(t, a, b) ==
  LET cur[k \in 0..(MaxSize + 1)] ==
        IF k = 0 THEN a ELSE IF cur[k - 1] = b THEN b ELSE t.next[cur[k - 1]]
      turns == CHOOSE n \in 0..(MaxSize + 1) : cur[n] = b /\ \A k \in 0..(n - 1) : cur[k] # b
  IN  [k \in 1..turns |-> cur[k - 1]]
Nodes(t) == Walk(t, t.next[Start], Stop)

\* The node before a: the doubly linked list looks it up, the other walks to it.
Before(t, a) == IF t.double THEN t.prev[a] ELSE LET s == Walk(t, Start, a) IN s[Len(s)]

New(t) == CHOOSE a \in Node : t.val[a] = Unused /\ \A b \in Node : t.val[b] = Unused => a <= b

\* A new node that holds v behind p, not yet linked to what follows.
AddNode(t, p, v) == [connect(t, p, New(t)) EXCEPT !.val[New(t)] = v]

\* One after the other, and the last of them.
AddNodes(t, p, vals) ==
  LET turn[k \in 0..Len(vals)] ==
        IF k = 0 THEN [list |-> t, last |-> p]
        ELSE LET u == turn[k - 1]
             IN  [list |-> AddNode(u.list, u.last, vals[k]), last |-> New(u.list)]
  IN  turn[Len(vals)]

\* delete of the nodes s.
Delete(t, s) ==
  [t EXCEPT !.next = [a \in DOMAIN @ |-> IF a \in Range(s) THEN Freed ELSE @[a]],
            !.prev = [a \in DOMAIN @ |-> IF a \in Range(s) THEN Freed ELSE @[a]],
            !.val = [a \in DOMAIN @ |-> IF a \in Range(s) THEN Unused ELSE @[a]]]

-----------------------------------------------------------------------------
\* insert in front of a, of one value or of several.
InsertBefore(t, a, vals) ==
  LET added == AddNodes(t, Before(t, a), vals)
  IN  connect(added.list, added.last, a)

PushFront(t, v) == InsertBefore(t, t.next[Start], <<v>>)
PushBack(t, v) == InsertBefore(t, Stop, <<v>>)

\* erase of the nodes from a up to b.
EraseRange(t, a, b) ==
  LET p == Before(t, a)
  IN  connect(Delete(t, Walk(t, a, b)), p, b)

PopFront(t) == IF t.next[Start] = Stop THEN t ELSE EraseRange(t, t.next[Start], t.next[t.next[Start]])
PopBack(t) == IF t.next[Start] = Stop THEN t ELSE EraseRange(t, Before(t, Stop), Stop)

\* resize: along the first n nodes, then new ones or an end.
Resized(t, n) ==
  LET s == Nodes(t)
      more == [i \in 1..(n - Len(s)) |-> Default]
      added == AddNodes(t, IF s = <<>> THEN Start ELSE s[Len(s)], more)
      last == IF n = 0 THEN Start ELSE s[n]
  IN  IF n > Len(s) THEN connect(added.list, added.last, Stop)
      ELSE connect(Delete(t, Walk(t, t.next[last], Stop)), last, Stop)

-----------------------------------------------------------------------------
\* The same nodes, numbered in the order of the list.
Renumbered(t) ==
  LET s == Nodes(t)
      new(a) == IF a \in Range(s) THEN CHOOSE i \in DOMAIN s : s[i] = a ELSE a
      old(a) == IF a \in DOMAIN s THEN s[a] ELSE a
      used(a) == a \in DOMAIN s \cup {Start, Stop}
  IN  [double |-> t.double,
       next |-> [a \in DOMAIN t.next |-> IF used(a) THEN new(t.next[old(a)]) ELSE Freed],
       prev |-> [a \in DOMAIN t.prev |-> IF used(a) THEN new(t.prev[old(a)]) ELSE Freed],
       val |-> [a \in Node |-> IF used(a) THEN t.val[old(a)] ELSE Unused]]

Init ==
  /\ \E double \in BOOLEAN : rep = EmptyList(double)
  /\ items = <<>>

Become(t, s) ==
  /\ rep' = Renumbered(t)
  /\ items' = s

Room(n) == Len(items) + n <= MaxSize

\* Position i, the place of the i-th node or the end.
At(i) == IF i <= Len(items) THEN i ELSE Stop
Position == 1..(Len(items) + 1)
Without(i, j) == SubSeq(items, 1, i - 1) \o SubSeq(items, j, Len(items))

push_front(v) == Room(1) /\ Become(PushFront(rep, v), <<v>> \o items)
push_back(v) == Room(1) /\ Become(PushBack(rep, v), Append(items, v))
pop_front == Become(PopFront(rep), IF items = <<>> THEN <<>> ELSE Tail(items))
pop_back == Become(PopBack(rep), IF items = <<>> THEN <<>> ELSE SubSeq(items, 1, Len(items) - 1))

\* insert of one value, of n equal ones or of a range.
insert(i, vals) ==
  /\ Room(Len(vals))
  /\ Become(InsertBefore(rep, At(i), vals),
            SubSeq(items, 1, i - 1) \o vals \o SubSeq(items, i, Len(items)))

\* erase of a position that is not the end, or of a range.
erase(i, j) == Become(EraseRange(rep, At(i), At(j)), Without(i, j))

resize(n) ==
  Become(Resized(rep, n), [i \in 1..n |-> IF i <= Len(items) THEN items[i] ELSE Default])

Next ==
  \/ \E v \in Values : push_front(v)
  \/ \E v \in Values : push_back(v)
  \/ pop_front
  \/ pop_back
  \/ \E i \in Position, n \in 0..2 : \E vals \in [1..n -> Values] : insert(i, vals)
  \/ \E i \in Position : \E j \in i..(Len(items) + 1) : erase(i, j)
  \/ \E n \in 0..MaxSize : resize(n)

-----------------------------------------------------------------------------
\* The nodes hold the sequence, and in a doubly linked list, up to the end,
\* every node's prev is the one whose next it is.
IsSequence ==
  LET s == Nodes(rep)
  IN  /\ [i \in DOMAIN s |-> rep.val[s[i]]] = items
      /\ rep.double => \A a \in Range(s) \cup {Stop} : rep.next[rep.prev[a]] = a
=============================================================================
