--------------------------------- MODULE Trie ---------------------------------
(***************************************************************************)
(* trie.hpp: a tree of letters that counts the words put in.  A node is    *)
(* named by the path to it, so the trie is a function from the paths that  *)
(* have a node to the node's two counters.  erase() takes no node away.    *)
(*                                                                         *)
(* end_count is what the words are counted with; path_count is also moved  *)
(* by queries, and by an erase() that finds a letter missing.  Counters    *)
(* are unsigned: an erase() of a word that is not there, where its last    *)
(* node is, would wrap end_count, so callers do not (Erasable).            *)
(***************************************************************************)
EXTENDS Integers, Sequences, FiniteSets, SequencesExt

CONSTANTS
  Letters,
  MaxWord,   \* bound: the letters of a word
  MaxWords,  \* bound: the words in the trie
  MaxPath    \* bound: a path_count

VARIABLES rep,    \* the trie
          items   \* ghost: how many times each word is in

Words == BoundedSeq(Letters, MaxWord)
NewNode == [path_count |-> 0, end_count |-> 0]
Root == <<>>

\* The nodes above and at the end of w, and the longest that there is.
PathTo(w) == {SubSeq(w, 1, i) : i \in 0..Len(w)}
Reached(t, w) == CHOOSE p \in PathTo(w) \cap DOMAIN t :
                   \A q \in PathTo(w) \cap DOMAIN t : Len(q) <= Len(p)

Count(t, nodes, n) == [p \in DOMAIN t |-> IF p \in nodes THEN [t[p] EXCEPT !.path_count = @ + n] ELSE t[p]]

\* insert: the missing children are created on the way down.
Inserted(t, w) ==
  LET t1 == [p \in DOMAIN t \cup PathTo(w) |-> IF p \in DOMAIN t THEN t[p] ELSE NewNode]
  IN  [Count(t1, PathTo(w), 1) EXCEPT ![w].end_count = @ + 1]

\* rollback: the nodes that were passed, without the one where it stopped.
rollback(t, p) == Count(t, PathTo(p) \ {p}, 1)

\* erase: down from the root, until a child is missing.
Erased(t, w) ==
  LET p == Reached(t, w)
      down == Count(t, PathTo(p), -1)
  IN  IF p = w THEN [down EXCEPT ![w].end_count = @ - 1] ELSE rollback(down, p)

\* count and count_pref: path_count of the nodes left behind goes up.
Visited(t, w) ==
  LET p == Reached(t, w) IN Count(t, IF p = w THEN PathTo(w) \ {w} ELSE PathTo(p), 1)
count(t, w) == IF Reached(t, w) = w THEN t[w].end_count ELSE 0
count_pref(t, w) == IF Reached(t, w) = w THEN t[w].path_count ELSE 0

\* get_suc: the words below node p, which is not one of them, as they are met:
\* a bag, for the order of the children is the hash table's.
RECURSIVE get_suc(_, _)
get_suc(t, p) ==
  LET child == {Append(p, c) : c \in Letters} \cap DOMAIN t
      below == [q \in child |-> get_suc(t, q)]
  IN  [w \in Words |-> LET q == SubSeq(w, 1, Len(p) + 1)
                       IN  IF Len(w) <= Len(p) \/ q \notin child THEN 0
                           ELSE IF w = q THEN t[q].end_count ELSE below[q][w]]

\* get_pref_with, whose "return 0" is an empty vector.
get_pref_with(t, w) ==
  IF Reached(t, w) = w THEN get_suc(t, w) ELSE [v \in Words |-> 0]

RECURSIVE depth(_, _)
depth(t, p) ==
  LET child == {Append(p, c) : c \in Letters} \cap DOMAIN t
      deepest == {depth(t, q) : q \in child}
  IN  IF child = {} THEN 1 ELSE 1 + CHOOSE d \in deepest : \A e \in deepest : e <= d

-----------------------------------------------------------------------------
Init ==
  /\ rep = (Root :> NewNode)
  /\ items = [w \in Words |-> 0]

Bounded(t) == \A p \in DOMAIN t : t[p].path_count \in -MaxPath..MaxPath

RECURSIVE Total(_, _)
Total(bag, S) == IF S = {} THEN 0 ELSE LET w == CHOOSE x \in S : TRUE IN bag[w] + Total(bag, S \ {w})

insert(w) ==
  /\ Total(items, Words) < MaxWords
  /\ rep' = Inserted(rep, w)
  /\ items' = [items EXCEPT ![w] = @ + 1]

\* A word that is there, or one of whose letters is missing.
Erasable(w) == items[w] > 0 \/ Reached(rep, w) # w

erase(w) ==
  /\ Erasable(w)
  /\ rep' = Erased(rep, w)
  /\ items' = [items EXCEPT ![w] = IF @ > 0 THEN @ - 1 ELSE 0]

\* count, count_pref or get_pref_with.
query(w) ==
  /\ rep' = Visited(rep, w)
  /\ UNCHANGED items

\* reset, with the trie assigned to, and a copy of it taken.
reset ==
  /\ rep' = (Root :> NewNode)
  /\ items' = [w \in Words |-> 0]

Next ==
  \/ /\ \/ \E w \in Words : insert(w)
        \/ \E w \in Words : erase(w)
        \/ \E w \in Words : query(w)
     /\ Bounded(rep')
  \/ reset

-----------------------------------------------------------------------------
\* Every word is counted as often as it is in, whatever was looked up, erased
\* in vain or shares its letters; a prefix gives the longer words below it, each
\* as often as it is in; and no word is deeper than the trie says.
HoldsWords ==
  /\ \A w \in Words :
       /\ count(rep, w) = items[w]
       /\ get_pref_with(rep, w) =
            [v \in Words |-> IF w \in PathTo(v) \ {v} THEN items[v] ELSE 0]
       /\ items[w] > 0 => depth(rep, Root) > Len(w)
=============================================================================
