------------------------------- MODULE HashTable -------------------------------
(***************************************************************************)
(* hashtable.hpp and hashtable_exp.hpp, the chained tables below the       *)
(* unordered containers: capacity_ chains, the first of a chain being the  *)
(* last that was pushed, a prime capacity that grows when the load passes  *)
(* alpha = 0.7, and after the last chain a dummy one at which iterators    *)
(* stop.  Each header writes the table twice, with values and without      *)
(* (shashtable).  In the _exp tables, below the multi containers, push     *)
(* does not look for the key (Multi).                                      *)
(***************************************************************************)
EXTENDS Integers, Sequences, FiniteSets, SequencesExt

CONSTANTS
  Values,     \* the elements: keys, or pairs of a key and a value
  KeyOf(_),   \* an element's key, a natural: hash_functor of an integer is the integer
  MaxSize,    \* bound: the elements of a table
  MaxGiven,   \* bound: the elements a caller hands over at once
  Capacities, \* bound: what rehash is asked for
  Multi       \* TRUE: hashtable_exp.hpp, FALSE: hashtable.hpp

VARIABLES rep,    \* the table
          items   \* ghost: how many times it holds each element

Keys == {KeyOf(e) : e \in Values}
primer_list == <<5, 11, 53>>   \* the first of the thirty

get_next_primer(n) == SelectSeq(primer_list, LAMBDA p : p >= n)[1]

\* A new table.  The chain of hash h is buckets[h + 1].
Table(c) ==
  [capacity |-> get_next_primer(c), size |-> 0,
   buckets |-> [b \in 1..get_next_primer(c) |-> <<>>]]

hash(t, k) == k % t.capacity
Chain(t, k) == t.buckets[hash(t, k) + 1]
SetChain(t, k, chain) == [t EXCEPT !.buckets[hash(t, k) + 1] = chain]

\* What begin(), ++ and end() run through: the chains one after the other.
Iterate(t) == FlattenSeq(t.buckets)

\* bucket::search, as a position in the chain, 0 for nullptr.
search(t, k) == SelectInSeq(Chain(t, k), LAMBDA e : KeyOf(e) = k)

\* A slip to rule out: an element with the same key is not looked for.
PushAgain(t, e) == SetChain(t, KeyOf(e), <<e>> \o Chain(t, KeyOf(e)))

\* bucket::push.
push(t, e) ==
  LET k == KeyOf(e)
      i == search(t, k)
  IN  IF ~Multi /\ i # 0 THEN SetChain(t, k, [Chain(t, k) EXCEPT ![i] = e])
      ELSE SetChain(t, k, <<e>> \o Chain(t, k))

\* rehash_hard: every element, in the order of iteration, into a new table.
rehash_hard(t, c) == [FoldLeft(push, Table(c), Iterate(t)) EXCEPT !.size = t.size]

\* rehash: the smallest prime not below c at which the load is under alpha.
RoomFor(size, c) == SelectSeq(primer_list, LAMBDA p : p >= c /\ 10 * size < 7 * p)[1]
rehash(t, c) == rehash_hard(t, RoomFor(t.size, c))

\* add_cnt after a node was added; one rehash is enough for the loop to end.
add_cnt(t) ==
  LET t1 == [t EXCEPT !.size = @ + 1]
  IN  IF 10 * t1.size > 7 * t1.capacity THEN rehash(t1, t1.capacity + 1) ELSE t1

\* bucket::pop of the node at position i of k's chain.
pop(t, k, i) == [SetChain(t, k, RemoveAt(Chain(t, k), i)) EXCEPT !.size = @ - 1]

Init ==
  /\ rep = Table(0)
  /\ items = [e \in Values |-> 0]

-----------------------------------------------------------------------------
(* What is expected of a table, and how a caller sees it change. *)

\* The bag once e is in it: in place of the element with its key, or besides.
Mapped(bag, e) ==
  [d \in Values |-> IF d = e THEN IF Multi THEN bag[d] + 1 ELSE 1
                    ELSE IF KeyOf(d) = KeyOf(e) /\ ~Multi THEN 0
                    ELSE bag[d]]
With(bag, es) == FoldLeft(Mapped, bag, es)
Given == {es \in BoundedSeq(Values, MaxGiven) : rep.size + Len(es) <= MaxSize}

\* An iterator meets what was put in and not taken out, as often as it was, and
\* find and count see each of it; size_ counts it and the load is at most alpha.
HoldsItsKeys ==
  /\ \A e \in Values : Len(SelectSeq(Iterate(rep), LAMBDA d : d = e)) = items[e]
  /\ \A k \in Keys : search(rep, k) # 0 <=> \E e \in Values : KeyOf(e) = k /\ items[e] > 0
  /\ \A k \in Keys : ~Multi => Len(SelectSeq(Iterate(rep), LAMBDA e : KeyOf(e) = k)) <= 1
  /\ rep.size = Len(Iterate(rep))
  /\ 10 * rep.size <= 7 * rep.capacity

\* insert returns find(key), which is the new element although the table may have
\* been rehashed; with equal keys it is, after a rehash, only one of them.
FindsTheInserted(inserted(_, _)) ==
  rep.size < MaxSize =>
    \A e \in Values :
      LET t == inserted(rep, e)
          found == Chain(t, KeyOf(e))[search(t, KeyOf(e))]
      IN  found = e \/ (Multi /\ t.capacity # rep.capacity /\ KeyOf(found) = KeyOf(e))
=============================================================================
