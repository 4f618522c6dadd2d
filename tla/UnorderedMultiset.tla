-------------------------- MODULE UnorderedMultiset ---------------------------
(***************************************************************************)
(* unordered_multiset.hpp over shashtable_exp (hashtable_exp.hpp).  erase(key) *)
(* takes the first of the equal elements, not all of them.                 *)
(***************************************************************************)
EXTENDS Integers, Sequences

CONSTANTS
  Values,     \* the keys, naturals
  MaxSize,    \* bound: the elements of the table
  MaxGiven,   \* bound: the elements a caller hands over at once
  Capacities  \* bound: what rehash and reserve are asked for

VARIABLES rep, items

KeyItself(e) == e
INSTANCE HashTable WITH KeyOf <- KeyItself, Multi <- TRUE

(* hashtable_exp.hpp, from sbucket_exp on. *)
NewTable(c) == Table(c)
Pushed(t, e) == push(t, e)
Counted(t) == add_cnt(t)
Rehashed(t, c) == rehash(t, c)
Found(t, k) == search(t, k)
Popped(t, k, i) == pop(t, k, i)

(* unordered_multiset.hpp. *)
Inserted(t, e) == Counted(Pushed(t, e))
InsertedAll(t, es) == FoldLeft(Inserted, t, es)

insert(es) ==
  /\ rep' = InsertedAll(rep, es)
  /\ items' = With(items, es)

\* The constructors from a range or a list, with room for all of it.
construct(es) ==
  /\ rep' = InsertedAll(NewTable((10 * Len(es) + 6) \div 7), es)
  /\ items' = With([e \in Values |-> 0], es)

\* erase(key): the first node of the chain that has the key.
erase(k) ==
  LET i == Found(rep, k)
  IN  /\ rep' = IF i = 0 THEN rep ELSE Popped(rep, k, i)
      /\ items' = IF i = 0 THEN items ELSE [items EXCEPT ![Chain(rep, k)[i]] = @ - 1]

\* erase(iterator), of any node.
erase_it(k, i) ==
  /\ i \in DOMAIN Chain(rep, k)
  /\ rep' = Popped(rep, k, i)
  /\ items' = [items EXCEPT ![Chain(rep, k)[i]] = @ - 1]

Rehash(c) ==
  /\ rep' = Rehashed(rep, c)
  /\ UNCHANGED items

\* reserve(size): the capacity at which size elements are a load of alpha.
reserve(size) ==
  /\ rep' = Rehashed(rep, (10 * size + 6) \div 7)
  /\ UNCHANGED items

\* clear: a new table of the same capacity takes its place.
clear ==
  /\ rep' = NewTable(rep.capacity)
  /\ items' = [e \in Values |-> 0]

Next ==
  \/ \E es \in Given : insert(es)
  \/ \E es \in BoundedSeq(Values, MaxGiven) : construct(es)
  \/ \E k \in Keys : erase(k)
  \/ \E k \in Keys, i \in 1..MaxSize : erase_it(k, i)
  \/ \E c \in Capacities : Rehash(c)
  \/ \E c \in Capacities : reserve(c)
  \/ clear

-----------------------------------------------------------------------------
\* Every element is there once for each time it was put in, and insert finds it.
IsTable == HoldsItsKeys /\ FindsTheInserted(Inserted)
=============================================================================
