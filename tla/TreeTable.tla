------------------------------ MODULE TreeTable ------------------------------
(***************************************************************************)
(* hashtable_with_tree (hashtable_wtot.hpp): a hash table whose buckets    *)
(* are multimaps, the trees of module Multimap, rather than chains.  An    *)
(* iterator runs through one tree after the other.  Equal keys are kept,   *)
(* and which of them find meets, or erase takes, depends on the shape of   *)
(* the bucket's tree.                                                      *)
(***************************************************************************)
EXTENDS Integers, Sequences, SequencesExt

CONSTANTS
  Values,     \* the pairs of a key, a natural, and a value
  Default,    \* the value value_type{}
  MaxSize,    \* bound: the elements of the table
  MaxGiven,   \* bound: the elements a caller hands over at once
  Capacities  \* bound: what rehash is asked for

VARIABLES rep,    \* the table, its buckets trees
          items   \* ghost: how many times it holds each element

First(e) == e[1]
Bucket == INSTANCE Multimap WITH MaxNodes <- MaxSize
Chains == INSTANCE HashTable WITH KeyOf <- First, Multi <- TRUE
Keys == Chains!Keys

Table(c) ==
  [capacity |-> Chains!get_next_primer(c), size |-> 0,
   buckets |-> [b \in 1..Chains!get_next_primer(c) |-> Bucket!EmptyTree(Bucket!black)]]

BucketOf(t, k) == t.buckets[Chains!hash(t, k) + 1]
SetBucket(t, k, tree) == [t EXCEPT !.buckets[Chains!hash(t, k) + 1] = Bucket!Tidy(tree)]

search(t, k) == Bucket!Found(BucketOf(t, k), k)
push(t, e) == SetBucket(t, First(e), Bucket!Inserted(BucketOf(t, First(e)), e))

\* pop(key): erase(key) of the multimap; pop(node*) goes by the node's key too.
pop(t, k) ==
  [SetBucket(t, k, Bucket!Erased(BucketOf(t, k), search(t, k))) EXCEPT !.size = @ - 1]

\* Moving a bucket's elements into the table t: its front is pushed and popped.
RECURSIVE Drained(_, _)
Drained(t, tree) ==
  IF tree.root = Bucket!Null THEN t
  ELSE LET front == Bucket!begin(tree)
       IN  Drained(push(t, tree.val[front]), Bucket!EraseIt(tree, front)[1])

\* rehash_hard: every bucket is copied, and the copy emptied into a new table.
rehash_hard(t, c) ==
  LET copies == [b \in DOMAIN t.buckets |-> Bucket!Copied(t.buckets[b])]
  IN  [FoldLeft(Drained, Table(c), copies) EXCEPT !.size = t.size]
rehash(t, c) == rehash_hard(t, Chains!RoomFor(t.size, c))

add_cnt(t) ==
  LET t1 == [t EXCEPT !.size = @ + 1]
  IN  IF 10 * t1.size > 7 * t1.capacity THEN rehash(t1, t1.capacity + 1) ELSE t1

Inserted(t, e) == add_cnt(push(t, e))

\* begin(), and ++ to the next node of the tree or the first of the next bucket.
Iterate(t) ==
  FlattenSeq([b \in DOMAIN t.buckets |->
    [i \in DOMAIN Bucket!Iterate(t.buckets[b]) |->
       t.buckets[b].val[Bucket!Iterate(t.buckets[b])[i]]]])

-----------------------------------------------------------------------------
Init ==
  /\ rep = Table(0)
  /\ items = [e \in Values |-> 0]

insert(e) ==
  /\ rep.size < MaxSize
  /\ rep' = Inserted(rep, e)
  /\ items' = Chains!With(items, <<e>>)

construct(es) ==
  /\ rep' = FoldLeft(Inserted, Table((10 * Len(es) + 6) \div 7), es)
  /\ items' = Chains!With([e \in Values |-> 0], es)

\* operator[]: get() adds the key with value_type{} if search does not find it.
subscript(k) ==
  IF search(rep, k) = Bucket!Null THEN insert(<<k, Default>>) ELSE UNCHANGED <<rep, items>>

\* erase(key); erase(iterator) takes the same element, whichever of the equal
\* ones the iterator refers to.
erase(k) ==
  /\ search(rep, k) # Bucket!Null
  /\ rep' = pop(rep, k)
  /\ items' = [items EXCEPT ![BucketOf(rep, k).val[search(rep, k)]] = @ - 1]

Rehash(c) ==
  /\ rep' = rehash(rep, c)
  /\ UNCHANGED items

Next ==
  \/ \E e \in Values : insert(e)
  \/ \E es \in BoundedSeq(Values, MaxGiven) : construct(es)
  \/ \E k \in Keys : subscript(k)
  \/ \E k \in Keys : erase(k)
  \/ \E c \in Capacities : Rehash(c)

-----------------------------------------------------------------------------
\* An iterator meets every element as often as it was put in and not taken out,
\* although a rehash moves it from a tree to another, and find sees its key.
IsTable ==
  LET all == Iterate(rep)
  IN  /\ \A e \in Values : Len(SelectSeq(all, LAMBDA d : d = e)) = items[e]
      /\ \A k \in Keys : search(rep, k) # Bucket!Null <=>
                         \E e \in Values : First(e) = k /\ items[e] > 0
      /\ rep.size = Len(all)
      /\ 10 * rep.size <= 7 * rep.capacity
=============================================================================
