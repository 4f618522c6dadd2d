----------------------------- MODULE MCContainers -----------------------------
(***************************************************************************)
(* The containers, and the algorithms on ranges, each on its own small     *)
(* instance.  They do not interact: the initial state chooses which of     *)
(* them runs, and rep and items are its representation and what it should  *)
(* hold.  All but spinlock_queue have one owner.                           *)
(***************************************************************************)
EXTENDS LinearContainers, Sequences, FiniteSets

CONSTANT Kinds   \* which of the containers run

KeyItself(v) == v
Less(a, b) == a < b

OrderedSet == INSTANCE Set WITH Values <- 1..6, MaxNodes <- 6, MaxGiven <- 2
OrderedMap == INSTANCE Map WITH Values <- (1..4) \X {1, 2}, MaxNodes <- 5, MaxGiven <- 2
OrderedMultiset == INSTANCE Multiset WITH Values <- 1..3, MaxNodes <- 8, MaxGiven <- 2
OrderedMultimap == INSTANCE Multimap WITH Values <- (1..2) \X {1, 2}, MaxNodes <- 5, MaxGiven <- 2
RB == INSTANCE RbTree WITH Values <- 1..3, KeyOf <- KeyItself, Unset <- 0, MaxNodes <- 8, ByNode <- FALSE
Avl == INSTANCE AvlTree WITH Values <- 1..3, KeyOf <- KeyItself, Unset <- 0, MaxNodes <- 8
Bst == INSTANCE BinarySearchTree WITH Values <- 1..3, KeyOf <- KeyItself, Unset <- 0, MaxNodes <- 5
Dictionary == INSTANCE Trie WITH Letters <- {"a", "b"}, MaxWord <- 2, MaxWords <- 2, MaxPath <- 2
HashMap == INSTANCE UnorderedMap WITH Values <- {0, 5, 6, 11, 16} \X {0, 1}, Default <- 0,
                                      MaxSize <- 5, MaxGiven <- 2, Capacities <- {1, 6}
HashSet == INSTANCE UnorderedSet WITH Values <- {0, 5, 6, 11, 16}, MaxSize <- 5, MaxGiven <- 2,
                                      Capacities <- {1, 6}
HashMultimap == INSTANCE UnorderedMultimap WITH Values <- {0, 5, 11} \X {0, 1}, Default <- 0,
                                                MaxSize <- 4, MaxGiven <- 2, Capacities <- {1, 6}
HashMultiset == INSTANCE UnorderedMultiset WITH Values <- {0, 5, 11}, MaxSize <- 5, MaxGiven <- 2,
                                                Capacities <- {1, 6}
TreeBuckets == INSTANCE TreeTable WITH Values <- {0, 5, 10} \X {0, 1}, Default <- 0,
                                       MaxSize <- 4, MaxGiven <- 2, Capacities <- {1, 6}
Blocks == INSTANCE Deque WITH BlkSize <- 4, MaxCapacity <- 7, MaxSize <- 5
Ranges == INSTANCE Algorithm WITH Values <- 1..3, MaxLen <- 4, MaxOther <- 3, less <- Less

Init ==
  /\ kind \in Kinds
  /\ CASE kind = "set" -> OrderedSet!Init
       [] kind = "map" -> OrderedMap!Init
       [] kind = "multiset" -> OrderedMultiset!Init
       [] kind = "multimap" -> OrderedMultimap!Init
       [] kind = "rbtree" -> RB!Init
       [] kind = "avl_tree" -> Avl!Init
       [] kind = "binary_search_tree" -> Bst!Init
       [] kind = "trie" -> Dictionary!Init
       [] kind = "unordered_map" -> HashMap!Init
       [] kind = "unordered_set" -> HashSet!Init
       [] kind = "unordered_multimap" -> HashMultimap!Init
       [] kind = "unordered_multiset" -> HashMultiset!Init
       [] kind = "hashtable_with_tree" -> TreeBuckets!Init
       [] kind = "deque" -> Blocks!Init
       [] kind \in LinearKinds -> LinearInit
       [] kind = "algorithm" -> Ranges!Init

Next ==
  /\ UNCHANGED kind
  /\ \/ kind = "set" /\ OrderedSet!Next
     \/ kind = "map" /\ OrderedMap!Next
     \/ kind = "multiset" /\ OrderedMultiset!Next
     \/ kind = "multimap" /\ OrderedMultimap!Next
     \/ kind = "rbtree" /\ RB!TreeNext
     \/ kind = "avl_tree" /\ Avl!Next
     \/ kind = "binary_search_tree" /\ Bst!Next
     \/ kind = "trie" /\ Dictionary!Next
     \/ kind = "unordered_map" /\ HashMap!Next
     \/ kind = "unordered_set" /\ HashSet!Next
     \/ kind = "unordered_multimap" /\ HashMultimap!Next
     \/ kind = "unordered_multiset" /\ HashMultiset!Next
     \/ kind = "hashtable_with_tree" /\ TreeBuckets!Next
     \/ kind = "deque" /\ Blocks!Next
     \/ LinearNext
     \/ kind = "algorithm" /\ Ranges!Next

Spec == Init /\ [][Next]_vars

\* Every search tree holds, in order, the keys that were put in and not taken
\* out, and search finds them; the iterators of the ordered containers run
\* through exactly those, lower_bound and upper_bound are right, erasing by an
\* iterator returns the next one.  A trie counts the words that are in it.
TreesHoldInOrder ==
  /\ kind = "set" => OrderedSet!IsSet
  /\ kind = "map" => OrderedMap!IsMap
  /\ kind = "multiset" => OrderedMultiset!IsMultiset
  /\ kind = "multimap" => OrderedMultimap!IsMultimap
  /\ kind = "rbtree" => RB!Holds
  /\ kind = "avl_tree" => Avl!Holds
  /\ kind = "binary_search_tree" => Bst!Holds
  /\ kind = "trie" => Dictionary!HoldsWords

\* The red-black trees keep their colours right, the AVL tree the heights it
\* stores, and both the parent pointers by which they climb.  Inserting into a
\* multiset or multimap and erasing from it move no other element: iterators to
\* them stay good.
TreesKeepTheirShape ==
  /\ kind = "set" => OrderedSet!RedBlack
  /\ kind = "map" => OrderedMap!RedBlack
  /\ kind = "multiset" => OrderedMultiset!RedBlack
  /\ kind = "multimap" => OrderedMultimap!RedBlack
  /\ kind = "rbtree" => RB!RedBlack
  /\ kind = "avl_tree" => Avl!HeightsAreReal
  /\ kind = "multiset" => OrderedMultiset!NodesStay
  /\ kind = "multimap" => OrderedMultimap!NodesStay

\* The AVL tree is balanced.
Balanced == kind = "avl_tree" => Avl!Balanced

\* The hash tables hold every element once, in the chain where it is looked for,
\* and insert returns the element that was inserted though a rehash moved it.
TablesHoldTheirKeys ==
  /\ kind = "unordered_map" => HashMap!IsTable
  /\ kind = "unordered_set" => HashSet!IsTable
  /\ kind = "unordered_multimap" => HashMultimap!IsTable
  /\ kind = "unordered_multiset" => HashMultiset!IsTable
  /\ kind = "hashtable_with_tree" => TreeBuckets!IsTable

\* A deque holds the elements it was given in their order, however its blocks
\* filled, moved or were split, and its iterators run through them.
DequesAreSequences == kind = "deque" => Blocks!IsSequence

\* The algorithms return what their definitions ask for, of every range.
AlgorithmsAreRight == kind = "algorithm" => Ranges!AreRight
=============================================================================
