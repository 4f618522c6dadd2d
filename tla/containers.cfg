SPECIFICATION Spec
CONSTANTS
  Kinds = {"set", "map", "multiset", "multimap", "rbtree", "avl_tree", "binary_search_tree",
           "trie", "unordered_map", "unordered_set", "unordered_multimap", "unordered_multiset",
           "hashtable_with_tree", "heap", "vector", "string", "list", "deque", "buffer",
           "ringbuffer", "spinlock_queue", "algorithm"}
  Values = {1, 2}
  Default = 1
  Raw = 0
  InitSize = 2
  Spill = 2
  MaxSize = 5
  MaxAppend = 3
  N = 4
  Base = {0, 10}
  Threads = {"t1", "t2"}
  Asked = 3
  Width = 3
  Numbers = {1, 2, 3}
  MaxHeap = 6
  BuffSizes = {0, 3}
  MaxCells = 5
  MaxText = 6
  MaxInsert = 3
  MaxNodes = 4
INVARIANTS
  TreesHoldInOrder
  TreesKeepTheirShape
  TablesHoldTheirKeys
  HeapsAreOrdered
  
  DequesAreSequences
  FirstInFirstOut
  AlgorithmsAreRight
CHECK_DEADLOCK FALSE
