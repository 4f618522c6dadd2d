SPECIFICATION Spec
CONSTANTS
  Kinds = {"avl_tree"}
  Values = {1, 2}
  Default = 1
  Raw = 0
  InitSize = 2
  Spill = 2
  MaxSize = 5
  MaxAppend = 3
  N = 4
  Base = {0, 10}
  Threads = {"t1", "t2"}
  Asked = 3
  Width = 3
  Numbers = {1, 2, 3}
  MaxHeap = 6
  BuffSizes = {0, 3}
  MaxCells = 5
  MaxText = 6
  MaxInsert = 3
  MaxNodes = 4
INVARIANT Balanced
CHECK_DEADLOCK FALSE
