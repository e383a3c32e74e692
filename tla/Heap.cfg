\* Three levels of heap, the last one with a left child without a right one.
SPECIFICATION Spec
CONSTANTS
  NULL = NULL
  Elem <- MCElem
  Capacity = 6
INVARIANT
  HeadIsLeast
PROPERTIES
  ContentsKept
  ImplementsPQueue
