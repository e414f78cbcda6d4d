SPECIFICATION Spec
CONSTANTS
  T = {a, b, c}
  Hole = Hole
  Capacity = 3
INVARIANT IndicesInOrder
PROPERTY ImplementsStagedQueue
