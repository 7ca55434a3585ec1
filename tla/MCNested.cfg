SPECIFICATION Spec
CONSTANTS
  Types <- MCTypes
  Val <- MCVal
  View <- MCView
  Wrapper = {u}
  FromQ = {"atom", "vector", "list"}
  MaxObj = 3
  MaxLen = 2
INVARIANT Homogeneous
CHECK_DEADLOCK FALSE
