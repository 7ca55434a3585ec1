SPECIFICATION Spec
CONSTANTS
  Types <- MCTypes
  Val <- MCVal
  View <- MCView
  Wrapper = {u, v, w}
  FromQ = {"atom"}
  MaxObj = 3
  MaxLen = 2
SYMMETRY Symmetry
INVARIANTS TypeOK Homogeneous PairsExist EqualIsRight Iteration SymbolOrder
CHECK_DEADLOCK FALSE
