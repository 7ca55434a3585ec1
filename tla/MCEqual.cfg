SPECIFICATION Spec
CONSTANTS
  Types <- MCGuids
  Val <- MCGuidsVal
  View <- MCView
  Wrapper = {u, v}
  FromQ = {}
  MaxObj = 2
  MaxLen = 2
SYMMETRY Symmetry
INVARIANT EqualAnswers
CHECK_DEADLOCK FALSE
