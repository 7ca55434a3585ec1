SPECIFICATION Spec
CONSTANTS
  Handle = {h1, h2, h3}
  Ref = {}
  Obj = {a, b, c}
  MaxLen = 2
  NULL = NULL
SYMMETRY Symmetry
INVARIANTS TypeOK RefCountExact NoDangling
CHECK_DEADLOCK FALSE
