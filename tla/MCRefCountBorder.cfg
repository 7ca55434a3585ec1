SPECIFICATION Spec
CONSTANTS
  Handle = {h1, h2}
  Ref = {q1, q2}
  Obj = {a, b}
  MaxLen = 2
  NULL = NULL
INVARIANTS RefCountExact NoDangling
PROPERTIES OwnershipSpec CascadeEnds
CHECK_DEADLOCK FALSE
