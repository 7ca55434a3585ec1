SPECIFICATION CSpec
CONSTANTS
  p1 = p1
  p2 = p2
  a1 = a1
  a2 = a2
  Scratch = local
  Value = value
  Result = result
  Handle = {p1, p2, local, value}
  Ref = {a1, a2, result, v}
  Var = {v}
  Obj = {a, b, c}
  MaxLen = 2
  MaxBody = 3
  NULL = NULL
  Param <- MCParam
  Arg <- MCArg
INVARIANTS CallBalanced NoGarbage BorrowsValid
PROPERTY CallReturns
