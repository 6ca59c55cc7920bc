SPECIFICATION Spec
CONSTANTS
  top = top
  child = child
  v = v
  w = w
  Top = top
  Child <- MCNone
  Key <- MCKey3
  Value = {v}
  NoValue = NoValue
  Prefix <- MCPrefix3
  Backends <- MCBackends3
INVARIANTS NextKeyIsLeast
CONSTRAINT OnePassCalls
CHECK_DEADLOCK FALSE
