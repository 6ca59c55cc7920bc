SPECIFICATION Spec
CONSTANTS
  top = top
  child = child
  v = v
  w = w
  Top = top
  Child <- MCChild
  Key <- MCKey1
  Value = {v}
  NoValue = NoValue
  Prefix <- MCPrefix1
  Backends <- MCBackends1
INVARIANTS ErrorLeavesOverlay
