SPECIFICATION Spec
CONSTANTS
  Files = {1, 2}
  TextFiles = {1}
  Slots = {s1, s2}
  Disposer = d
  MaxOps = 4
INVARIANT KeptTextsShow
CHECK_DEADLOCK FALSE
