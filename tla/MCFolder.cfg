SPECIFICATION FairSpec
CONSTANTS
  Files = {1, 2, 3}
  TextFiles = {1, 3}
  Slots = {s1, s2}
  Disposer = d
  MaxOps = 4
INVARIANTS
  IInv
  CaughtUp
  EmptyOnceDisposed
  NothingLost
PROPERTY
  ScansEnd
CHECK_DEADLOCK FALSE
