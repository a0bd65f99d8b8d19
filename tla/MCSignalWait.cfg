SPECIFICATION FairSpec
CONSTANTS
  WaitCount = 2
INVARIANTS
  IInv
  NotUsedAfterDestruction
  ResultIsTrue
  AssertsOnlyWhenRaced
PROPERTY
  EndsWhenSignalledOrStopped
CHECK_DEADLOCK FALSE
