SPECIFICATION FairSpec
CONSTANTS
  Views = {v1, v2}
  Primary = primary
  Nobody = nobody
  FirstList <- MCFirstList
  Lists <- MCLists
  MaxOps = 2
INVARIANTS
  IInv
  ScriptsInStep
  ViewsOnLivePages
PROPERTY
  ScriptsAndViewsSettle
CHECK_DEADLOCK FALSE
