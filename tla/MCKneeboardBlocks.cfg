SPECIFICATION FairSpec
CONSTANTS
  p1 = p1
  p2 = p2
  a = a
  b = b
  c = c
  d = d
  w = w
  Profiles = {p1, p2}
  FirstProfile = p1
  Files <- MCFiles
  Tabs = {a, b, c, d, w}
  DefaultTabs <- MCDefaultTabs
  NoTab = notab
  Mirrors <- MCMirrors
  MaxViewCount = 2
  UI = {u1, u2}
  FrameLoop = frameloop
  MaxOps = 3
PROPERTY FlushNeverBlocks
CHECK_DEADLOCK FALSE
