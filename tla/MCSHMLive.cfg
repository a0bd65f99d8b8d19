SPECIFICATION FairSpec
CONSTANTS
  Readers = {r1, r2}
  OtherGPUReaders = {r2}
  Handles = {h1, h2}
  SwapChainLength = 2
  Feeder = feeder
  Nobody = nobody
  NoHandle = nohandle
  MaxSession = 2
  MaxFrame = 2
PROPERTIES
  EveryPollEnds
CHECK_DEADLOCK FALSE
