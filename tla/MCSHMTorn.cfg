SPECIFICATION Spec
CONSTANTS
  Readers = {r1, r2}
  OtherGPUReaders = {}
  Handles = {h1, h2}
  SwapChainLength = 2
  Feeder = feeder
  Nobody = nobody
  NoHandle = nohandle
  MaxSession = 3
  MaxFrame = 3
INVARIANTS
  NoTornRead
CHECK_DEADLOCK FALSE
