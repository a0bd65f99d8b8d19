SPECIFICATION Spec
CONSTANTS
  Readers = {r1, r2}
  OtherGPUReaders = {}
  Handles = {h1, h2}
  SwapChainLength = 2
  Feeder = feeder
  Nobody = nobody
  NoHandle = nohandle
  MaxSession = 3
  MaxFrame = 3
SYMMETRY Symmetry
INVARIANTS
  TypeOK
  MutexHeld
  IInv
  ReadsPublishedObject
  DrawsPublishedObject
  FenceWillBeSignalled
  TornOnlyWhenLapped
  FaultsExplained
PROPERTIES
  SlotsStableInSession
  FrameNumbersGrow
  ImplementsMailbox
CHECK_DEADLOCK FALSE
