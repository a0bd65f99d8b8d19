SPECIFICATION FairSpec
CONSTANTS
  Threads = {ui, cef}
  Receivers = {r1}
  AllEvents = {e1}
  Nothing = nothing
  MaxCalls = 5
  MaxFrames = 4
INVARIANTS
  TypeOK
  CountIsExact
  QuietOnceSignalled
  NothingStranded
  NeverFatal
  IInv
PROPERTIES
  ShutdownCompletes
  QueuesDrain
CHECK_DEADLOCK FALSE
