SPECIFICATION Spec
CONSTANTS
  Threads = {ui, cef}
  Receivers = {r1}
  AllEvents = {e1}
  Nothing = nothing
  MaxCalls = 5
  MaxFrames = 4
PROPERTY RemovedMeansQuiet
CHECK_DEADLOCK FALSE
