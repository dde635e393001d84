SPECIFICATION Spec
CONSTANTS
  Requests <- MCRequests
  Outputs <- MCOutputs
  MessageSize = 2
  ChunkSize = 2
  Chunks = 2
  PeekSize = 3
  MaxFaults = 2
INVARIANTS FramesWhole StreamDecodes
PROPERTY PingsAnswered
CHECK_DEADLOCK FALSE
