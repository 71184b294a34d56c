CONSTANTS
  MaxBytes = 3
  ChunkSizes <- MCChunkSizes
  MaxPosition = 5
SPECIFICATION Spec
\* The model stops when the attachment is over and the bound on PTY bytes reached.
CHECK_DEADLOCK FALSE
INVARIANTS ByteAccounting NoLostWakeup NothingSkipped
PROPERTIES CutOnlyWhenBehind RunnerStops DeliveredOrEnded HandlerReturns StreamImplemented
