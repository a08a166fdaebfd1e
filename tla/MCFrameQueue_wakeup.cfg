\* An Enqueue between a null Dequeue and the Reset.
SPECIFICATION Spec
CONSTANTS
  Producers <- OneTask
  Script <- OneUpload
  Updates <- NoUpdates
  Writers = {w1}
  Free = free
  UIntModulus = 16
  DefaultWindowSize = 4
INVARIANT NoLostWakeup
CHECK_DEADLOCK FALSE
