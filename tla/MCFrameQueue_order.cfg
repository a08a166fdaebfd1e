\* An upload and an acknowledgement; two Write tasks, as after a second Connect.
SPECIFICATION Spec
CONSTANTS
  Producers <- UploadTasks
  Script <- UploadScript
  Updates <- NoUpdates
  Writers = {w1, w2}
  Free = free
  UIntModulus = 16
  DefaultWindowSize = 4
INVARIANTS QueueInv ExactlyOnce
PROPERTIES UrgentFirst ImplementsChannels
CHECK_DEADLOCK FALSE
