\* One upload, two WINDOW_UPDATE frames, two Write tasks, as after a second
\* Connect; every task scheduled fairly.
SPECIFICATION FairSpec
CONSTANTS
  Producers <- OneTask
  Script <- ShortUpload
  Updates <- TwoUpdates
  Writers = {w1, w2}
  Free = free
  UIntModulus = 16
  DefaultWindowSize = 4
PROPERTIES ArmedDrains CompleteEndsWriters
CHECK_DEADLOCK FALSE
