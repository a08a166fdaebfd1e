SPECIFICATION Spec
CONSTANTS
  INITIAL_WINDOW_SIZE = 1
  WINDOW_SIZE_LIMIT = 3
  MAX_PAYLOAD_SIZE = 1
  HighWaterMark = 2
  UserHighWaterMark = 2
  Plans <- SmallPlans
INVARIANTS FramesReachTheirStream ConnectionCredit StreamCredit AcknowledgedIsApplied NothingLeftBehind ActiveCounted
CHECK_DEADLOCK FALSE
