SPECIFICATION Spec
CONSTANTS
  INITIAL_WINDOW_SIZE = 2
  WINDOW_SIZE_LIMIT = 3
  MAX_PAYLOAD_SIZE = 1
  HighWaterMark = 2
  UserHighWaterMark = 2
  Chunks = {1, 2}
  MaxBytes <- LongAndShort
  Resetters = {"A"}
  Windows = {1}
  MaxSettings = 1
  Limits = {2}
INVARIANTS BytesInOrder WholeBody CreditConserved NoAssertionFails ThrowsOnlyAfterReset StatesDual
PROPERTIES ErrorsAreLateFrames
CHECK_DEADLOCK FALSE
