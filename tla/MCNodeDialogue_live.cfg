SPECIFICATION FairSpec
CONSTANTS
  INITIAL_WINDOW_SIZE = 1
  WINDOW_SIZE_LIMIT = 3
  MAX_PAYLOAD_SIZE = 1
  HighWaterMark = 2
  UserHighWaterMark = 2
  Chunks = {1, 2}
  MaxBytes <- LongAndShort
  Resetters = {}
  Windows = {}
  MaxSettings = 1
  Limits = {2}

PROPERTIES BodyArrives
CHECK_DEADLOCK FALSE
