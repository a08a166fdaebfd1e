SPECIFICATION Spec
CONSTANTS
  MAX_PAYLOAD_SIZE = 20
  CLIENT_PRELUDE <- Prelude
  Items <- AllItems
  MaxItems = 2
  ChunkSizes = {1, 2, 9, 10, 23}
INVARIANTS FramesAsMeant NothingKept StopsOnlyFor
CHECK_DEADLOCK FALSE
