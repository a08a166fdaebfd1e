\* Three blocks: both peers live on, or one of them is new for each block.
SPECIFICATION Spec
CONSTANTS
  Fields <- MCFields
  TextLength <- MCTextLength
  WireLength <- MCWireLength
  StaticTable <- MCStaticTable
  Bucket <- MCBucket
  HEADER_ENTRY_OVERHEAD = 2
  EMPTY = EMPTY
  MaxIndex = 2147483647
  MaxHeaderSize = 9
  Renewals = {"none", "encoder", "decoder"}
  HeaderTableSize = 17
  Capacities = {0, 4, 17}
  MaxFields = 2
  MaxBlocks = 3
  MaxChanges = 2
INVARIANTS LinkedHashMap TablesAgree DeliversPrefix LossReported TruncatesOnlyLarge Decodable
CHECK_DEADLOCK FALSE
