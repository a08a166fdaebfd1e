\* Every sequence of calls on a table of up to eight slots.
SPECIFICATION FairSpec
CONSTANTS
  Fields <- MCFields
  FieldSize <- MCFieldSize
  Capacities <- MCCapacities
  HEADER_ENTRY_OVERHEAD = 2
  Null = Null
INVARIANTS RingInv
PROPERTIES ImplementsHPackTable CallsEnd
