SPECIFICATION Spec
CONSTANTS
  Plain <- MCPlain
  Huffman <- MCHuffman
  Texts <- MCTexts
  Lower <- MCLower
  ColonNames = {":p"}
  Inherited = {"constructor"}
  StaticTable <- MCStaticTable
  DEFAULT_HEADER_TABLE_LIMIT = 110
  MAX_HTTP_PAYLOAD_SIZE = 8
  HeaderSets <- MCHeaderSets
  Limits = {72, 150}
  MaxBlocks = 3
  MaxSettings = 2
INVARIANTS HeadersArrive SecretsNotHeld LimitsKept TablesAgree
CHECK_DEADLOCK FALSE
