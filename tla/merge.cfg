SPECIFICATION Spec
CONSTANTS
  Pieces <- MCPieces
  Nobody = Nobody
  Missing = Missing
  Build = "wrap"
  U8 = 256
PROPERTIES
  Reassembled
CHECK_DEADLOCK FALSE
