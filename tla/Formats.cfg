\* Lists of up to seven leaves of two kinds; bytes of two values, four strings
\* and two integers in events, bytes of eight values in memos; ceremonies over
\* the scalars of a group of order five.
SPECIFICATION FormatsSpec
CONSTANTS
  Leaves <- MCLeaves
  MaxLeaves = 7
  Base = 2
  U32 = 1
  U64 = 2
  Strings <- MCStrings
  Numbers = {0, 1}
  None = None
  Byte = 8
  Short = 16
  Long = 40
  EmptyMark = 3
  Tvlv = 4
  BinaryMark = 7
  Reserved = {2, 5, 6}
  KnownTypes = {1, 2}
  Parts <- AllParts
  Pieces <- AllPieces
  TypeFields <- AllTypeFields
  PayloadFields <- AllPayloadFields
  MaxParts = 3
  MaxFields = 7
  MaxBytes = 4
  Order = 5
  Setups <- AllSetups
  MaxEdits = 2
INVARIANTS
  TreesBindLeaves
  PreimageBindsEvent
  PreimagesAgree
  MemosAgree
  SignerIsSound
CHECK_DEADLOCK FALSE
