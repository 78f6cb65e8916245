SPECIFICATION Spec
CONSTANTS
  Chars <- EdgeChars
  MaxLen = 4
  Unset = Unset
INVARIANTS
  ReadsInBounds
  AcceptsExactlyHex
  DecodesWhatToHexEncodes
CHECK_DEADLOCK FALSE
