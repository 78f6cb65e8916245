SPECIFICATION Spec
CONSTANTS
  Chars <- EdgeChars
  MaxLen = 4
  Unset = Unset
INVARIANT FillsBuffer
CHECK_DEADLOCK FALSE
