CONSTANTS
  Value = {r1, r2}
  Character <- MCCharacter
  Literal <- MCLiteral
  SMALLEST_STRING_BUFFER_LENGTH = 32
  MaxChars <- AppendMaxChars
  r1 = r1
  r2 = r2
SPECIFICATION Spec
INVARIANT BufferHolds
