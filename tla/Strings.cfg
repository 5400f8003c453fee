CONSTANTS
  Value = {r1, r2}
  Character <- MCCharacter
  Literal <- MCLiteral
  SMALLEST_STRING_BUFFER_LENGTH = 16
  MaxChars <- MCMaxChars
  r1 = r1
  r2 = r2
SPECIFICATION Spec
INVARIANTS TypeOK CursorAtCharacter
PROPERTIES StringsAsSpecified OverrunsOnlyItself
