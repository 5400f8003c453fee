\* The allocator as long as every call has an argument.
SPECIFICATION Spec
CONSTANTS
  Counts <- CallsWithArguments
  MaxRegister = 9
INVARIANTS
  TypeOK
  HeldNotFree
  FreeAscends
  NothingLost
PROPERTY
  PoolSpec
