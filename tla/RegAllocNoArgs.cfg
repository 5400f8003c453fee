\* get_regs(1): a call without arguments.
SPECIFICATION Spec
CONSTANTS
  Counts <- AnyCall
  MaxRegister = 6
INVARIANT
  HeldNotFree
