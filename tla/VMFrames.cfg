SPECIFICATION Spec
CONSTANTS
  m1 = m1
  m2 = m2
  main = main
  f = f
  NULL = NULL
  FREE = FREE
  Main <- main
  Module <- MCModule
  Proc <- MCProc
  ModuleOf <- MCModuleOf
  Locals <- MCLocals
  Globals <- MCGlobals
  GlobalCell <- MCGlobalCell
  GlobalOwner <- MCGlobalOwner
  Value <- MCValue
  Fresh <- MCFresh
  Cells = 5
  MaxArgs = 1
  Operand = {0, 1}
  MaxCells = 3
  MaxDepth = 3
VIEW MCView
CONSTRAINT MapsBelowTop
INVARIANTS
  TypeOK
  NoDangling
  NoDoubleFree
  OwnersBelow
  ArgumentWindow
PROPERTIES
  CallersUntouched
  ResultIsPrivate
  LostOnlyUnderResult
