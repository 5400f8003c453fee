\* Modules of up to 6 lines of branches and labels, or of 5 lines of
\* directives and calls.
SPECIFICATION Spec
CONSTANTS
  Register = {}
  Fuel = 0
  Dialect <- MCDialect
  MaxLines <- MCMaxLines
  PoolRoom = 3
  NONE = NONE
INVARIANTS
  TypeOK
  ReportsErrors
  BranchesReach
  NoBranchToBranch
  OperandsInFrame
  PoolLinked
PROPERTY
  LabelsSettle
CHECK_DEADLOCK FALSE
