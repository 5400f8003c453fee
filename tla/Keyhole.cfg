\* Programs of up to 5 lines of branches, and of up to 4 lines of data; a
\* queue of 5 or of 3 lines.
SPECIFICATION Spec
CONSTANTS
  A = A
  B = B
  f = f
  Name = {A, B, f}
  Dialect <- MCDialect
  MaxLines <- MCMaxLines
  Register <- MCRegister
  Tested <- MCTested
  Fuel = 16
  TargetMaxQueueSize <- MCQueueSize
  Rings = FALSE
  QueueExtraBufferSize = 3
INVARIANTS
  TypeOK
  SameMeaning
  NotSlower
  QueueFits
  LabelsOnce
  Settles
CHECK_DEADLOCK FALSE
