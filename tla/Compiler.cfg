SPECIFICATION Spec
CONSTANTS
  SymbolType <- MCSymbolType
  Params <- MCParams
  Symbols <- MCSymbols
  Counts = {2, 3, 4}
  MaxRegister = 30
  Programs <- MCPrograms
  Inputs <- MCInputs
  Coincidences = FALSE
  MaxRounds = 12
  MaxSteps = 200
INVARIANTS TypeOK CompiledMeaning CalleeKeepsArguments
CHECK_DEADLOCK FALSE
PROPERTIES CompilerIsClient OptimiserSettles
