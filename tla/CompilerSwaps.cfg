SPECIFICATION Spec
CONSTANTS
  SymbolType <- MCSymbolType
  Params <- MCParams
  Symbols <- MCSymbols
  Counts = {2, 3, 4}
  MaxRegister = 30
  Programs <- Swaps
  Inputs <- MCInputs
  Coincidences = TRUE
  MaxRounds = 12
  MaxSteps = 200
INVARIANT CompiledMeaning
CHECK_DEADLOCK FALSE
