SPECIFICATION Spec
CONSTANTS
  MaxBytes = 3
  Files <- MCFiles
  lineDirectives = TRUE
  InitialSize = 3
PROPERTY ConvertsReturns
