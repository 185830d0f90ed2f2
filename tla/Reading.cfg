SPECIFICATION Spec
CONSTANTS
  MaxBytes = 4
  Files <- MCFiles
  lineDirectives = TRUE
  InitialSize = 3
INVARIANTS PositionOfLine SourceLineCounts PatternOfLine
PROPERTY ImplementsText
