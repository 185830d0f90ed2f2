SPECIFICATION Spec
CONSTANTS
  MaxCppNestingLevel = 4
  BraceFormat = FALSE
  if0 = FALSE
  Stale <- StaleLevels
  MaxDepth = 4
INVARIANTS
  TypeOK
  SkipsOnlyIgnored
  NeverDeeper
  LevelIsDepth
  BranchChoice
PROPERTIES
  ImplementsNest
CHECK_DEADLOCK FALSE
