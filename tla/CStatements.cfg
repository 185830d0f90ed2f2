SPECIFICATION Spec
CONSTANTS
  Languages = {"c", "cpp"}
  Passes = {0}
  Disabled = {"local"}
  Heads = {"class", "struct", "enum"}
  Storages = {"typedef", "static", "extern", "virtual"}
  Shapes = {"typed", "single"}
  MaxDepth = 2
  Deviations = {}
  Damaged = TRUE
INVARIANTS
  TagsAsDeclared
  ErrorsFit
  StatementsAreBlocks
  ResolvedBetween
