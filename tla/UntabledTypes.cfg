SPECIFICATION Spec
CONSTANTS
  Utis = {"public.c-source", "public.verilog-source", "public.unknown-source"}
  Letters = {"c", "m"}
  Languages <- MCLanguages
  Kinds <- MCKinds
  Translated <- MCTranslated
  langForce <- MCForce
  langId <- MCLangId
  builders <- MCBuilders
  emitted <- MCEmitted
  code <- MCCharCode
  ConfigLanguages <- NoConfig
  NameLanguages <- CName
  Junk <- ZeroedJunk
  MaxImports = 3
  MaxTags = 1
  Count = 3
  keywordTables <- MCKeywords
  patternTables <- MCPatterns
  Words <- MCWords
  hashValue <- MCHash
  RegexOptions <- ManyOptions
INVARIANTS
  CrashesOnlyUntabled
  TablesOfThisRun
CHECK_DEADLOCK FALSE
