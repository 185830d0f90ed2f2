SPECIFICATION Spec
CONSTANTS
  Utis = {"public.verilog-source"}
  Letters = {"c", "m"}
  Languages <- MCLanguages
  Kinds <- MCKinds
  Translated <- MCTranslated
  langForce <- MCForce
  langId <- MCLangId
  builders <- MCBuilders
  emitted <- MCEmitted
  code <- MCCharCode
  ConfigLanguages <- NoConfig
  NameLanguages <- NoName
  Junk <- ZeroedJunk
  MaxImports = 2
  MaxTags = 1
  Count = 3
  keywordTables <- MCKeywords
  patternTables <- MCPatterns
  Words <- MCWords
  hashValue <- MCHash
  RegexOptions <- NoOptions
INVARIANTS
  NeverCrashes
CHECK_DEADLOCK FALSE
