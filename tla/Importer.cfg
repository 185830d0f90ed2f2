SPECIFICATION Spec
CONSTANTS
  Utis = {"public.c-source", "public.objective-c-source"}
  Letters = {"c", "m"}
  Languages <- MCLanguages
  Kinds <- MCKinds
  Translated <- MCTranslated
  langForce <- MCForce
  langId <- MCLangId
  builders <- MCBuilders
  emitted <- MCEmitted
  code <- MCCharCode
  ConfigLanguages <- SomeConfig
  NameLanguages <- NoName
  Junk <- AnyJunk
  MaxImports = 2
  MaxTags = 2
  Count = 3
  keywordTables <- MCKeywords
  patternTables <- MCPatterns
  Words <- MCWords
  hashValue <- MCHash
  RegexOptions <- NoOptions
INVARIANTS
  TypeOK
  NeverCrashes
  RetainCounts
  ForcedLanguageWins
PROPERTIES
  ImplementsService
  NothingLeaks
CHECK_DEADLOCK FALSE
