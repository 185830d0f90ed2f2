SPECIFICATION Spec
CONSTANTS
    TagLines <- MCTagLines
    OldFiles <- MCOldFiles
    LookupNames <- MCLookupNames
    Sorts <- KeepingSorts
    MaxFiles = 2
    MaxPasses = 2
    MaxTags = 1
    Retries = FALSE
    JUMP_BACK = 10
INVARIANTS CountsLines FlagTellsOrderOfNew LookupFindsAll
PROPERTIES KeepsTagBook
CHECK_DEADLOCK FALSE
