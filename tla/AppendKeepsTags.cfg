SPECIFICATION Spec
CONSTANTS
    TagLines <- MCTagLines
    OldFiles <- MCOldFiles
    LookupNames <- MCLookupNames
    Sorts <- KeepingSorts
    MaxFiles = 2
    MaxPasses = 2
    MaxTags = 1
    Retries = TRUE
    JUMP_BACK = 10
INVARIANT AppendKeepsTags
CHECK_DEADLOCK FALSE
