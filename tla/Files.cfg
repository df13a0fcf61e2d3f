SPECIFICATION Spec
CONSTANTS
    LogNames <- MCLogNames
    OtherNames <- MCOtherNames
    Limit = 2
    MaxSize = 3
    Texts <- MCTexts
    MaxArgs = 3
    MaxRuns = 2
INVARIANTS
    TypeOK
    DaemonSilent
    ArgumentsAsGiven
PROPERTIES
    LogsNeverTouched
