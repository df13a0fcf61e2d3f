SPECIFICATION TransmitSpec
CONSTANTS
    SCHAR_MAX = 1
    CharSigned = TRUE
    Content <- MCContent
    Received <- MCReceived
    MaxPut = 3
    MaxEntries = 2
INVARIANTS
    TransmitTypeOK
    VerifyTakesLowSums
PROPERTIES
    LineInOrder
    CycleDrains
    ForeignEntryHangs
