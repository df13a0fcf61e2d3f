SPECIFICATION ProtocolSpec
CONSTANTS
    SCHAR_MAX = 0
    CharSigned = TRUE
    Content <- MCContent
    Received <- MCReceived
    MaxPut = 5
    MaxEntries = 2
    ClientIDs <- MCClientIDs
    DataStrings <- MCDataStrings
    Ping <- MCPing
INVARIANTS
    ProtocolTypeOK
    ScIDCycle
    ReplyIdNamesFrame
    TurnInv
PROPERTIES
    AnswersPredateCommand
    TurnEnds
