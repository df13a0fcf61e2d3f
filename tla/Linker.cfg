SPECIFICATION Spec
CONSTANTS
    Capacity = 4
    PipeBuf = 2
    BufferSize = 3
    Lengths <- MCLengths
    Handlers <- MCHandlers
    Learners = {"l1", "l2"}
    MaxSent = 2
INVARIANTS
    TypeOK
    TurnsTile
PROPERTIES
    PipeDelivers
    BlockedForGood
    WriteReturns
    LockKept
    AsksInCompany
    ReadStopsOthers
    DeathsExplained
