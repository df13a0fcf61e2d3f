SPECIFICATION Spec
CONSTANTS
    LearnCounts = {1, 2}
    Cells = 2
    Captures <- MCCaptures
    IRIDs <- MCIRIDs
    MaxLearns = 2
INVARIANTS
    TypeOK
    AlonePassesOwn
    ManyNeverFinish
PROPERTIES
    CallsAsPromised
    CaptureIsPassedOn
