SPECIFICATION Spec
CONSTANTS
    LearnCounts = {1}
    Cells = 2
    Captures <- MCCaptures
    IRIDs <- MCRecords
    MaxLearns = 2
INVARIANTS
    SignalBelongsToIRID
