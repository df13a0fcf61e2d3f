SPECIFICATION Spec
CONSTANTS
    Limit = 2
    MaxLearns = 4
INVARIANTS
    TypeOK
    CapturesLimited
PROPERTIES
    StarvedForGood
    LearnPolls
CHECK_DEADLOCK FALSE
