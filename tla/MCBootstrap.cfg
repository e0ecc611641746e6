CONSTANTS
    Node = {p, r1, r2}
    MaxStarts = 4
SPECIFICATION FairSpec
INVARIANTS TypeOK LaterKnown TogetherComplete
PROPERTIES LaterLearned
CHECK_DEADLOCK FALSE
