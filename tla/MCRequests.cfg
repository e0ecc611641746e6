CONSTANTS
    Request = {q1, q2, q3, q4}
    MinAccumulatedTx = 2
    MaxSlips = 2
    None = None
SPECIFICATION FairSpec
INVARIANTS TypeOK NoneLost InOneBlock MadeOnce BlocksDue NotStuck
PROPERTY Proposed
CHECK_DEADLOCK FALSE
