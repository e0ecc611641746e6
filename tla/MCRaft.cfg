CONSTANTS
    Node = {n1, n2}
    Tx = {t1, t2, t3}
    Direct = {t3}
    MinBatch = 2
    Served = {n1}
    MaxLoad = 4
    None = None
SPECIFICATION FairSpec
INVARIANTS TypeOK AppliedOnce NoneForgotten FullPoolServed StateMachineSafety AnsweredReadable SnapshotCovers AnswersTrue NotStuck
PROPERTIES Refinement HandlersEnd
CHECK_DEADLOCK FALSE
