CONSTANTS
    p = p
    r1 = r1
    r2 = r2
    r3 = r3
    Nodes = {p, r1, r2, r3}
    Primary = p
    f = 1
    MaxBlocks = 2
    Hasty = {p, r1, r2, r3}
    Mortal = {r1, r2, r3}
    MaxLoss = 0
    MaxDisturbances = 1
    LastDisturbed = 1
    NoMsg = NoMsg
SPECIFICATION Spec
SYMMETRY Replicas
CONSTRAINT OneDisturbance
INVARIANTS TypeOK ExecOrdered ExecPrepared RepliesTruthful NoParallelRounds AnswersBacked FirstNotRefused
PROPERTIES Refinement ExecAfterQuorum
CHECK_DEADLOCK FALSE
