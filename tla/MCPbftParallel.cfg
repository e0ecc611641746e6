CONSTANTS
    p = p
    r1 = r1
    r2 = r2
    r3 = r3
    Nodes = {p, r1, r2, r3}
    Primary = p
    f = 1
    MaxBlocks = 2
    Hasty = {p}
    Mortal = {}
    MaxLoss = 0
    MaxDisturbances = 2
    LastDisturbed = 2
    NoMsg = NoMsg
SPECIFICATION Spec
SYMMETRY Replicas
INVARIANT NoParallelRounds
CHECK_DEADLOCK FALSE
