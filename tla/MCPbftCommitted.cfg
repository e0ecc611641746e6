CONSTANTS
    p = p
    r1 = r1
    r2 = r2
    r3 = r3
    Nodes = {p, r1, r2, r3}
    Primary = p
    f = 1
    MaxBlocks = 2
    Hasty = {}
    Mortal = {}
    MaxLoss = 0
    MaxDisturbances = 0
    LastDisturbed = 0
    NoMsg = NoMsg
SPECIFICATION Spec
SYMMETRY Replicas
PROPERTY CommittedLocal
CHECK_DEADLOCK FALSE
