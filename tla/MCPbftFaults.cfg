CONSTANTS
    p = p
    r1 = r1
    r2 = r2
    r3 = r3
    Nodes = {p, r1, r2, r3}
    Primary = p
    f = 1
    MaxBlocks = 1
    Hasty = {}
    Mortal = {p, r1, r2, r3}
    MaxLoss = 0
    MaxDisturbances = 1
    LastDisturbed = 1
    NoMsg = NoMsg
SPECIFICATION FairSpec
PROPERTY FaultsTolerated
CHECK_DEADLOCK FALSE
