CONSTANTS
    p = p
    r1 = r1
    r2 = r2
    r3 = r3
    Nodes = {p, r1, r2, r3}
    Primary = p
    f = 1
    MaxBlocks = 1
    Hasty = {}
    Mortal = {}
    MaxLoss = 1
    MaxDisturbances = 0
    LastDisturbed = 0
    NoMsg = NoMsg
SPECIFICATION FairSpec
PROPERTIES RoundCompletes LossTolerated
CHECK_DEADLOCK FALSE
