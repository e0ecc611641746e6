CONSTANTS
    L0 = 2
    K = 2
    TipExpire = 2
    MaxTx = 3
    MaxCalls = 2
SPECIFICATION FairSpec
INVARIANTS TypeOK ParentsStored CountedOnce Acyclic
PROPERTIES Refinement TxConfirmed
