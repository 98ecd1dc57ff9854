SPECIFICATION FairSpec
CONSTANTS
    Sides = {call}
    MaxOrders = 3
    MaxTries = 1
    MaxFaults = 1
    AtomicModes = {TRUE, FALSE}
    UwModes = {FALSE}
INVARIANTS TypeOK AtomicNeverNaked LegsAreBounded FillsMeanNoShort
PROPERTIES EstimatedCloseIsResolved NakedIsCovered
