SPECIFICATION FairSpec
CONSTANTS
    MaxRows = 1
    Lot = 2
    Prices <- MCPrices
    MaxOrders = 4
    MaxSlices = 5
    MaxFaults = 1
    MaxCrashes = 1
    Nothing = Nothing
INVARIANTS VoidedNeverTraded ExitsOnRecord FillsLeaveNothing
PROPERTIES LadderOnlyClimbs StoppedRowsClose
CHECK_DEADLOCK FALSE
