SPECIFICATION FairSpec
CONSTANTS
    Targets = {0, 1}
    Seeds = {0}
    Budget = 2
    BookCap = 6
    MaxFaults = 1
    Armed = FALSE
    StopModes = {FALSE, TRUE}
    Others = TRUE
    NoRead = NoRead
INVARIANTS StackIsBounded
PROPERTIES NoStacking UnstoppedExitsAct LotsSettle
