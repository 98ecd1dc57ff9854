SPECIFICATION FairSpec
CONSTANTS
    Targets = {0, 1}
    Seeds = {0}
    Budget = 2
    BookCap = 6
    MaxFaults = 0
    Armed = FALSE
    StopModes = {TRUE}
    Others = TRUE
    NoRead = NoRead
PROPERTIES ExitsAct
