\* Reads that fail in both ways and a restart at any point.
SPECIFICATION Spec
CONSTANTS
    o1 = o1
    o2 = o2
    Lot = 2
    Prices <- Live
    OrderIds <- TwoCloses
    PositionReads = {"ok", "blank", "refused", "raised"}
    LostAnswers = TRUE
    MaxCrashes = 1
INVARIANT RealizedMeansFlat
PROPERTIES ReconciledIsFinal RowLivesTradeLife
SYMMETRY Interchangeable
CHECK_DEADLOCK FALSE
