\* Four contracts, all three targets and a trailing stop; every read succeeds.
SPECIFICATION Spec
CONSTANTS
    o1 = o1
    o2 = o2
    Lot = 4
    Prices <- Trailing
    OrderIds <- TwoCloses
    PositionReads = {"ok"}
    LostAnswers = FALSE
    MaxCrashes = 0
INVARIANTS RunnerSurvives OpenRowIsCovered
PROPERTY StopRatchetsWhileOpen
SYMMETRY Interchangeable
CHECK_DEADLOCK FALSE
