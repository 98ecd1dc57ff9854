\* The cycle repeats: phantoms and forecasts are dealt with.
SPECIFICATION FairSpec
CONSTANTS
    o1 = o1
    o2 = o2
    Lot = 2
    Prices <- Live
    OrderIds <- OneClose
    PositionReads = {"ok", "blank", "refused", "raised"}
    LostAnswers = TRUE
    MaxCrashes = 0
PROPERTIES PhantomsAreSwept ForecastsResolve
CHECK_DEADLOCK FALSE
