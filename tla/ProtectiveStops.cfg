\* Two shares, bought one at a time and sold, with routes that read at any time,
\* one failed or unanswered call and a restart.
SPECIFICATION FairSpec
CONSTANTS
    s1 = s1
    s2 = s2
    MaxHeld = 2
    Slots <- TwoSlots
    TopUp = TRUE
    MaxTrades = 3
    MaxFaults = 1
    MaxRestarts = 1
INVARIANTS StopsAndClosesApart
PROPERTIES ExitsAreNotBlocked ExitsGetThrough CoverageStabilizes
