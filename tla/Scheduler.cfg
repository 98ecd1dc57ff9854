SPECIFICATION FairScheduler
CONSTANTS
    Loops = {l1, l2}
    Once = once
    Callers = {c1, c2}
    AlertAfter = 2
    MaxStreak = 3
    MaxMishaps = 1
INVARIANTS PagedInTime StartIsIdempotent
PROPERTIES StoppedLoopsEnd StartedLoopsRun
