\* Two threads race reads, orders, cancels and spreads over two kinds of reads.
SPECIFICATION FairSpec
CONSTANTS
    t1 = t1
    t2 = t2
    orders = orders
    positions = positions
    Nobody = Nobody
    Threads <- TwoThreads
    Kinds <- TwoKinds
    Ttl = 1
    MaxTime = 2
    MaxBook = 2
PROPERTIES ReadsNeverGoBack OneFetchPerWindow StaleOnlyFromFlight LockIsReleased
CHECK_DEADLOCK FALSE
