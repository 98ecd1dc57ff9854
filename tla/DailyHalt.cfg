\* Two threads run cycles across a midnight, with one failure, on a book at its
\* base or one step below it.
SPECIFICATION FairSpec
CONSTANTS
    Threads = {loop, once}
    HaltAt = 1
    Fall = 1
    Rise = 0
    MaxDay = 2
    MaxFaults = 1
    Torn = Torn
INVARIANTS HaltHolds 
 
