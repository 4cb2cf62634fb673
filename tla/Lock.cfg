CONSTANTS
    Programs = {p1, p2}
    MaxSets = 2
    MaxDeaths = 1
SPECIFICATION FairSpec
INVARIANTS SemaphoreBinary MutualExclusion LockNotLost
PROPERTIES FreedAfterThreads DisconnectTerminates
CHECK_DEADLOCK FALSE
