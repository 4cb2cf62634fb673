CONSTANTS
    Clients = {c1, c2}
    Senders = {s1}
    None = None
    MaxFd = 2
    MaxRetries = 2
    MaxAccepts = 3
    MaxRequests = 1
    MaxDeaths = 1
    MaxFaults = 2
SPECIFICATION FairSpec
INVARIANTS RegistryNamesOwner OnlineIsRegistered RunningIsReachable
PROPERTIES GoneIsOffline
CHECK_DEADLOCK FALSE
