CONSTANTS
    Clients = {c1, c2}
    Senders = {s1}
    None = None
    MaxFd = 2
    MaxRetries = 2
    MaxAccepts = 3
    MaxRequests = 0
    MaxDeaths = 0
    MaxFaults = 0
SPECIFICATION Spec
PROPERTIES DeliveredToAddressee
CHECK_DEADLOCK FALSE
