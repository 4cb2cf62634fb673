CONSTANTS
    MaxItem = 2
    MaxQuantity = 3
    Threshold = 2
    Requests <- OneItem
    Additions <- ATakeback
    MaxRequests = 1
    MaxMenu = 1
    MaxChannel = 1
    MaxLost = 1
    MaxFaults = 1
SPECIFICATION FairSpec
INVARIANTS LowIsBeingChecked
PROPERTIES ViewCatchesUp
CHECK_DEADLOCK FALSE
