CONSTANTS
    h1 = h1
    Orders = {o1}
    Items = {i1, i2}
    Hubs = {h1}
    Warehouses = {w1}
    HubOf <- OneHub
    None = None
    MaxSubmits = 1
    MaxReports = 1
    MaxFaults = 1
    MaxCrashes = 1
SPECIFICATION FairSpec
INVARIANTS RowsAgree
PROPERTIES SuppliesFollowApprovals CanceledIsFinal PendingIsDecided ApprovedIsProcessed
CHECK_DEADLOCK FALSE
