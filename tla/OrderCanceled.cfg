CONSTANTS
    h1 = h1
    Orders = {o1}
    Items = {i1}
    Hubs = {h1}
    Warehouses = {w1}
    HubOf <- OneHub
    None = None
    MaxSubmits = 1
    MaxReports = 0
    MaxFaults = 0
    MaxCrashes = 0
SPECIFICATION Spec
INVARIANT CanceledBeforeApproval
CHECK_DEADLOCK FALSE
