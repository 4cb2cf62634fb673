CONSTANTS
    a = a
    b = b
    c = c
    d = d
    x = x
    y = y
    Ids = {a, b, c, d, x, y}
    None = None
    Unreachable = Unreachable
    Potentials <- TheBounds
    MaxNodes = 4
    MarketRequests <- TheMarketRequests
    FlowRequests <- TheFlowRequests
    CircuitGraphs <- TheCircuitGraphs
SPECIFICATION FairSpec
INVARIANTS DistancesAreShortest DistancesAreOptimal FlowIsMaximal FlowWithinCapacity
INVARIANTS CircuitIsHamiltonian CircuitIsFound OreGuaranteesWhenSymmetric
PROPERTIES EveryStepCountsDown CallEnds
CHECK_DEADLOCK FALSE
