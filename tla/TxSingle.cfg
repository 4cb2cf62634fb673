CONSTANTS
    Nodes = {n1}
    Writers = {w1}
    Readers = {r1}
    MaxEdges = 3
    MaxDeclares = 3
    MaxWrites = 2
    MaxFaults = 2
    MaxCrashes = 1
SPECIFICATION Spec
INVARIANTS NoTransactionLeft
PROPERTIES ReplacedAtOnce SnapshotIsWhole ReportedIsStored AcknowledgedSurvives
CHECK_DEADLOCK FALSE
