CONSTANTS
    Nodes = {n1, n2}
    Writers = {}
    Readers = {}
    MaxEdges = 2
    MaxDeclares = 1
    MaxWrites = 0
    MaxFaults = 0
    MaxCrashes = 0
SPECIFICATION Spec
PROPERTIES ReplacedAtOnce
CHECK_DEADLOCK FALSE
