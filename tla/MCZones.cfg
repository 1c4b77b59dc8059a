SPECIFICATION Spec
CONSTANTS
    Coord = {0, 1, 2, 3, 4}
    Corner = {0, 2, 4}
    Reach = {0, 1, 2}
    Part <- MCPart
    MaxByte = 4
    MaxDepth = 2
INVARIANTS
    RoundTrip
    InsideByParity
    ContainedIsCovered
    CoveredIsNear
CHECK_DEADLOCK FALSE
