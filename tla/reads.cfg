SPECIFICATION Spec
CONSTANTS
    MaxId = 2
    Rams <- MCRams
    Noise = {255}
    Lengths <- MCLengths
    Positions <- MCPositions
    MaxFaults = 2
INVARIANTS
    TypeOK
    RequestWellFormed
    LoadIsRead
    ScanFindsMotors
    StateDecoded
    OnArcNormalized
