SPECIFICATION FairSpec
CONSTANTS
    Positions <- MCPositions
    Velocities <- MCVelocities
    MaxFast = 2
    MaxServoFaults = 1
INVARIANTS
    TypeOK
    ReadsBounded
    NoEarlyStall
PROPERTIES
    PromiseKept
    WaitEnds
CHECK_DEADLOCK FALSE
