SPECIFICATION FairSpec
CONSTANTS
    Handlers = {h1, h2}
    Joints <- MCJoints
    Angles = {0, 3}
    MaxSteps = 2
    MaxRequests = 2
INVARIANTS
    TypeOK
    NoTornTargets
    ResetNotLost
PROPERTIES
    SetNotMixed
    ResetServed
    TargetsReached
CHECK_DEADLOCK FALSE
