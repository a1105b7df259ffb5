SPECIFICATION FairSpec
CONSTANTS
    Handlers = {h1, h2}
    Joints <- MCJoints
    Angles = {0, 3}
    MaxSteps = 2
    MaxRequests = 1
PROPERTY RightDragPans
CHECK_DEADLOCK FALSE
