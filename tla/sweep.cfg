SPECIFICATION Spec
CONSTANTS
    Half = 8
    SafeOffset = 2
    CalibrationStep = 4
    Slack = 1
    Shifts <- MCShifts
    OldOffsets <- MCOffsets
    MaxPasses = 2
INVARIANTS
    TypeOK
    RoomAhead
    GoalsFitWay
CHECK_DEADLOCK FALSE
