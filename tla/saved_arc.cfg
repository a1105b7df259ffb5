SPECIFICATION Spec
CONSTANTS
    Half = 8
    SafeOffset = 2
    CalibrationStep = 4
    Slack = 1
    Shifts <- MCShifts
    OldOffsets = {}
    MaxPasses = 2
INVARIANT SavedArcIsTravel
CHECK_DEADLOCK FALSE
