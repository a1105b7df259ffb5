SPECIFICATION FairSpec
CONSTANT MaxFaults = 3
INVARIANTS
    TypeOK
    StopHaltsMotion
    StopHeeded
    OkSavesEveryMotor
    FloatHasPositions
    CarriersHold
PROPERTY StopEnds
