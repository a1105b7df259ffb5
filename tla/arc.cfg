SPECIFICATION Spec
CONSTANTS
    Half = 6
    MaxStep = 2
    Percents <- MCPercents
INVARIANTS
    TypeOK
    ArcCoversReadings
    SweepRecovered
    MidpointCentred
    SavedCentred
    GoalOnArc
