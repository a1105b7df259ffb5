SPECIFICATION Spec
CONSTANTS
    Motors = {1}
    Images <- MCImages
    Factory = "factory"
    Zero = "zero"
    Worn = {"Mode", "Offset"}
    MaxFaults = 2
    MaxStale = 2
    Operations <- AllOps
INVARIANTS
    LockedOnReturn
