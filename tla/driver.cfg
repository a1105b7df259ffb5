SPECIFICATION FairSpec
CONSTANTS
    Motors = {1}
    Images <- MCImages
    Factory = "factory"
    Zero = "zero"
    Worn = {"Mode", "Offset"}
    MaxFaults = 2
    MaxStale = 2
    Operations <- AllOps
INVARIANTS
    IInv
    VerifiedSound
    LockedWhenOk
PROPERTIES
    AcceptedIsGenuine
    NoForeignCommit
    StoreKept
    Terminates
