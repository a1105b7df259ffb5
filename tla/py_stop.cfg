SPECIFICATION PyFairSpec
CONSTANTS
    MaxFaults = 0
    Threads = {t1, t2}
PROPERTY StopAborts
