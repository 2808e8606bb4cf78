SPECIFICATION Fair
CONSTANTS
    MaxVersion = 2
    Specs <- LatestOnly
    MaxGen = 1
    MaxFaults = 1
    MaxRestarts = 1
PROPERTY LatestIsInstalled
CHECK_DEADLOCK FALSE
