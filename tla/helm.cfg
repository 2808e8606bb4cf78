SPECIFICATION Fair
CONSTANTS
    MaxVersion = 2
    Specs <- AllSpecs
    MaxGen = 2
    MaxFaults = 1
    MaxRestarts = 1
INVARIANTS
    TypeOK
    CrdsFirst
    KeptVersionReported
    SettingsFollowGates
    InstalledAtRest
    ReadyAtRest
PROPERTIES
    TouchedOnlyToChange
    PinnedIsInstalled
CHECK_DEADLOCK FALSE
